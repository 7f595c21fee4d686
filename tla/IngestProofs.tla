---------------------------- MODULE IngestProofs ----------------------------
(***************************************************************************)
(* Theorems about Ingest for any capture: what a reader sees of a profile  *)
(* is what was added to it, merging the samples of a stack loses nothing,  *)
(* and so each converter keeps what its input has.                         *)
(***************************************************************************)
EXTENDS Ingest, FoldLemmas

-----------------------------------------------------------------------------
(* Interning, and what is seen of the profile that is built.               *)

\* A table has the key, or there is no id for it.
LEMMA IdOfIs ==
    ASSUME NEW T, NEW table \in Seq(T), NEW key
    PROVE  /\ IdOf(table, key) \in 0..Len(table)
           /\ IdOf(table, key) # 0 => table[IdOf(table, key)].key = key
           /\ IdOf(table, key) = 0 => \A i \in 1..Len(table) : table[i].key # key
<1> DEFINE I == {i \in 1..Len(table) : table[i].key = key}
           id == IF I # {} THEN Min(I) ELSE 0
<1>1. IdOf(table, key) = id
  BY DEF IdOf, SelectInSeq
<1>2. ASSUME I # {} PROVE Min(I) \in I
  <2>0. I \subseteq Nat
    OBVIOUS
  <2>1. PICK x \in I : \A y \in I : x <= y
    <3> HIDE DEF I
    <3> QED
      BY <1>2, <2>0, LeastNat
  <2>2. QED
    BY <2>1 DEF Min
<1>3. CASE I # {}
  <2>1. id \in I
    BY <1>2, <1>3
  <2>2. id \in 1..Len(table) /\ table[id].key = key
    BY <2>1
  <2> HIDE DEF id
  <2>3. QED
    BY <1>1, <2>2
<1>4. CASE I = {}
  BY <1>1, <1>4
<1>5. QED
  BY <1>3, <1>4

\* t begins with s.
Grows(s, t) == Len(s) <= Len(t) /\ \A i \in 1..Len(s) : t[i] = s[i]

\* Interning adds the key, if it is not there, and changes no id.
LEMMA InternIs ==
    ASSUME NEW T, NEW t \in Seq(T), NEW e \in T
    PROVE  /\ Intern(t, e) \in Seq(T) /\ Grows(t, Intern(t, e))
           /\ IdOf(Intern(t, e), e.key) # 0
<1>1. CASE IdOf(t, e.key) = 0
  <2>1. Intern(t, e) = Append(t, e)
    BY <1>1 DEF Intern
  <2> DEFINE u == Append(t, e)
  <2>2. u \in Seq(T) /\ Len(u) = Len(t) + 1 /\ \A i \in 1..Len(t) : u[i] = t[i]
    OBVIOUS
  <2>3. u[Len(t) + 1] = e /\ Len(t) \in Nat
    OBVIOUS
  <2> HIDE DEF u
  <2>4. u[Len(t) + 1].key = e.key /\ Len(t) + 1 \in 1..Len(u)
    BY <2>2, <2>3
  <2>5. IdOf(u, e.key) # 0
    BY <2>2, <2>4, IdOfIs
  <2>6. Intern(t, e) = u
    BY <2>1 DEF u
  <2>7. QED
    BY <2>2, <2>3, <2>5, <2>6 DEF Grows
<1>2. CASE IdOf(t, e.key) # 0
  BY <1>2 DEF Intern, Grows
<1>3. QED
  BY <1>1, <1>2

\* What an entry is begins the longer tables too.
LEMMA GrowsOn ==
    ASSUME NEW T, NEW s \in Seq(T), NEW t \in Seq(T), NEW u \in Seq(T), Grows(s, t), Grows(t, u)
    PROVE  Grows(s, u)
BY DEF Grows

\* A key that a table has is in every table that begins with it.
LEMMA IdKept ==
    ASSUME NEW T, NEW s \in Seq(T), NEW t \in Seq(T), Grows(s, t), NEW key, IdOf(s, key) # 0
    PROVE  IdOf(t, key) # 0
<1>1. IdOf(s, key) \in 1..Len(s) /\ s[IdOf(s, key)].key = key
  BY IdOfIs
<1>2. \E i \in 1..Len(t) : t[i].key = key
  BY <1>1 DEF Grows
<1>3. QED
  BY <1>2, IdOfIs

\* The functions of all lines of a frame are interned.
InternAll(t, lines) == FoldLeft(LAMBDA u, l : Intern(u, l.fn), t, lines)

\* The functions of a location's lines, interned one after the other.
LEMMA InternAllSteps ==
    ASSUME NEW L, NEW T, \A l \in L : l.fn \in T, NEW t \in Seq(T), NEW lines \in Seq(L)
    PROVE  \E g \in [0..Len(lines) -> Seq(T)] :
               /\ g[0] = t /\ \A k \in 1..Len(lines) : g[k] = Intern(g[k - 1], lines[k].fn)
               /\ InternAll(t, lines) = g[Len(lines)]
<1> DEFINE n == Len(lines)
           V == Seq(T)
           Op(v, k) == Intern(v, lines[k].fn)
           step == [p \in (1..n) \X V |-> Op(p[2], p[1])]
           Iter(d) == d = [s \in SUBSET (1..n) |->
                              IF s = {} THEN t ELSE Op(d[s \ {Max(s)}], Max(s))]
           c == CHOOSE d : Iter(d)
<1>1. n \in Nat /\ DOMAIN lines = 1..n /\ t \in V
  OBVIOUS
<1>2. \A v \in V, k \in 1..n : Op(v, k) \in V
  <2> SUFFICES ASSUME NEW v \in V, NEW k \in 1..n PROVE Intern(v, lines[k].fn) \in Seq(T)
    OBVIOUS
  <2>1. lines[k].fn \in T
    OBVIOUS
  <2>2. QED
    BY <2>1, InternIs
<1>3. step \in [(1..n) \X V -> V] /\ \A v \in V, k \in 1..n : step[<<k, v>>] = Op(v, k)
  <2> HIDE DEF V, n, Op
  <2> QED
    BY <1>2
<1>4. \A s \in SUBSET (1..n) : s # {} => Max(s) \in 1..n
  BY <1>1, MaxIs
<1> HIDE DEF V, n, Op, step
<1>5. Iter(c)
  <2>1. PICK iter \in [SUBSET (1..n) -> V] : Folds(iter, t, step, n)
    BY <1>1, <1>3, FoldsExist
  <2>2. \A s \in SUBSET (1..n) : iter[s] = IF s = {} THEN t ELSE Op(iter[s \ {Max(s)}], Max(s))
    BY <1>3, <1>4, <2>1 DEF Folds
  <2>3. Iter(iter)
    BY <2>2
  <2>4. QED
    BY <2>3
<1> HIDE DEF c
<1>6. c[{}] = t
  BY <1>5
<1>7. \A s \in SUBSET (1..n) : s # {} /\ c[s \ {Max(s)}] \in V =>
          c[s] = step[<<Max(s), c[s \ {Max(s)}]>>]
  BY <1>3, <1>4, <1>5
<1> HIDE DEF Iter
<1>8. PICK g \in [0..n -> V] : Recurs(g, t, step, n) /\ c[1..n] = g[n]
  <2>1. n \in Nat /\ t \in V /\ step \in [(1..n) \X V -> V]
    BY <1>1, <1>3
  <2>2. FoldsIn(c, t, step, n, V)
    BY <1>6, <1>7, Zenon DEF FoldsIn
  <2>3. Yields(c, t, step, n, V)
    BY <2>1, <2>2, FoldIs
  <2>4. QED
    BY <2>3 DEF Yields
<1>9. \A k \in 1..n : g[k] = Op(g[k - 1], k)
  <2> SUFFICES ASSUME NEW k \in 1..n PROVE g[k] = Op(g[k - 1], k)
    OBVIOUS
  <2>1. g[k - 1] \in V
    BY <1>1
  <2>2. g[k] = step[<<k, g[k - 1]>>]
    BY <1>8 DEF Recurs
  <2>3. QED
    BY <1>3, <2>1, <2>2
<1>10. InternAll(t, lines) = c[1..n]
  <2>1. InternAll(t, lines) =
          (CHOOSE iter : iter = [s \in SUBSET DOMAIN lines |->
              IF s = {} THEN t ELSE Intern(iter[s \ {Max(s)}], lines[Max(s)].fn)])[DOMAIN lines]
    BY DEF InternAll, FoldLeft, MapThenFoldSet
  <2>2. QED
    BY <1>1, <2>1 DEF c, Op, Iter
<1>11. QED
  BY <1>8, <1>9, <1>10 DEF n, V, Op, Recurs

\* A table begins itself.
LEMMA GrowsSelf == ASSUME NEW T, NEW t \in Seq(T) PROVE Grows(t, t)
BY DEF Grows

\* They are all there then, and what was there is as it was.
LEMMA InternAllIs ==
    ASSUME NEW L, NEW T, \A l \in L : l.fn \in T, NEW t \in Seq(T), NEW lines \in Seq(L)
    PROVE  /\ InternAll(t, lines) \in Seq(T) /\ Grows(t, InternAll(t, lines))
           /\ \A i \in 1..Len(lines) : IdOf(InternAll(t, lines), lines[i].fn.key) # 0
<1> DEFINE n == Len(lines)
<1>1. PICK g \in [0..n -> Seq(T)] :
         /\ g[0] = t /\ \A k \in 1..n : g[k] = Intern(g[k - 1], lines[k].fn)
         /\ InternAll(t, lines) = g[n]
  BY InternAllSteps, SMTT(30)
<1> DEFINE Has(k) == /\ Grows(t, g[k])
                     /\ \A i \in 1..k : IdOf(g[k], lines[i].fn.key) # 0
           S == {k \in Nat : k <= n => Has(k)}
<1>2. n \in Nat /\ \A k \in 1..n : lines[k].fn \in T
  OBVIOUS
<1> HIDE DEF n
<1>3. 0 \in S
  BY <1>1, GrowsSelf
<1>4. ASSUME NEW k \in Nat, k \in S PROVE k + 1 \in S
  <2> SUFFICES ASSUME k + 1 <= n PROVE Has(k + 1)
    OBVIOUS
  <2> DEFINE m == k + 1
             f == lines[m].fn
  <2>1. k \in 0..n /\ m \in 0..n /\ m \in 1..n /\ m - 1 = k /\ Has(k) /\ 1..m = (1..k) \cup {m}
    BY <1>2, <1>4
  <2>2. g[m] = Intern(g[k], f) /\ g[k] \in Seq(T) /\ f \in T /\ g[m] \in Seq(T)
    BY <1>1, <1>2, <2>1
  <2> HIDE DEF f, m
  <2>3. Grows(g[k], g[m]) /\ IdOf(g[m], f.key) # 0
    BY <2>2, InternIs
  <2>4. Grows(t, g[m])
    BY <2>1, <2>2, <2>3, GrowsOn
  <2>5. \A i \in 1..k : IdOf(g[m], lines[i].fn.key) # 0
    BY <2>1, <2>2, <2>3, IdKept
  <2>6. IdOf(g[m], lines[m].fn.key) # 0
    BY <2>3 DEF f
  <2>7. Has(m)
    BY <2>1, <2>4, <2>5, <2>6
  <2>8. QED
    BY <2>7 DEF m
<1>5. n \in S
  <2> HIDE DEF S
  <2> QED
    BY <1>2, <1>3, <1>4, Induction
<1>6. g[n] \in Seq(T)
  BY <1>2
<1>7. QED
  BY <1>1, <1>2, <1>5, <1>6 DEF n

-----------------------------------------------------------------------------
(* The tables of a profile under construction, for frames of a set F with  *)
(* lines in L and functions in T.                                          *)

FrameNames(f) == [j \in DOMAIN f.lines |-> f.lines[j].fn.name]

\* The keys tell the names.
Coherent(F, L, T) ==
    /\ \A f \in F : f.lines \in Seq(L)
    /\ \A l \in L : l.fn \in T
    /\ \A d, e \in T : d.key = e.key => d.name = e.name
    /\ \A f, g \in F : f.key = g.key => FrameNames(f) = FrameNames(g)

Entries(F) == [key : {f.key : f \in F}, mapping : {f.mapping : f \in F},
               lines : Seq([fn : Nat, line : {f.lines[j].line : f \in F, j \in Nat}])]

\* The names a location has with the functions.
LocationNames(functions, loc) == [j \in DOMAIN loc.lines |-> functions[loc.lines[j].fn].name]

Refers(functions, loc) == \A j \in DOMAIN loc.lines : loc.lines[j].fn \in 1..Len(functions)

TablesInv(functions, locations, F, T) ==
    /\ functions \in Seq(T) /\ locations \in Seq(Entries(F))
    /\ \A i \in 1..Len(locations) :
          /\ Refers(functions, locations[i])
          /\ \A f \in F : f.key = locations[i].key =>
                 LocationNames(functions, locations[i]) = FrameNames(f)

\* More functions do not change what a location reads.
LEMMA NamesStay ==
    ASSUME NEW T, NEW s \in Seq(T), NEW t \in Seq(T), Grows(s, t), NEW loc, Refers(s, loc)
    PROVE  Refers(t, loc) /\ LocationNames(t, loc) = LocationNames(s, loc)
BY DEF Grows, Refers, LocationNames

\* The location of a frame is there after it is interned, and the others are
\* what they were.
LEMMA InternLocationIs ==
    ASSUME NEW F, NEW L, NEW T, Coherent(F, L, T), NEW f \in F,
           NEW p, TablesInv(p.functions, p.locations, F, T),
           p = [functions |-> p.functions, locations |-> p.locations, samples |-> p.samples]
    PROVE  LET q == InternLocation(p, f) IN
           /\ q = [functions |-> q.functions, locations |-> q.locations, samples |-> p.samples]
           /\ TablesInv(q.functions, q.locations, F, T)
           /\ Grows(p.functions, q.functions) /\ Grows(p.locations, q.locations)
           /\ IdOf(q.locations, f.key) # 0
<1> DEFINE q == InternLocation(p, f)
<1> USE DEF TablesInv
<1>1. CASE IdOf(p.locations, f.key) # 0
  BY <1>1, GrowsSelf DEF InternLocation
<1>2. CASE IdOf(p.locations, f.key) = 0
  <2> DEFINE fns == InternAll(p.functions, f.lines)
             lines == [i \in DOMAIN f.lines |->
                          [fn |-> IdOf(fns, f.lines[i].fn.key), line |-> f.lines[i].line]]
             loc == [key |-> f.key, mapping |-> f.mapping, lines |-> lines]
  <2>1. q = [functions |-> fns, locations |-> Append(p.locations, loc), samples |-> p.samples]
    <3>1. q = [p EXCEPT !.functions = fns, !.locations = Append(p.locations, loc)]
      BY <1>2 DEF InternLocation, InternAll
    <3> HIDE DEF q, fns, lines, loc
    <3>2. QED
      BY <3>1
  <2>2. f.lines \in Seq(L) /\ \A l \in L : l.fn \in T
    BY DEF Coherent
  <2>3. /\ fns \in Seq(T) /\ Grows(p.functions, fns)
        /\ \A i \in 1..Len(f.lines) : IdOf(fns, f.lines[i].fn.key) # 0
    <3> HIDE DEF fns
    <3> QED
      BY <2>2, InternAllIs DEF fns
  <2> HIDE DEF fns, q
  <2>4. \A i \in 1..Len(f.lines) :
            /\ IdOf(fns, f.lines[i].fn.key) \in 1..Len(fns)
            /\ fns[IdOf(fns, f.lines[i].fn.key)].key = f.lines[i].fn.key
            /\ f.lines[i].fn \in T
    BY <2>2, <2>3, IdOfIs
  <2>5. \A i \in 1..Len(f.lines) : fns[IdOf(fns, f.lines[i].fn.key)].name = f.lines[i].fn.name
    <3>1. \A k \in 1..Len(fns) : fns[k] \in T
      BY <2>3
    <3>2. QED
      BY <2>4, <3>1 DEF Coherent
  <2>6. DOMAIN f.lines = 1..Len(f.lines) /\ DOMAIN lines = 1..Len(f.lines)
    <3>1. DOMAIN f.lines = 1..Len(f.lines)
      <4> DEFINE l == f.lines
      <4>1. l \in Seq(L)
        BY <2>2
      <4> HIDE DEF l
      <4>2. DOMAIN l = 1..Len(l)
        BY <4>1
      <4>3. QED
        BY <4>2 DEF l
    <3>2. DOMAIN lines = DOMAIN f.lines
      BY Zenon
    <3> HIDE DEF lines
    <3>3. QED
      BY <3>1, <3>2
  <2>7. Refers(fns, loc) /\ LocationNames(fns, loc) = FrameNames(f)
    BY <2>4, <2>5, <2>6, Zenon DEF Refers, LocationNames, FrameNames
  <2>8. loc \in Entries(F)
    <3> DEFINE At == {e.lines[j].line : e \in F, j \in Nat}
               R == [fn : Nat, line : At]
    <3>1. ASSUME NEW i \in 1..Len(f.lines) PROVE lines[i] \in R
      <4>1. i \in Nat /\ IdOf(fns, f.lines[i].fn.key) \in Nat
        BY <2>2, <2>3, <2>4
      <4>2. f.lines[i].line \in At
        BY <4>1
      <4>3. lines[i] = [fn |-> IdOf(fns, f.lines[i].fn.key), line |-> f.lines[i].line]
        BY <2>6
      <4> HIDE DEF At, lines
      <4>4. QED
        BY <4>1, <4>2, <4>3
    <3>2. Len(f.lines) \in Nat
      BY <2>2
    <3> HIDE DEF R, At
    <3>3. lines \in [1..Len(f.lines) -> R]
      BY <2>6, <3>1
    <3> HIDE DEF lines
    <3> DEFINE l == Len(f.lines)
    <3> HIDE DEF l
    <3>4. lines \in Seq(R)
      <4>1. l \in Nat /\ lines \in [1..l -> R]
        BY <3>2, <3>3 DEF l
      <4>2. QED
        BY <4>1
    <3> USE DEF R, At
    <3>5. QED
      BY <3>4 DEF Entries, loc
  <2> HIDE DEF loc
  <2> DEFINE more == Append(p.locations, loc)
             n == Len(p.locations)
  <2>9. /\ more \in Seq(Entries(F)) /\ Len(more) = n + 1 /\ n \in Nat
        /\ more[n + 1] = loc /\ \A i \in 1..n : more[i] = p.locations[i]
    BY <2>8
  <2> HIDE DEF more
  <2>10. Grows(p.locations, more)
    BY <2>9 DEF Grows
  <2>11. loc.key = f.key
    BY DEF loc
  <2>12. IdOf(more, f.key) # 0
    <3>1. n + 1 \in 1..Len(more) /\ more[n + 1].key = f.key
      BY <2>9, <2>11
    <3>2. QED
      BY <2>9, <3>1, IdOfIs
  <2>13. ASSUME NEW i \in 1..Len(more)
         PROVE  /\ Refers(fns, more[i])
                /\ \A g \in F : g.key = more[i].key => LocationNames(fns, more[i]) = FrameNames(g)
    <3>1. CASE i \in 1..n
      BY <2>3, <2>9, <3>1, NamesStay
    <3>2. CASE i = n + 1
      BY <2>7, <2>9, <2>11, <3>2 DEF Coherent
    <3>3. QED
      BY <2>9, <3>1, <3>2
  <2>14. q.functions = fns /\ q.locations = more /\ q.samples = p.samples
    BY <2>1 DEF more
  <2>15. q = [functions |-> q.functions, locations |-> q.locations, samples |-> p.samples]
    BY <2>1 DEF more
  <2>16. QED
    BY <2>3, <2>9, <2>10, <2>12, <2>13, <2>14, <2>15 DEF q
<1>3. QED
  <2>1. IdOf(p.locations, f.key) = 0 \/ IdOf(p.locations, f.key) # 0
    OBVIOUS
  <2>2. QED
    BY <1>1, <1>2, <2>1

\* A profile under construction.
Building(F, T, SM) ==
    {p \in [functions : Seq(T), locations : Seq(Entries(F)), samples : Seq(SM)] :
        TablesInv(p.functions, p.locations, F, T)}

\* Interning a location keeps the tables in order and changes no entry.
LEMMA InternLocationKeeps ==
    ASSUME NEW F, NEW L, NEW T, Coherent(F, L, T), NEW SM, NEW p \in Building(F, T, SM), NEW f \in F
    PROVE  LET q == InternLocation(p, f) IN
           /\ q \in Building(F, T, SM) /\ q.samples = p.samples
           /\ Grows(p.functions, q.functions) /\ Grows(p.locations, q.locations)
           /\ IdOf(q.locations, f.key) # 0
<1> DEFINE q == InternLocation(p, f)
<1>1. /\ TablesInv(p.functions, p.locations, F, T) /\ p.samples \in Seq(SM)
      /\ p = [functions |-> p.functions, locations |-> p.locations, samples |-> p.samples]
  BY DEF Building
<1>2. /\ q = [functions |-> q.functions, locations |-> q.locations, samples |-> p.samples]
      /\ TablesInv(q.functions, q.locations, F, T)
      /\ Grows(p.functions, q.functions) /\ Grows(p.locations, q.locations)
      /\ IdOf(q.locations, f.key) # 0
  <2> HIDE DEF q
  <2>1. QED
    BY <1>1, InternLocationIs DEF q
<1> HIDE DEF q
<1>3. q.functions \in Seq(T) /\ q.locations \in Seq(Entries(F)) /\ q.samples = p.samples
  BY <1>2 DEF TablesInv
<1>4. q \in Building(F, T, SM)
  BY <1>1, <1>2, <1>3 DEF Building
<1>5. QED
  BY <1>2, <1>3, <1>4 DEF q

AddFrames(p, frames) == FoldLeft(InternLocation, p, frames)

\* The locations of a stack, interned one after the other.
LEMMA AddFramesSteps ==
    ASSUME NEW F, NEW L, NEW T, Coherent(F, L, T), NEW SM, NEW p \in Building(F, T, SM),
           NEW frames \in Seq(F)
    PROVE  \E g \in [0..Len(frames) -> Building(F, T, SM)] :
               /\ g[0] = p /\ \A k \in 1..Len(frames) : g[k] = InternLocation(g[k - 1], frames[k])
               /\ AddFrames(p, frames) = g[Len(frames)]
<1> DEFINE n == Len(frames)
           V == Building(F, T, SM)
           Op(v, k) == InternLocation(v, frames[k])
           step == [d \in (1..n) \X V |-> Op(d[2], d[1])]
           Iter(d) == d = [s \in SUBSET (1..n) |->
                              IF s = {} THEN p ELSE Op(d[s \ {Max(s)}], Max(s))]
           c == CHOOSE d : Iter(d)
<1>1. n \in Nat /\ DOMAIN frames = 1..n /\ p \in V
  OBVIOUS
<1>2. \A v \in V, k \in 1..n : Op(v, k) \in V
  <2> SUFFICES ASSUME NEW v \in V, NEW k \in 1..n PROVE InternLocation(v, frames[k]) \in V
    OBVIOUS
  <2>1. frames[k] \in F
    OBVIOUS
  <2>2. QED
    BY <2>1, InternLocationKeeps
<1>3. step \in [(1..n) \X V -> V] /\ \A v \in V, k \in 1..n : step[<<k, v>>] = Op(v, k)
  <2> HIDE DEF V, n, Op
  <2> QED
    BY <1>2
<1>4. \A s \in SUBSET (1..n) : s # {} => Max(s) \in 1..n
  BY <1>1, MaxIs
<1> HIDE DEF V, n, Op, step
<1>5. Iter(c)
  <2>1. PICK iter \in [SUBSET (1..n) -> V] : Folds(iter, p, step, n)
    BY <1>1, <1>3, FoldsExist
  <2>2. \A s \in SUBSET (1..n) : iter[s] = IF s = {} THEN p ELSE Op(iter[s \ {Max(s)}], Max(s))
    BY <1>3, <1>4, <2>1 DEF Folds
  <2>3. Iter(iter)
    BY <2>2
  <2>4. QED
    BY <2>3
<1> HIDE DEF c
<1>6. c[{}] = p
  BY <1>5
<1>7. \A s \in SUBSET (1..n) : s # {} /\ c[s \ {Max(s)}] \in V =>
          c[s] = step[<<Max(s), c[s \ {Max(s)}]>>]
  BY <1>3, <1>4, <1>5
<1> HIDE DEF Iter
<1>8. PICK g \in [0..n -> V] : Recurs(g, p, step, n) /\ c[1..n] = g[n]
  <2>1. n \in Nat /\ p \in V /\ step \in [(1..n) \X V -> V]
    BY <1>1, <1>3
  <2>2. FoldsIn(c, p, step, n, V)
    BY <1>6, <1>7, Zenon DEF FoldsIn
  <2>3. Yields(c, p, step, n, V)
    BY <2>1, <2>2, FoldIs
  <2>4. QED
    BY <2>3 DEF Yields
<1>9. \A k \in 1..n : g[k] = Op(g[k - 1], k)
  <2> SUFFICES ASSUME NEW k \in 1..n PROVE g[k] = Op(g[k - 1], k)
    OBVIOUS
  <2>1. g[k - 1] \in V
    BY <1>1
  <2>2. g[k] = step[<<k, g[k - 1]>>]
    BY <1>8 DEF Recurs
  <2>3. QED
    BY <1>3, <2>1, <2>2
<1>10. AddFrames(p, frames) = c[1..n]
  <2>1. AddFrames(p, frames) =
          (CHOOSE iter : iter = [s \in SUBSET DOMAIN frames |->
              IF s = {} THEN p ELSE InternLocation(iter[s \ {Max(s)}], frames[Max(s)])])[DOMAIN frames]
    BY DEF AddFrames, FoldLeft, MapThenFoldSet
  <2>2. QED
    BY <1>1, <2>1 DEF c, Op, Iter
<1>11. QED
  BY <1>8, <1>9, <1>10 DEF n, V, Op, Recurs

\* The locations of all frames of a sample are there.
LEMMA AddFramesIs ==
    ASSUME NEW F, NEW L, NEW T, Coherent(F, L, T), NEW SM, NEW p \in Building(F, T, SM),
           NEW frames \in Seq(F)
    PROVE  LET q == AddFrames(p, frames) IN
           /\ q \in Building(F, T, SM) /\ q.samples = p.samples
           /\ Grows(p.functions, q.functions) /\ Grows(p.locations, q.locations)
           /\ \A i \in 1..Len(frames) : IdOf(q.locations, frames[i].key) # 0
<1> DEFINE n == Len(frames)
           B == Building(F, T, SM)
<1>1. PICK g \in [0..n -> B] :
         /\ g[0] = p /\ \A k \in 1..n : g[k] = InternLocation(g[k - 1], frames[k])
         /\ AddFrames(p, frames) = g[n]
  BY AddFramesSteps
<1> DEFINE Has(k) == /\ g[k].samples = p.samples
                     /\ Grows(p.functions, g[k].functions) /\ Grows(p.locations, g[k].locations)
                     /\ \A i \in 1..k : IdOf(g[k].locations, frames[i].key) # 0
           S == {k \in Nat : k <= n => Has(k)}
<1>2. n \in Nat /\ \A k \in 1..n : frames[k] \in F
  OBVIOUS
<1>3. \A q \in B : q.functions \in Seq(T) /\ q.locations \in Seq(Entries(F))
  BY DEF Building
<1> HIDE DEF n, B
<1>4. 0 \in S
  BY <1>1, <1>3, GrowsSelf DEF B
<1>5. ASSUME NEW k \in Nat, k \in S PROVE k + 1 \in S
  <2> SUFFICES ASSUME k + 1 <= n PROVE Has(k + 1)
    OBVIOUS
  <2> DEFINE m == k + 1
             f == frames[m]
  <2>1. k \in 0..n /\ m \in 0..n /\ m \in 1..n /\ m - 1 = k /\ Has(k) /\ 1..m = (1..k) \cup {m}
    <3>1. k \in 0..n /\ m \in 0..n /\ m \in 1..n /\ m - 1 = k /\ 1..m = (1..k) \cup {m}
      BY <1>2
    <3>2. Has(k)
      BY <1>5, <3>1
    <3>3. QED
      BY <3>1, <3>2
  <2>2. g[m] = InternLocation(g[k], f) /\ g[k] \in B /\ f \in F
    BY <1>1, <1>2, <2>1
  <2> HIDE DEF f, m
  <2>3. /\ g[m] \in B /\ g[m].samples = g[k].samples
        /\ Grows(g[k].functions, g[m].functions) /\ Grows(g[k].locations, g[m].locations)
        /\ IdOf(g[m].locations, f.key) # 0
    BY <2>2, InternLocationKeeps DEF B
  <2>4. Grows(p.functions, g[m].functions) /\ Grows(p.locations, g[m].locations)
    <3>1. p \in B
      BY DEF B
    <3>2. QED
      BY <1>3, <2>1, <2>2, <2>3, <3>1, GrowsOn
  <2>5. \A i \in 1..k : IdOf(g[m].locations, frames[i].key) # 0
    BY <1>3, <2>1, <2>2, <2>3, IdKept
  <2>6. IdOf(g[m].locations, frames[m].key) # 0
    BY <2>3 DEF f
  <2>7. Has(m)
    BY <2>1, <2>3, <2>4, <2>5, <2>6
  <2>8. QED
    BY <2>7 DEF m
<1>6. n \in S
  <2> HIDE DEF S
  <2> QED
    BY <1>2, <1>4, <1>5, Induction
<1>7. g[n] \in B
  BY <1>1, <1>2
<1>8. QED
  BY <1>1, <1>2, <1>6, <1>7 DEF n, B

\* A sample has the locations of these frames.
HasFrames(locations, s, frames) ==
    /\ DOMAIN s.location = DOMAIN frames
    /\ \A i \in DOMAIN frames :
          /\ s.location[i] \in 1..Len(locations)
          /\ locations[s.location[i]].key = frames[i].key

\* More locations do not change what a sample refers to.
LEMMA FramesStay ==
    ASSUME NEW T, NEW s \in Seq(T), NEW t \in Seq(T), Grows(s, t), NEW x, NEW frames, HasFrames(s, x, frames)
    PROVE  HasFrames(t, x, frames)
BY DEF Grows, HasFrames

Samples(VV) == [location : Seq(Nat), value : VV]
ItemsOf(F, VV) == [frames : Seq(F), value : VV]

\* A sample more refers to its frames, with its value, and no other changes.
LEMMA AddSampleIs ==
    ASSUME NEW F, NEW L, NEW T, Coherent(F, L, T), NEW VV, NEW p \in Building(F, T, Samples(VV)),
           NEW x \in ItemsOf(F, VV)
    PROVE  LET q == AddSample(p, x)
               n == Len(p.samples)
           IN  /\ q \in Building(F, T, Samples(VV))
               /\ Grows(p.functions, q.functions) /\ Grows(p.locations, q.locations)
               /\ Len(q.samples) = n + 1 /\ \A i \in 1..n : q.samples[i] = p.samples[i]
               /\ q.samples[n + 1].value = x.value
               /\ HasFrames(q.locations, q.samples[n + 1], x.frames)
<1> DEFINE r == AddFrames(p, x.frames)
           m == Len(x.frames)
           at == [i \in DOMAIN x.frames |-> IdOf(r.locations, x.frames[i].key)]
           new == [location |-> at, value |-> x.value]
           SM == Samples(VV)
<1>1. x.frames \in Seq(F) /\ x.value \in VV /\ m \in Nat /\ DOMAIN x.frames = 1..m
  BY DEF ItemsOf
<1>2. /\ r \in Building(F, T, SM) /\ r.samples = p.samples
      /\ Grows(p.functions, r.functions) /\ Grows(p.locations, r.locations)
      /\ \A i \in 1..m : IdOf(r.locations, x.frames[i].key) # 0
  <2> HIDE DEF SM, r
  <2> QED
    BY <1>1, AddFramesIs DEF r, SM
<1>3. AddSample(p, x) = [r EXCEPT !.samples = Append(r.samples, new)]
  BY DEF AddSample, AddFrames
<1> HIDE DEF r, m, at
<1>4. /\ r.locations \in Seq(Entries(F)) /\ r.samples \in Seq(SM) /\ r.functions \in Seq(T)
      /\ TablesInv(r.functions, r.locations, F, T)
      /\ r = [functions |-> r.functions, locations |-> r.locations, samples |-> r.samples]
  <2> HIDE DEF SM
  <2> QED
    BY <1>2 DEF Building
<1>5. \A i \in 1..m : /\ at[i] = IdOf(r.locations, x.frames[i].key)
                      /\ at[i] \in 1..Len(r.locations)
                      /\ r.locations[at[i]].key = x.frames[i].key
  BY <1>1, <1>2, <1>4, IdOfIs DEF at
<1>6. at \in Seq(Nat) /\ DOMAIN at = 1..m
  <2>1. at \in [1..m -> Nat]
    BY <1>1, <1>5 DEF at
  <2>2. QED
    BY <1>1, <2>1
<1>7. new \in SM
  BY <1>1, <1>6 DEF Samples
<1>8. new.location = at /\ new.value = x.value
  OBVIOUS
<1> HIDE DEF new, SM
<1> DEFINE q == AddSample(p, x)
           n == Len(p.samples)
           more == Append(r.samples, new)
<1>9. more \in Seq(SM) /\ Len(more) = n + 1 /\ more[n + 1] = new /\ \A i \in 1..n : more[i] = p.samples[i]
  BY <1>2, <1>4, <1>7
<1> HIDE DEF more
<1>10. q = [functions |-> r.functions, locations |-> r.locations, samples |-> more]
  BY <1>3, <1>4 DEF more
<1> HIDE DEF q
<1>11. q.functions = r.functions /\ q.locations = r.locations /\ q.samples = more
  BY <1>10
<1>12. q \in Building(F, T, SM)
  BY <1>4, <1>9, <1>10, <1>11 DEF Building
<1>13. HasFrames(q.locations, new, x.frames)
  BY <1>1, <1>5, <1>6, <1>8, <1>11 DEF HasFrames
<1>14. QED
  BY <1>2, <1>8, <1>9, <1>11, <1>12, <1>13 DEF q, SM

AddSamples(p, items) == FoldLeft(AddSample, p, items)

\* The samples, added one after the other.
LEMMA AddSamplesSteps ==
    ASSUME NEW F, NEW L, NEW T, Coherent(F, L, T), NEW VV, NEW p \in Building(F, T, Samples(VV)),
           NEW items \in Seq(ItemsOf(F, VV))
    PROVE  \E g \in [0..Len(items) -> Building(F, T, Samples(VV))] :
               /\ g[0] = p /\ \A k \in 1..Len(items) : g[k] = AddSample(g[k - 1], items[k])
               /\ AddSamples(p, items) = g[Len(items)]
<1> DEFINE n == Len(items)
           V == Building(F, T, Samples(VV))
           Op(v, k) == AddSample(v, items[k])
           step == [d \in (1..n) \X V |-> Op(d[2], d[1])]
           Iter(d) == d = [s \in SUBSET (1..n) |->
                              IF s = {} THEN p ELSE Op(d[s \ {Max(s)}], Max(s))]
           c == CHOOSE d : Iter(d)
<1>1. n \in Nat /\ DOMAIN items = 1..n /\ p \in V
  OBVIOUS
<1>2. \A v \in V, k \in 1..n : Op(v, k) \in V
  <2> SUFFICES ASSUME NEW v \in V, NEW k \in 1..n PROVE AddSample(v, items[k]) \in V
    OBVIOUS
  <2>1. items[k] \in ItemsOf(F, VV)
    OBVIOUS
  <2> HIDE DEF n
  <2>2. QED
    BY <2>1, AddSampleIs
<1>3. step \in [(1..n) \X V -> V] /\ \A v \in V, k \in 1..n : step[<<k, v>>] = Op(v, k)
  <2> HIDE DEF V, n, Op
  <2> QED
    BY <1>2
<1>4. \A s \in SUBSET (1..n) : s # {} => Max(s) \in 1..n
  BY <1>1, MaxIs
<1> HIDE DEF V, n, Op, step
<1>5. Iter(c)
  <2>1. PICK iter \in [SUBSET (1..n) -> V] : Folds(iter, p, step, n)
    BY <1>1, <1>3, FoldsExist
  <2>2. \A s \in SUBSET (1..n) : iter[s] = IF s = {} THEN p ELSE Op(iter[s \ {Max(s)}], Max(s))
    BY <1>3, <1>4, <2>1 DEF Folds
  <2>3. Iter(iter)
    BY <2>2
  <2>4. QED
    BY <2>3
<1> HIDE DEF c
<1>6. c[{}] = p
  BY <1>5
<1>7. \A s \in SUBSET (1..n) : s # {} /\ c[s \ {Max(s)}] \in V =>
          c[s] = step[<<Max(s), c[s \ {Max(s)}]>>]
  BY <1>3, <1>4, <1>5
<1> HIDE DEF Iter
<1>8. PICK g \in [0..n -> V] : Recurs(g, p, step, n) /\ c[1..n] = g[n]
  <2>1. n \in Nat /\ p \in V /\ step \in [(1..n) \X V -> V]
    BY <1>1, <1>3
  <2>2. FoldsIn(c, p, step, n, V)
    BY <1>6, <1>7, Zenon DEF FoldsIn
  <2>3. Yields(c, p, step, n, V)
    BY <2>1, <2>2, FoldIs
  <2>4. QED
    BY <2>3 DEF Yields
<1>9. \A k \in 1..n : g[k] = Op(g[k - 1], k)
  <2> SUFFICES ASSUME NEW k \in 1..n PROVE g[k] = Op(g[k - 1], k)
    OBVIOUS
  <2>1. g[k - 1] \in V
    BY <1>1
  <2>2. g[k] = step[<<k, g[k - 1]>>]
    BY <1>8 DEF Recurs
  <2>3. QED
    BY <1>3, <2>1, <2>2
<1>10. AddSamples(p, items) = c[1..n]
  <2>1. AddSamples(p, items) =
          (CHOOSE iter : iter = [s \in SUBSET DOMAIN items |->
              IF s = {} THEN p ELSE AddSample(iter[s \ {Max(s)}], items[Max(s)])])[DOMAIN items]
    BY DEF AddSamples, FoldLeft, MapThenFoldSet
  <2>2. QED
    BY <1>1, <2>1 DEF c, Op, Iter
<1>11. QED
  BY <1>8, <1>9, <1>10 DEF n, V, Op, Recurs

\* Each item has become a sample of its frames.
LEMMA AddSamplesIs ==
    ASSUME NEW F, NEW L, NEW T, Coherent(F, L, T), NEW VV, NEW p \in Building(F, T, Samples(VV)),
           p.samples = <<>>, NEW items \in Seq(ItemsOf(F, VV))
    PROVE  LET q == AddSamples(p, items) IN
           /\ q \in Building(F, T, Samples(VV)) /\ Len(q.samples) = Len(items)
           /\ \A i \in 1..Len(items) : /\ q.samples[i].value = items[i].value
                                       /\ HasFrames(q.locations, q.samples[i], items[i].frames)
<1> DEFINE n == Len(items)
           B == Building(F, T, Samples(VV))
           X == ItemsOf(F, VV)
<1>1. PICK g \in [0..n -> B] :
         /\ g[0] = p /\ \A k \in 1..n : g[k] = AddSample(g[k - 1], items[k])
         /\ AddSamples(p, items) = g[n]
  BY AddSamplesSteps
<1> DEFINE Has(k) == /\ Len(g[k].samples) = k
                     /\ \A i \in 1..k : /\ g[k].samples[i].value = items[i].value
                                        /\ HasFrames(g[k].locations, g[k].samples[i], items[i].frames)
           S == {k \in Nat : k <= n => Has(k)}
<1>2. n \in Nat /\ \A k \in 1..n : items[k] \in X
  OBVIOUS
<1>3. \A q \in B : q.functions \in Seq(T) /\ q.locations \in Seq(Entries(F))
  BY DEF Building
<1> HIDE DEF n, B, X
<1>4. 0 \in S
  BY <1>1
<1>5. ASSUME NEW k \in Nat, k \in S PROVE k + 1 \in S
  <2> SUFFICES ASSUME k + 1 <= n PROVE Has(k + 1)
    OBVIOUS
  <2> DEFINE m == k + 1
             x == items[m]
  <2>1. k \in 0..n /\ m \in 0..n /\ m \in 1..n /\ m - 1 = k /\ Has(k) /\ 1..m = (1..k) \cup {m}
    <3>1. k \in 0..n /\ m \in 0..n /\ m \in 1..n /\ m - 1 = k /\ 1..m = (1..k) \cup {m}
      BY <1>2
    <3>2. Has(k)
      BY <1>5, <3>1
    <3>3. QED
      BY <3>1, <3>2
  <2>2. g[m] = AddSample(g[k], x) /\ g[k] \in B /\ x \in X
    <3>1. x \in X
      BY <1>2, <2>1
    <3>2. g[k] \in B
      BY <1>1, <2>1
    <3> HIDE DEF m, x
    <3>3. g[m] = AddSample(g[m - 1], items[m])
      BY <1>1, <2>1
    <3>4. QED
      BY <2>1, <3>1, <3>2, <3>3 DEF x
  <2> HIDE DEF x, m
  <2>3. /\ g[m] \in B /\ Grows(g[k].locations, g[m].locations)
        /\ Len(g[m].samples) = m /\ \A i \in 1..k : g[m].samples[i] = g[k].samples[i]
        /\ g[m].samples[m].value = x.value
        /\ HasFrames(g[m].locations, g[m].samples[m], x.frames)
    <3> DEFINE b == g[k]
               y == g[m]
    <3>1. b \in Building(F, T, Samples(VV)) /\ x \in ItemsOf(F, VV)
      BY <2>2 DEF B, X
    <3>2. y = AddSample(b, x) /\ Len(b.samples) = k
      BY <2>1, <2>2
    <3> HIDE DEF b, y
    <3>3. /\ y \in Building(F, T, Samples(VV)) /\ Grows(b.locations, y.locations)
          /\ Len(y.samples) = k + 1 /\ \A i \in 1..k : y.samples[i] = b.samples[i]
          /\ y.samples[k + 1].value = x.value
          /\ HasFrames(y.locations, y.samples[k + 1], x.frames)
      <4>1. LET z == AddSample(b, x)
                j == Len(b.samples)
            IN  /\ z \in Building(F, T, Samples(VV)) /\ Grows(b.locations, z.locations)
                /\ Len(z.samples) = j + 1 /\ \A i \in 1..j : z.samples[i] = b.samples[i]
                /\ z.samples[j + 1].value = x.value
                /\ HasFrames(z.locations, z.samples[j + 1], x.frames)
        BY <3>1, AddSampleIs
      <4>2. QED
        BY <3>2, <4>1
    <3>4. QED
      BY <3>3 DEF b, y, m, B
  <2>4. ASSUME NEW i \in 1..k
        PROVE  /\ g[m].samples[i].value = items[i].value
               /\ HasFrames(g[m].locations, g[m].samples[i], items[i].frames)
    <3> DEFINE s == g[k].locations
               t == g[m].locations
               y == g[k].samples[i]
               f == items[i].frames
    <3>1. /\ y.value = items[i].value /\ HasFrames(s, y, f) /\ Grows(s, t)
          /\ g[m].samples[i] = y
      BY <2>1, <2>3
    <3>2. s \in Seq(Entries(F)) /\ t \in Seq(Entries(F))
      BY <1>3, <2>2, <2>3
    <3> HIDE DEF s, t, y, f
    <3>3. HasFrames(t, y, f)
      BY <3>1, <3>2, FramesStay
    <3>4. QED
      BY <3>1, <3>3 DEF t, f
  <2>5. Has(m)
    BY <2>1, <2>3, <2>4 DEF x
  <2>6. QED
    BY <2>5 DEF m
<1>6. n \in S
  <2> HIDE DEF S
  <2> QED
    BY <1>2, <1>4, <1>5, Induction
<1>7. g[n] \in B
  BY <1>1, <1>2
<1>8. QED
  BY <1>1, <1>2, <1>6, <1>7 DEF n, B

\* The names of a stack of frames.
StackNames(frames) == FlattenSeq([j \in DOMAIN frames |-> FrameNames(frames[j])])

Credits(items) ==
    [i \in DOMAIN items |-> [stack |-> StackNames(items[i].frames), value |-> items[i].value]]

\* A reader of a profile sees the stacks and the values it was built from.
THEOREM ProfileReads ==
    ASSUME NEW F, NEW L, NEW T, Coherent(F, L, T), NEW VV,
           NEW items \in Seq(ItemsOf(F, VV)), NEW types, NEW mappings
    PROVE  ByStack(Profile(types, mappings, items)) = Tally(Credits(items))
<1> DEFINE p == [functions |-> <<>>, locations |-> <<>>, samples |-> <<>>]
           q == AddSamples(p, items)
           P == Profile(types, mappings, items)
           n == Len(items)
           B == Building(F, T, Samples(VV))
<1>1. p \in B /\ p.samples = <<>>
  <2>1. p.functions = <<>> /\ p.locations = <<>> /\ p.samples = <<>>
    OBVIOUS
  <2>2. \A R : <<>> \in Seq(R)
    OBVIOUS
  <2>3. p \in [functions : Seq(T), locations : Seq(Entries(F)), samples : Seq(Samples(VV))]
    BY <2>2
  <2>4. TablesInv(p.functions, p.locations, F, T)
    BY <2>1, <2>2 DEF TablesInv
  <2>5. QED
    BY <2>1, <2>3, <2>4 DEF Building
<1>2. n \in Nat /\ DOMAIN items = 1..n /\ \A i \in 1..n : items[i].frames \in Seq(F)
  <2>1. \A i \in 1..n : items[i] \in ItemsOf(F, VV)
    OBVIOUS
  <2>2. QED
    BY <2>1 DEF ItemsOf
<1>3. P.functions = q.functions /\ P.locations = q.locations /\ P.samples = q.samples
  BY DEF Profile, AddSamples
<1> HIDE DEF p, P, n
<1>4. /\ q \in B /\ Len(q.samples) = n
      /\ \A i \in 1..n : /\ q.samples[i].value = items[i].value
                         /\ HasFrames(q.locations, q.samples[i], items[i].frames)
  BY <1>1, AddSamplesIs DEF n
<1> HIDE DEF q
<1>5. TablesInv(q.functions, q.locations, F, T) /\ DOMAIN q.samples = 1..n
  BY <1>2, <1>4 DEF Building
<1>6. ASSUME NEW i \in 1..n
      PROVE  NamesOf(P, P.samples[i]) = StackNames(items[i].frames)
  <2> DEFINE frames == items[i].frames
             s == q.samples[i]
  <2>1. HasFrames(q.locations, s, frames) /\ frames \in Seq(F)
    BY <1>2, <1>4
  <2> HIDE DEF frames, s
  <2>2. \A j \in DOMAIN frames :
          LocationNames(q.functions, q.locations[s.location[j]]) = FrameNames(frames[j])
    <3>1. \A j \in DOMAIN frames : frames[j] \in F
      BY <2>1
    <3>2. QED
      BY <1>5, <2>1, <3>1 DEF HasFrames, TablesInv
  <2>3. NamesOf(P, s) =
          FlattenSeq([j \in DOMAIN s.location |->
                         LocationNames(q.functions, q.locations[s.location[j]])])
    BY <1>3 DEF NamesOf, LocationNames
  <2>4. DOMAIN s.location = DOMAIN frames
    BY <2>1 DEF HasFrames
  <2>5. [j \in DOMAIN s.location |-> LocationNames(q.functions, q.locations[s.location[j]])]
          = [j \in DOMAIN frames |-> FrameNames(frames[j])]
    BY <2>2, <2>4
  <2>6. QED
    BY <1>3, <2>3, <2>5 DEF StackNames, frames, s
<1>7. [i \in DOMAIN P.samples |-> [stack |-> NamesOf(P, P.samples[i]), value |-> P.samples[i].value]]
        = Credits(items)
  BY <1>2, <1>3, <1>4, <1>5, <1>6 DEF Credits
<1>8. QED
  BY <1>7 DEF ByStack, P

-----------------------------------------------------------------------------
(* Sums by stack, and samples of one stack merged.                         *)

\* s is S from its least to its greatest.
Ascends(s, n, S) == Orders(s, n, S) /\ \A i, j \in 1..n : i < j => s[i] < s[j]

\* InOrder has every element of a set, from the least to the greatest.
LEMMA InOrderIs ==
    ASSUME NEW S \in SUBSET Int, IsFiniteSet(S)
    PROVE  Ascends(InOrder(S), Cardinality(S), S)
<1> DEFINE n == Cardinality(S)
           Upto(x) == {y \in S : y <= x}
           rank == [x \in S |-> Cardinality(Upto(x))]
           s == InOrder(S)
<1>1. n \in Nat
  BY FS_CardinalityType
<1>2. ASSUME NEW x \in S PROVE IsFiniteSet(Upto(x)) /\ rank[x] \in 1..n
  <2>1. Upto(x) \in SUBSET S /\ x \in Upto(x)
    OBVIOUS
  <2> HIDE DEF Upto
  <2>2. IsFiniteSet(Upto(x)) /\ Cardinality(Upto(x)) <= n /\ Cardinality(Upto(x)) \in Nat
    BY <2>1, FS_Subset, FS_CardinalityType
  <2>3. Cardinality(Upto(x)) # 0
    BY <2>1, <2>2, FS_EmptySet
  <2>4. QED
    BY <1>1, <2>2, <2>3
<1>3. ASSUME NEW x \in S, NEW y \in S, x < y PROVE rank[x] < rank[y]
  <2>1. Upto(x) \in SUBSET Upto(y) /\ y \in Upto(y) /\ y \notin Upto(x)
    <3>1. x \in Int /\ y \in Int /\ \A z \in S : z \in Int
      OBVIOUS
    <3>2. \A z \in S : z <= x => z <= y
      BY <1>3, <3>1
    <3>3. Upto(x) \in SUBSET Upto(y)
      BY <3>2
    <3>4. y <= y /\ ~(y <= x)
      BY <1>3, <3>1
    <3>5. QED
      BY <3>3, <3>4
  <2> HIDE DEF Upto
  <2>2. Cardinality(Upto(x)) <= Cardinality(Upto(y)) /\ Cardinality(Upto(x)) # Cardinality(Upto(y))
    BY <1>2, <2>1, FS_Subset
  <2>3. QED
    BY <1>2, <2>2
<1>4. rank \in Surjection(S, 1..n)
  <2> HIDE DEF Upto
  <2>1. rank \in [S -> 1..n]
    BY <1>2
  <2>2. \A x, y \in S : rank[x] = rank[y] => x = y
    <3>1. \A x, y \in S : x < y \/ y < x \/ x = y
      OBVIOUS
    <3> HIDE DEF rank
    <3>2. \A x \in S : rank[x] \in Int
      BY <2>1
    <3>3. QED
      BY <1>3, <3>1, <3>2
  <2> HIDE DEF rank
  <2>3. rank \in Injection(S, 1..n)
    BY <2>1, <2>2 DEF Injection, IsInjective
  <2>4. IsFiniteSet(1..n) /\ Cardinality(1..n) = n
    BY <1>1, FS_Interval
  <2>5. QED
    BY <2>3, <2>4, FS_Injection
<1> HIDE DEF Upto
<1>5. \A i \in 1..n : \E x \in S : rank[x] = i
  <2> HIDE DEF rank
  <2> QED
    BY <1>4 DEF Surjection
<1>6. DOMAIN s = 1..n /\ \A i \in 1..n : s[i] \in S /\ rank[s[i]] = i
  <2>1. s = [i \in 1..n |-> CHOOSE x \in S : Cardinality({y \in S : y <= x}) = i]
    BY DEF InOrder
  <2>2. s = [i \in 1..n |-> CHOOSE x \in S : Cardinality(Upto(x)) = i]
    BY <2>1 DEF Upto
  <2> HIDE DEF s
  <2>3. ASSUME NEW i \in 1..n PROVE s[i] \in S /\ rank[s[i]] = i
    <3>1. \E x \in S : Cardinality(Upto(x)) = i
      BY <1>5
    <3>2. s[i] = CHOOSE x \in S : Cardinality(Upto(x)) = i
      BY <2>2
    <3>3. QED
      BY <3>1, <3>2
  <2>4. QED
    BY <2>2, <2>3
<1> HIDE DEF rank
<1>7. s \in [1..n -> S]
  <2> DEFINE At(i) == CHOOSE x \in S : Cardinality({y \in S : y <= x}) = i
  <2>1. s = [i \in 1..n |-> s[i]]
    <3>1. s = [i \in 1..n |-> At(i)]
      BY DEF InOrder
    <3> HIDE DEF At, s
    <3>2. QED
      BY <3>1
  <2> HIDE DEF s
  <2>2. QED
    BY <1>6, <2>1
<1> HIDE DEF s
<1>8. \A i, j \in 1..n : i < j => s[i] < s[j]
  <2> SUFFICES ASSUME NEW i \in 1..n, NEW j \in 1..n, i < j PROVE s[i] < s[j]
    OBVIOUS
  <2>1. s[i] \in S /\ s[j] \in S /\ rank[s[i]] = i /\ rank[s[j]] = j
    BY <1>6
  <2>2. s[i] # s[j] /\ i \in Int /\ j \in Int /\ ~(j < i)
    BY <2>1
  <2>3. ~ (s[j] < s[i])
    BY <1>3, <2>1, <2>2
  <2>4. s[i] \in Int /\ s[j] \in Int
    BY <2>1
  <2>5. QED
    BY <2>2, <2>3, <2>4
<1>9. \A x \in S : \E i \in 1..n : s[i] = x
  <2> SUFFICES ASSUME NEW x \in S PROVE \E i \in 1..n : s[i] = x
    OBVIOUS
  <2> DEFINE i == rank[x]
  <2>1. i \in 1..n
    BY <1>2
  <2>2. s[i] \in S /\ rank[s[i]] = rank[x]
    BY <1>6, <2>1
  <2>3. s[i] = x
    <3> DEFINE w == s[i]
    <3> HIDE DEF w
    <3>1. w \in S /\ rank[w] = rank[x] /\ rank[w] \in Int
      BY <1>2, <2>2 DEF w
    <3>2. ~(rank[w] < rank[x]) /\ ~(rank[x] < rank[w])
      BY <3>1
    <3>3. ~(s[i] < x) /\ ~(x < s[i])
      BY <1>3, <3>1, <3>2 DEF w
    <3>4. s[i] \in Int /\ x \in Int
      BY <2>2
    <3>5. QED
      BY <3>3, <3>4
  <2>4. QED
    BY <2>1, <2>3
<1>10. QED
  BY <1>1, <1>6, <1>7, <1>8, <1>9 DEF Ascends, Orders, s

-----------------------------------------------------------------------------
(* Tallies.                                                                *)

\* Entries of the index set I.
EntriesOn(e, I) ==
    IsFiniteSet(I) /\ DOMAIN e = I /\ \A i \in I : \A k \in 1..2 : e[i].value[k] \in Int

\* Each entry of e is the sum of its part of d, all of one stack.
Gathers(e, I, d, J, part) ==
    /\ part \in [J -> I] /\ \A i \in I : \E j \in J : part[j] = i
    /\ \A j \in J : d[j].stack = e[part[j]].stack
    /\ \A i \in I : e[i].value = SumPairs([j \in Fiber(part, J, i) |-> d[j].value])

\* Entries summed in parts add up to the same.
LEMMA TallyParts ==
    ASSUME NEW I, NEW e, EntriesOn(e, I), NEW J, NEW d, EntriesOn(d, J), NEW part,
           Gathers(e, I, d, J, part)
    PROVE  Tally(e) = Tally(d)
<1>1. /\ DOMAIN e = I /\ DOMAIN d = J /\ part \in [J -> I] /\ IsFiniteSet(I) /\ IsFiniteSet(J)
      /\ \A i \in I : \E j \in J : part[j] = i
      /\ \A j \in J : d[j].stack = e[part[j]].stack
  BY DEF EntriesOn, Gathers
<1>2. {e[i].stack : i \in DOMAIN e} = {d[j].stack : j \in DOMAIN d}
  BY <1>1
<1>3. ASSUME NEW st
      PROVE  SumPairs([i \in {x \in DOMAIN e : e[x].stack = st} |-> e[i].value])
               = SumPairs([j \in {y \in DOMAIN d : d[y].stack = st} |-> d[j].value])
  <2> DEFINE R == {x \in DOMAIN e : e[x].stack = st}
             S == {y \in DOMAIN d : d[y].stack = st}
             F(k) == [j \in S |-> d[j].value[k]]
             at == [j \in S |-> part[j]]
             G(k) == [i \in R |-> e[i].value[k]]
  <2>1. R \in SUBSET I /\ S \in SUBSET J /\ IsFiniteSet(R) /\ IsFiniteSet(S)
    BY <1>1, FS_Subset
  <2>2. at \in [S -> R]
    BY <1>1
  <2>3. ASSUME NEW k \in 1..2 PROVE SumFunction(G(k)) = SumFunction(F(k))
    <3>1. F(k) \in [S -> Int]
      BY <2>1 DEF EntriesOn
    <3>2. SumFunction(PartSums(F(k), at, S, R)) = SumFunction(F(k))
      <4> HIDE DEF F, at, S, R
      <4> QED
        BY <2>1, <2>2, <3>1, SumParts
    <3>3. ASSUME NEW i \in R
          PROVE  e[i].value[k] = SumFunction(Portion(F(k), Fiber(at, S, i)))
      <4>1. Fiber(part, J, i) = Fiber(at, S, i)
        BY <1>1, <2>1 DEF Fiber
      <4>2. e[i].value = SumPairs([j \in Fiber(part, J, i) |-> d[j].value])
        BY <2>1 DEF Gathers
      <4> DEFINE X == Fiber(part, J, i)
                 h == [j \in X |-> d[j].value]
      <4>3. SumPairs(h)[k] = SumFunction([j \in DOMAIN h |-> h[j][k]])
        <5> HIDE DEF h
        <5> QED
          BY DEF SumPairs
      <4>4. [j \in DOMAIN h |-> h[j][k]] = [j \in X |-> d[j].value[k]]
        <5> HIDE DEF X
        <5> QED
          OBVIOUS
      <4>5. Portion(F(k), X) = [j \in X |-> d[j].value[k]]
        <5>1. X \in SUBSET S
          BY <4>1 DEF Fiber
        <5> HIDE DEF X, S
        <5>2. QED
          BY <5>1 DEF Portion
      <4> HIDE DEF X, h, F
      <4>6. QED
        BY <4>1, <4>2, <4>3, <4>4, <4>5 DEF X, h
    <3>4. G(k) = PartSums(F(k), at, S, R)
      <4> HIDE DEF F, at, S, R
      <4> QED
        BY <3>3 DEF PartSums
    <3>5. QED
      BY <3>2, <3>4
  <2>4. SumPairs([i \in R |-> e[i].value]) = [k \in 1..2 |-> SumFunction(G(k))]
    <3>1. \A k \in 1..2 : [i \in DOMAIN [x \in R |-> e[x].value] |-> [x \in R |-> e[x].value][i][k]] = G(k)
      <4> HIDE DEF R
      <4> QED
        OBVIOUS
    <3>2. QED
      BY <3>1 DEF SumPairs
  <2>5. SumPairs([j \in S |-> d[j].value]) = [k \in 1..2 |-> SumFunction(F(k))]
    <3>1. \A k \in 1..2 : [j \in DOMAIN [x \in S |-> d[x].value] |-> [x \in S |-> d[x].value][j][k]] = F(k)
      <4> HIDE DEF S
      <4> QED
        OBVIOUS
    <3>2. QED
      BY <3>1 DEF SumPairs
  <2>6. QED
    <3> HIDE DEF F, G
    <3> QED
      BY <2>3, <2>4, <2>5
<1>4. QED
  <2> DEFINE E(st0) == SumPairs([i \in {x \in DOMAIN e : e[x].stack = st0} |-> e[i].value])
             D(st0) == SumPairs([j \in {y \in DOMAIN d : d[y].stack = st0} |-> d[j].value])
  <2>1. \A st0 : E(st0) = D(st0)
    BY <1>3
  <2>2. Tally(e) = [st0 \in {e[i].stack : i \in DOMAIN e} |-> E(st0)]
    BY DEF Tally
  <2>3. Tally(d) = [st0 \in {d[j].stack : j \in DOMAIN d} |-> D(st0)]
    BY DEF Tally
  <2> HIDE DEF E, D
  <2>4. QED
    BY <1>2, <2>1, <2>2, <2>3

\* Two numbers.
Pair == [1..2 -> Int]

KeysOf(item) == [j \in DOMAIN item.frames |-> item.frames[j].key]

\* Stacks with the same keys have the same names.
LEMMA KeysTellNames ==
    ASSUME NEW F, NEW L, NEW T, Coherent(F, L, T), NEW VV, NEW x \in ItemsOf(F, VV),
           NEW y \in ItemsOf(F, VV), KeysOf(x) = KeysOf(y)
    PROVE  StackNames(x.frames) = StackNames(y.frames)
<1> DEFINE f == x.frames
           g == y.frames
           kf == [j \in DOMAIN f |-> f[j].key]
           kg == [j \in DOMAIN g |-> g[j].key]
<1>1. f \in Seq(F) /\ g \in Seq(F)
  BY DEF ItemsOf
<1>2. kf = kg
  BY DEF KeysOf
<1> HIDE DEF f, g
<1>3. DOMAIN f = DOMAIN g
  <2>1. DOMAIN kf = DOMAIN kg
    BY <1>2
  <2>2. QED
    BY <2>1
<1>4. \A j \in DOMAIN f : f[j].key = g[j].key
  <2>1. \A j \in DOMAIN f : kf[j] = kg[j]
    BY <1>2
  <2>2. QED
    BY <1>3, <2>1
<1>5. \A j \in DOMAIN f : f[j] \in F /\ g[j] \in F
  BY <1>1, <1>3
<1>6. \A j \in DOMAIN f : FrameNames(f[j]) = FrameNames(g[j])
  BY <1>4, <1>5 DEF Coherent
<1>7. [j \in DOMAIN f |-> FrameNames(f[j])] = [j \in DOMAIN g |-> FrameNames(g[j])]
  BY <1>3, <1>6
<1>8. QED
  BY <1>7 DEF StackNames, f, g

\* e gathers the entries of d.
GathersAll(e, I, d, J) ==
    EntriesOn(e, I) /\ EntriesOn(d, J) /\ \E part : Gathers(e, I, d, J, part)

\* Each merged sample is the sum of its part of the items.
LEMMA MergeGathers ==
    ASSUME NEW F, NEW L, NEW T, Coherent(F, L, T), NEW I \in SUBSET Nat, IsFiniteSet(I),
           NEW items \in [I -> ItemsOf(F, Pair)]
    PROVE  /\ Merge(items) \in Seq(ItemsOf(F, Pair))
           /\ GathersAll(Credits(Merge(items)), 1..Len(Merge(items)), Credits(items), I)
<1> DEFINE KeysAt(i) == KeysOf(items[i])
           Same(i) == {j \in I : KeysAt(j) = KeysAt(i)}
           Sum(i) == SumPairs([j \in Same(i) |-> items[j].value])
           Firsts == {i \in I : \A j \in Same(i) : i <= j}
           first == InOrder(Firsts)
           m == Cardinality(Firsts)
           merged == [n \in 1..m |-> [frames |-> items[first[n]].frames, value |-> Sum(first[n])]]
<1>1. DOMAIN items = I /\ \A i \in I : items[i] \in ItemsOf(F, Pair)
  OBVIOUS
<1> HIDE DEF KeysAt, Same, Firsts, Sum
<1>2. /\ Firsts \in SUBSET I /\ Firsts \in SUBSET Int /\ IsFiniteSet(Firsts)
      /\ \A i \in I : Same(i) \in SUBSET I /\ IsFiniteSet(Same(i)) /\ i \in Same(i)
  <2>1. Firsts \in SUBSET I /\ \A i \in I : Same(i) \in SUBSET I /\ i \in Same(i)
    BY DEF Firsts, Same
  <2>2. Firsts \in SUBSET Int
    <3>1. \A i \in I : i \in Int
      OBVIOUS
    <3>2. QED
      BY <2>1, <3>1
  <2>3. IsFiniteSet(Firsts) /\ \A i \in I : IsFiniteSet(Same(i))
    BY <2>1, FS_Subset
  <2>4. QED
    BY <2>1, <2>2, <2>3
<1>3. /\ m \in Nat /\ first \in [1..m -> Firsts]
      /\ \A n, k \in 1..m : first[n] = first[k] => n = k
      /\ \A x \in Firsts : \E n \in 1..m : first[n] = x
  BY <1>2, InOrderIs DEF Ascends, Orders
<1> HIDE DEF first, m
<1>4. Merge(items) = merged
  <2>1. Merge(items) =
          [n \in DOMAIN first |-> [frames |-> items[first[n]].frames, value |-> Sum(first[n])]]
    BY <1>1 DEF Merge, first, Firsts, Same, Sum, KeysAt, KeysOf
  <2>2. QED
    BY <1>3, <2>1
<1>5. ASSUME NEW i \in I
      PROVE  /\ \A j \in Same(i) : items[j].value \in Pair
             /\ Sum(i) \in Pair
  <2>1. \A j \in Same(i) : items[j].value \in Pair
    BY <1>1, <1>2 DEF ItemsOf
  <2> DEFINE h == [j \in Same(i) |-> items[j].value]
             G(k) == [j \in Same(i) |-> h[j][k]]
  <2>2. h \in [Same(i) -> Pair] /\ DOMAIN h = Same(i)
    BY <2>1
  <2> HIDE DEF h
  <2>3. \A k \in 1..2 : G(k) \in [Same(i) -> Int]
    BY <2>2 DEF Pair
  <2>4. \A k \in 1..2 : SumFunction(G(k)) \in Int
    <3> HIDE DEF G
    <3> QED
      BY <1>2, <2>3, SumType
  <2>5. SumPairs(h) = [k \in 1..2 |-> SumFunction(G(k))]
    BY <2>2 DEF SumPairs
  <2> HIDE DEF G
  <2>6. SumPairs(h) \in Pair
    BY <2>4, <2>5 DEF Pair
  <2>7. QED
    BY <2>1, <2>6 DEF h, Sum
<1>6. merged \in [1..m -> ItemsOf(F, Pair)]
  <2>1. \A n \in 1..m : first[n] \in I
    BY <1>2, <1>3
  <2>2. QED
    BY <1>1, <1>5, <2>1 DEF ItemsOf
\* The part an item is in.
<1> DEFINE In(n, j) == KeysAt(first[n]) = KeysAt(j)
           part == [j \in I |-> CHOOSE n \in 1..m : In(n, j)]
<1>7. ASSUME NEW j \in I PROVE \E n \in 1..m : In(n, j)
  <2>1. Same(j) \subseteq Nat /\ Same(j) # {}
    BY <1>2
  <2>2. PICK x \in Same(j) : \A y \in Same(j) : x <= y
    BY <2>1, LeastNat
  <2>3. x \in I /\ KeysAt(x) = KeysAt(j)
    BY DEF Same
  <2>4. x \in Firsts
    BY <2>2, <2>3 DEF Firsts, Same
  <2>5. QED
    BY <1>3, <2>3, <2>4
<1>8. ASSUME NEW j \in I, NEW n \in 1..m, In(n, j), NEW k \in 1..m, In(k, j) PROVE n = k
  <2>1. first[n] \in Firsts /\ first[k] \in Firsts
    BY <1>3
  <2>2. first[n] \in I /\ first[k] \in I /\ KeysAt(first[n]) = KeysAt(first[k])
    BY <1>2, <1>8, <2>1
  <2>3. first[n] <= first[k] /\ first[k] <= first[n]
    BY <2>1, <2>2 DEF Firsts, Same
  <2>4. first[n] \in Nat /\ first[k] \in Nat
    BY <2>2
  <2>5. first[n] = first[k]
    BY <2>3, <2>4
  <2>6. QED
    BY <1>3, <2>5
<1>9. \A j \in I : part[j] \in 1..m /\ In(part[j], j)
  BY <1>7
<1>10. \A j \in I, n \in 1..m : part[j] = n <=> In(n, j)
  <2> HIDE DEF part, In
  <2> QED
    BY <1>8, <1>9
<1>11. \A n \in 1..m : Fiber(part, I, n) = Same(first[n]) /\ first[n] \in I
  <2> SUFFICES ASSUME NEW n \in 1..m
               PROVE  Fiber(part, I, n) = Same(first[n]) /\ first[n] \in I
    OBVIOUS
  <2>1. first[n] \in I
    BY <1>2, <1>3
  <2> HIDE DEF part
  <2>2. QED
    BY <1>10, <2>1 DEF Fiber, Same
<1>12. part \in [I -> 1..m]
  <2>1. part = [j \in I |-> part[j]]
    OBVIOUS
  <2> HIDE DEF part
  <2>2. QED
    BY <1>9, <2>1
<1> HIDE DEF part
<1> DEFINE d == Credits(items)
           e == Credits(merged)
<1>13. /\ DOMAIN d = I /\ DOMAIN e = 1..m
       /\ \A j \in I : d[j].stack = StackNames(items[j].frames) /\ d[j].value = items[j].value
       /\ \A n \in 1..m : e[n].stack = StackNames(items[first[n]].frames)
       /\ \A n \in 1..m : e[n].value = Sum(first[n])
  BY <1>1 DEF Credits
<1> HIDE DEF d, e, merged
<1>14. EntriesOn(d, I)
  <2>1. \A j \in I : d[j].value \in Pair
    BY <1>1, <1>13 DEF ItemsOf
  <2>2. QED
    BY <1>13, <2>1 DEF EntriesOn, Pair
<1>15. EntriesOn(e, 1..m)
  <2>1. \A n \in 1..m : e[n].value \in Pair
    BY <1>5, <1>11, <1>13
  <2>2. IsFiniteSet(1..m)
    BY <1>3, FS_Interval
  <2>3. QED
    BY <1>13, <2>1, <2>2 DEF EntriesOn, Pair
<1>16. Gathers(e, 1..m, d, I, part)
  <2>1. ASSUME NEW n \in 1..m PROVE \E j \in I : part[j] = n
    <3>1. first[n] \in Fiber(part, I, n)
      BY <1>2, <1>11
    <3>2. QED
      BY <1>11, <3>1 DEF Fiber
  <2>2. ASSUME NEW j \in I PROVE d[j].stack = e[part[j]].stack
    <3>1. part[j] \in 1..m /\ KeysOf(items[first[part[j]]]) = KeysOf(items[j])
      BY <1>9 DEF KeysAt
    <3>2. items[first[part[j]]] \in ItemsOf(F, Pair) /\ items[j] \in ItemsOf(F, Pair)
      BY <1>1, <1>11, <3>1
    <3>3. StackNames(items[first[part[j]]].frames) = StackNames(items[j].frames)
      BY <3>1, <3>2, KeysTellNames
    <3>4. QED
      BY <1>13, <3>1, <3>3
  <2>3. ASSUME NEW n \in 1..m
        PROVE  e[n].value = SumPairs([j \in Fiber(part, I, n) |-> d[j].value])
    <3>1. \A j \in Same(first[n]) : d[j].value = items[j].value
      BY <1>2, <1>11, <1>13
    <3>2. [j \in Same(first[n]) |-> d[j].value] = [j \in Same(first[n]) |-> items[j].value]
      BY <3>1
    <3>3. QED
      BY <1>11, <1>13, <3>2 DEF Sum
  <2>4. QED
    BY <1>12, <2>1, <2>2, <2>3 DEF Gathers
<1>17. merged \in Seq(ItemsOf(F, Pair)) /\ Len(merged) = m
  BY <1>3, <1>6
<1>18. GathersAll(e, 1..m, d, I)
  BY <1>14, <1>15, <1>16 DEF GathersAll
<1>19. QED
  BY <1>4, <1>17, <1>18 DEF d, e

\* Merged, the stacks have the sums they had.
THEOREM MergeKeeps ==
    ASSUME NEW F, NEW L, NEW T, Coherent(F, L, T), NEW I \in SUBSET Nat, IsFiniteSet(I),
           NEW items \in [I -> ItemsOf(F, Pair)]
    PROVE  /\ Merge(items) \in Seq(ItemsOf(F, Pair))
           /\ Tally(Credits(Merge(items))) = Tally(Credits(items))
BY MergeGathers, TallyParts DEF GathersAll

\* What is seen of a profile of merged samples.
LEMMA MergedReads ==
    ASSUME NEW F, NEW L, NEW T, Coherent(F, L, T), NEW I \in SUBSET Nat, IsFiniteSet(I),
           NEW items \in [I -> ItemsOf(F, Pair)], NEW types, NEW mappings
    PROVE  ByStack(Profile(types, mappings, Merge(items))) = Tally(Credits(items))
<1>1. /\ Merge(items) \in Seq(ItemsOf(F, Pair))
      /\ Tally(Credits(Merge(items))) = Tally(Credits(items))
  BY MergeKeeps
<1>2. ByStack(Profile(types, mappings, Merge(items))) = Tally(Credits(Merge(items)))
  BY <1>1, ProfileReads
<1>3. QED
  BY <1>1, <1>2

-----------------------------------------------------------------------------
(* Stacks of frames with one line each.                                    *)

\* The names of a stack are those of its frames' only lines.
LEMMA SingleNames ==
    ASSUME NEW F, \A f \in F : Len(f.lines) = 1 /\ f.lines \in Seq(Range(f.lines)),
           NEW frames \in Seq(F)
    PROVE  StackNames(frames) = [j \in DOMAIN frames |-> frames[j].lines[1].fn.name]
<1> DEFINE n == Len(frames)
           names == [j \in DOMAIN frames |-> frames[j].lines[1].fn.name]
           T == Range(names)
<1>1. n \in Nat /\ DOMAIN frames = 1..n /\ \A j \in 1..n : frames[j] \in F
  OBVIOUS
<1>2. \A f \in F : FrameNames(f) = <<f.lines[1].fn.name>>
  <2> SUFFICES ASSUME NEW f \in F PROVE FrameNames(f) = <<f.lines[1].fn.name>>
    OBVIOUS
  <2>1. DOMAIN f.lines = 1..1
    OBVIOUS
  <2>2. FrameNames(f) = [j \in 1..1 |-> f.lines[j].fn.name]
    BY <2>1 DEF FrameNames
  <2>3. [j \in 1..1 |-> f.lines[j].fn.name] = <<f.lines[1].fn.name>>
    <3> DEFINE x == f.lines[1].fn.name
    <3>1. \A j \in 1..1 : f.lines[j].fn.name = x
      OBVIOUS
    <3>2. [j \in 1..1 |-> f.lines[j].fn.name] = [j \in 1..1 |-> x]
      BY <3>1, Zenon
    <3> HIDE DEF x
    <3>3. [j \in 1..1 |-> x] = <<x>>
      OBVIOUS
    <3>4. QED
      BY <3>2, <3>3 DEF x
  <2>4. QED
    BY <2>2, <2>3
<1>3. DOMAIN names = 1..n /\ \A j \in 1..n : names[j] \in T
  BY <1>1 DEF Range
<1> HIDE DEF T
<1>4. names \in Seq(T)
  <2>1. names \in [1..n -> T]
    BY <1>1, <1>3
  <2> HIDE DEF names, n
  <2>2. QED
    BY <1>1, <2>1
<1>5. [j \in DOMAIN frames |-> FrameNames(frames[j])] = [j \in DOMAIN names |-> <<names[j]>>]
  BY <1>1, <1>2, <1>3
<1> HIDE DEF names
<1>6. FlattenSeq([j \in DOMAIN names |-> <<names[j]>>]) = names
  BY <1>4, FlattenSingles
<1>7. QED
  BY <1>5, <1>6 DEF StackNames, names

-----------------------------------------------------------------------------
(* V8's CPU profile.                                                       *)

\* Of a sequence of nodes, each but the first under one before it.
Tree(nodes) == \A i \in 1..Len(nodes) : nodes[i].parent \in 0..(i - 1)

\* A tree has one head.
Rooted(nodes) == \A i \in 2..Len(nodes) : nodes[i].parent # 0

\* A numbered tree has the nodes, their parents and their children.
LEMMA NumberedIs ==
    ASSUME NEW N, NEW nodes \in Seq(N), Tree(nodes)
    PROVE  LET all == Numbered(nodes) IN
           /\ all \in Seq(Range(all)) /\ Len(all) = Len(nodes)
           /\ \A i \in 1..Len(nodes) :
                /\ all[i].id = i /\ all[i].fn = nodes[i].fn /\ all[i].parent = nodes[i].parent
                /\ Range(all[i].children) = {c \in 1..Len(nodes) : nodes[c].parent = i}
<1> DEFINE n == Len(nodes)
           all == Numbered(nodes)
           kids(i) == {c \in DOMAIN nodes : nodes[c].parent = i}
<1>1. n \in Nat /\ DOMAIN nodes = 1..n
  OBVIOUS
<1>2. DOMAIN all = 1..n
  BY <1>1 DEF Numbered
<1>3. all \in Seq(Range(all)) /\ Len(all) = n
  <2>1. all = [i \in 1..n |-> all[i]]
    BY <1>1 DEF Numbered
  <2> HIDE DEF all
  <2>2. \A i \in 1..n : all[i] \in Range(all)
    BY <1>2 DEF Range
  <2>3. all \in [1..n -> Range(all)]
    BY <2>1, <2>2
  <2>4. QED
    BY <1>1, <2>3
<1>4. ASSUME NEW i \in 1..n PROVE Range(InOrder(kids(i))) = kids(i)
  <2>1. kids(i) \in SUBSET Int /\ IsFiniteSet(kids(i))
    <3>1. kids(i) \in SUBSET (1..n) /\ IsFiniteSet(1..n)
      BY <1>1, FS_Interval
    <3>2. QED
      BY <3>1, FS_Subset
  <2> HIDE DEF kids
  <2>2. Ascends(InOrder(kids(i)), Cardinality(kids(i)), kids(i))
    BY <2>1, InOrderIs
  <2>3. QED
    BY <2>2 DEF Ascends, Orders, Range
<1>5. ASSUME NEW i \in 1..n
      PROVE  all[i].id = i /\ all[i].fn = nodes[i].fn /\ all[i].parent = nodes[i].parent
             /\ all[i].children = InOrder(kids(i))
  BY <1>1 DEF Numbered
<1> HIDE DEF all
<1>6. QED
  BY <1>1, <1>3, <1>4, <1>5 DEF all

\* The greatest of one number.
LEMMA MaxOne == ASSUME NEW k \in Nat PROVE Max({k}) = k
BY DEF Max

\* The maps of Parents and of ids, for nodes that are numbered.
LEMMA ParentIs ==
    ASSUME NEW N, NEW nodes \in Seq(N), Tree(nodes), NEW profile, profile.nodes = Numbered(nodes),
           NEW i \in 1..Len(nodes)
    PROVE  /\ Parent(profile, i) = nodes[i].parent
           /\ NodeOf(profile, i) = i
<1> DEFINE n == Len(nodes)
           all == Numbered(nodes)
           p == nodes[i].parent
<1>1. /\ n \in Nat /\ Len(all) = n
      /\ \A k \in 1..n : /\ all[k].id = k
                         /\ Range(all[k].children) = {c \in 1..n : nodes[c].parent = k}
  BY NumberedIs
<1>2. p \in 0..(i - 1) /\ i \in 1..n
  BY DEF Tree
<1> HIDE DEF all, p, n
<1>3. {k \in 1..n : i \in Range(all[k].children)} = {k \in 1..n : k = p}
  BY <1>1, <1>2 DEF p
<1>4. {k \in 1..n : all[k].id = i} = {i}
  BY <1>1, <1>2
<1>5. NodeOf(profile, i) = i
  <2>1. NodeOf(profile, i) =
          IF {k \in 1..n : all[k].id = i} # {} THEN Max({k \in 1..n : all[k].id = i}) ELSE 0
    BY <1>1 DEF NodeOf, SelectLastInSeq, all
  <2>2. Max({i}) = i
    BY <1>1, <1>2, MaxOne
  <2>3. QED
    BY <1>4, <2>1, <2>2
<1> DEFINE of == SelectLastInSeq(all, LAMBDA m : i \in Range(m.children))
<1>6. of = p
  <2> DEFINE I == {k \in 1..n : i \in Range(all[k].children)}
  <2>1. of = IF I # {} THEN Max(I) ELSE 0
    BY <1>1 DEF SelectLastInSeq
  <2> HIDE DEF of
  <2>2. I = {k \in 1..n : k = p}
    BY <1>3
  <2> HIDE DEF I
  <2>3. CASE p = 0
    <3>1. I = {}
      BY <1>1, <2>2, <2>3
    <3>2. QED
      BY <2>1, <2>3, <3>1
  <2>4. CASE p # 0
    <3>1. p \in 1..n /\ p \in Nat
      BY <1>1, <1>2, <2>4
    <3>2. I = {p} /\ Max({p}) = p
      BY <2>2, <3>1, MaxOne
    <3>3. QED
      BY <2>1, <3>2
  <2>5. QED
    BY <2>3, <2>4
<1>7. Parent(profile, i) = IF of = 0 THEN 0 ELSE all[of].id
  BY DEF Parent, all
<1> HIDE DEF of
<1>8. Parent(profile, i) = p
  <2>1. p = 0 \/ p \in 1..n
    BY <1>1, <1>2
  <2>2. QED
    BY <1>1, <1>6, <1>7, <2>1
<1>9. QED
  BY <1>5, <1>8 DEF p

\* A recursion over depth and node: what each node has is its own before what
\* its parent has at the depth before.
Upward(f, n, own, up) ==
    f = [d \in 0..n |-> [i \in 0..n |->
            IF d = 0 \/ i = 0 THEN <<>> ELSE <<own[i]>> \o f[d - 1][up[i]]]]

\* There is such a recursion.
LEMMA UpwardExists ==
    ASSUME NEW n \in Nat, NEW O, NEW own \in [1..n -> O], NEW up \in [1..n -> 0..n]
    PROVE  \E f \in [0..n -> [0..n -> Seq(O)]] : Upward(f, n, own, up)
<1> DEFINE V == [0..n -> Seq(O)]
           base == [i \in 0..n |-> <<>>]
           Step(v) == [i \in 0..n |-> IF i = 0 THEN <<>> ELSE <<own[i]>> \o v[up[i]]]
           step == [p \in (1..n) \X V |-> Step(p[2])]
<1>1. base \in V
  OBVIOUS
<1>2. ASSUME NEW v \in V PROVE Step(v) \in V
  <2>1. ASSUME NEW i \in 0..n
        PROVE  (IF i = 0 THEN <<>> ELSE <<own[i]>> \o v[up[i]]) \in Seq(O)
    <3>1. CASE i = 0
      BY <3>1
    <3>2. CASE i # 0
      <4>1. i \in 1..n /\ own[i] \in O /\ v[up[i]] \in Seq(O)
        BY <3>2
      <4>2. QED
        BY <3>2, <4>1
    <3>3. QED
      BY <3>1, <3>2
  <2>2. QED
    BY <2>1
<1>3. step \in [(1..n) \X V -> V] /\ \A k \in 1..n, v \in V : step[<<k, v>>] = Step(v)
  <2> HIDE DEF V, Step
  <2> QED
    BY <1>2
<1> HIDE DEF V, base, step
<1>4. PICK f \in [0..n -> V] : Recurs(f, base, step, n)
  BY <1>1, <1>3, RecursionExists
<1>5. ASSUME NEW d \in 0..n
      PROVE  f[d] = [i \in 0..n |-> IF d = 0 \/ i = 0 THEN <<>> ELSE <<own[i]>> \o f[d - 1][up[i]]]
  <2>1. CASE d = 0
    BY <1>4, <2>1 DEF Recurs, base
  <2>2. CASE d # 0
    <3>1. d \in 1..n /\ f[d - 1] \in V
      BY <2>2
    <3>2. f[d] = Step(f[d - 1])
      BY <1>3, <1>4, <3>1 DEF Recurs
    <3>3. QED
      BY <2>2, <3>2
  <2>3. QED
    BY <2>1, <2>2
<1>6. f = [d \in 0..n |-> f[d]]
  OBVIOUS
<1>7. Upward(f, n, own, up)
  BY <1>5, <1>6 DEF Upward
<1>8. QED
  BY <1>7 DEF V

\* f has sequences of O that are g's where each is read.
ReadsAs(f, g, n, O, read) ==
    \A d, i \in 0..n : /\ f[d][i] \in Seq(O)
                       /\ [j \in DOMAIN f[d][i] |-> read[f[d][i][j]]] = g[d][i]

Reading(read, own, seen, n) == \A i \in 1..n : read[own[i]] = seen[i]

\* When what the nodes have reads as what others have, so do the ways up.
LEMMA UpwardAt ==
    ASSUME NEW n \in Nat, NEW O, NEW own \in [1..n -> O], NEW up \in [1..n -> 0..n],
           NEW f, Upward(f, n, own, up), NEW P, NEW seen \in [1..n -> P],
           NEW g, Upward(g, n, seen, up), NEW read, Reading(read, own, seen, n)
    PROVE  ReadsAs(f, g, n, O, read)
<1> DEFINE Good(d) == \A i \in 0..n :
               /\ f[d][i] \in Seq(O)
               /\ [j \in DOMAIN f[d][i] |-> read[f[d][i][j]]] = g[d][i]
           S == {d \in Nat : d <= n => Good(d)}
<1>1. /\ \A d, i \in 0..n : f[d][i] = IF d = 0 \/ i = 0 THEN <<>> ELSE <<own[i]>> \o f[d - 1][up[i]]
      /\ \A d, i \in 0..n : g[d][i] = IF d = 0 \/ i = 0 THEN <<>> ELSE <<seen[i]>> \o g[d - 1][up[i]]
  <2> DEFINE A(d, i) == IF d = 0 \/ i = 0 THEN <<>> ELSE <<own[i]>> \o f[d - 1][up[i]]
             B(d, i) == IF d = 0 \/ i = 0 THEN <<>> ELSE <<seen[i]>> \o g[d - 1][up[i]]
  <2>1. f = [d \in 0..n |-> [i \in 0..n |-> A(d, i)]] /\ g = [d \in 0..n |-> [i \in 0..n |-> B(d, i)]]
    BY DEF Upward
  <2> HIDE DEF A, B
  <2>2. \A d, i \in 0..n : f[d][i] = A(d, i)
    BY <2>1
  <2>3. \A d, i \in 0..n : g[d][i] = B(d, i)
    BY <2>1
  <2>4. QED
    BY <2>2, <2>3 DEF A, B
<1>2. /\ <<>> \in Seq(O) /\ [j \in DOMAIN <<>> |-> read[<<>>[j]]] = <<>>
  OBVIOUS
<1>3. 0 \in S
  <2> SUFFICES ASSUME NEW i \in 0..n
               PROVE  /\ f[0][i] \in Seq(O)
                      /\ [j \in DOMAIN f[0][i] |-> read[f[0][i][j]]] = g[0][i]
    OBVIOUS
  <2>1. 0 \in 0..n
    OBVIOUS
  <2>2. f[0][i] = <<>> /\ g[0][i] = <<>>
    BY <1>1, <2>1
  <2>3. QED
    BY <1>2, <2>2
<1>4. ASSUME NEW k \in Nat, k \in S PROVE k + 1 \in S
  <2> SUFFICES ASSUME k + 1 <= n, NEW i \in 0..n
               PROVE  /\ f[k + 1][i] \in Seq(O)
                      /\ [j \in DOMAIN f[k + 1][i] |-> read[f[k + 1][i][j]]] = g[k + 1][i]
    OBVIOUS
  <2>1. k \in 0..n /\ k + 1 \in 0..n /\ k + 1 # 0 /\ (k + 1) - 1 = k /\ Good(k)
    BY <1>4
  <2>2. CASE i = 0
    <3>1. f[k + 1][i] = <<>> /\ g[k + 1][i] = <<>>
      BY <1>1, <2>1, <2>2
    <3>2. QED
      BY <1>2, <3>1, Zenon
  <2>3. CASE i # 0
    <3> DEFINE s == f[k][up[i]]
               t == g[k][up[i]]
               u == <<own[i]>> \o s
               v == <<seen[i]>> \o t
    <3>1. i \in 1..n /\ own[i] \in O /\ up[i] \in 0..n
      BY <2>3
    <3>2. f[k + 1][i] = u /\ g[k + 1][i] = v
      <4>1. f[k + 1][i] = <<own[i]>> \o f[(k + 1) - 1][up[i]]
        BY <1>1, <2>1, <2>3
      <4>2. g[k + 1][i] = <<seen[i]>> \o g[(k + 1) - 1][up[i]]
        BY <1>1, <2>1, <2>3
      <4>3. QED
        BY <2>1, <4>1, <4>2
    <3>3. s \in Seq(O) /\ [j \in DOMAIN s |-> read[s[j]]] = t
      BY <2>1, <3>1
    <3>4. read[own[i]] = seen[i]
      BY <3>1 DEF Reading
    <3> DEFINE x == own[i]
               y == seen[i]
    <3> HIDE DEF s, t, x, y
    <3>5. t \in Seq(Range(t)) /\ Len(t) = Len(s) /\ \A j \in 1..Len(s) : t[j] = read[s[j]]
      <4>1. DOMAIN t = 1..Len(s) /\ Len(s) \in Nat /\ \A j \in 1..Len(s) : t[j] = read[s[j]]
        BY <3>3
      <4>2. t \in [1..Len(s) -> Range(t)]
        <5>1. t = [j \in 1..Len(s) |-> t[j]]
          BY <3>3, <4>1
        <5>2. QED
          BY <4>1, <5>1 DEF Range
      <4>3. t \in Seq(Range(t)) /\ Len(t) = Len(s)
        <5> DEFINE m == Len(s)
                   R == Range(t)
        <5>1. m \in Nat /\ t \in [1..m -> R]
          BY <4>1, <4>2
        <5> HIDE DEF m, R
        <5>2. t \in Seq(R) /\ Len(t) = m
          BY <5>1
        <5>3. QED
          BY <5>2 DEF m, R
      <4>4. QED
        BY <4>1, <4>3
    <3>6. <<x>> \o s \in Seq(O) /\ Len(<<x>> \o s) = Len(s) + 1
          /\ (<<x>> \o s)[1] = x /\ \A j \in 1..Len(s) : (<<x>> \o s)[j + 1] = s[j]
      BY <3>1, <3>3 DEF x
    <3> DEFINE Q == Range(t) \cup {y}
    <3>7. t \in Seq(Q) /\ y \in Q
      BY <3>5
    <3> HIDE DEF Q
    <3>8. <<y>> \o t \in Seq(Q) /\ Len(<<y>> \o t) = Len(t) + 1
          /\ (<<y>> \o t)[1] = y /\ \A j \in 1..Len(t) : (<<y>> \o t)[j + 1] = t[j]
      BY <3>7
    <3>9. [j \in DOMAIN (<<x>> \o s) |-> read[(<<x>> \o s)[j]]] = <<y>> \o t
      <4> DEFINE a == <<x>> \o s
                 b == <<y>> \o t
      <4>1. DOMAIN a = 1..(Len(s) + 1) /\ DOMAIN b = 1..(Len(s) + 1) /\ Len(s) \in Nat
        BY <3>3, <3>5, <3>6, <3>8
      <4>2. a[1] = x /\ b[1] = y /\ \A j \in 1..Len(s) : a[j + 1] = s[j] /\ b[j + 1] = t[j]
        BY <3>5, <3>6, <3>8
      <4>3. b = [j \in 1..(Len(s) + 1) |-> b[j]]
        BY <3>8, <4>1
      <4> HIDE DEF a, b
      <4>4. ASSUME NEW j \in 1..(Len(s) + 1) PROVE read[a[j]] = b[j]
        <5>1. CASE j = 1
          BY <3>4, <4>2, <5>1 DEF x, y
        <5>2. CASE j # 1
          <6>1. j - 1 \in 1..Len(s) /\ (j - 1) + 1 = j
            BY <4>1, <5>2
          <6>2. a[j] = s[j - 1] /\ b[j] = t[j - 1]
            BY <4>2, <6>1
          <6>3. QED
            BY <3>5, <6>1, <6>2
        <5>3. QED
          BY <5>1, <5>2
      <4>5. QED
        BY <4>1, <4>3, <4>4 DEF a, b
    <3>10. QED
      BY <3>2, <3>6, <3>9 DEF s, t, x, y, Zenon
  <2>4. QED
    BY <2>2, <2>3
<1>5. \A d \in Nat : d \in S
  <2> HIDE DEF S
  <2> QED
    BY <1>3, <1>4, Induction
<1>6. QED
  BY <1>5 DEF ReadsAs

Raw(fn) == IF fn.name = <<>> THEN <<"(anonymous)">> ELSE fn.name

\* The frames of V8's nodes.
CpuFrames(all) == {CpuFrame(all[i]) : i \in 1..Len(all)}
CpuLines(all) == {CpuFrame(all[i]).lines[1] : i \in 1..Len(all)}
CpuFns(all) == {CpuFrame(all[i]).lines[1].fn : i \in 1..Len(all)}

\* The frame of a V8 node: its id for a key, and one line of its function's name.
LEMMA CpuFrameIs ==
    ASSUME NEW node
    PROVE  LET f == CpuFrame(node) IN
           /\ f.key = node.id /\ Len(f.lines) = 1 /\ f.lines = <<f.lines[1]>>
           /\ f.lines[1].fn.key[1] = Raw(node.fn)
           /\ f.lines[1].fn.name = Demangle(Raw(node.fn))
BY DEF CpuFrame, Raw

\* The frames of numbered nodes are told apart by their keys.
LEMMA CpuCoherent ==
    ASSUME NEW all, Len(all) \in Nat, \A i \in 1..Len(all) : all[i].id = i
    PROVE  /\ Coherent(CpuFrames(all), CpuLines(all), CpuFns(all))
           /\ \A f \in CpuFrames(all) : Len(f.lines) = 1 /\ f.lines \in Seq(Range(f.lines))
<1> DEFINE F == CpuFrames(all)
<1>1. ASSUME NEW f \in F
      PROVE  /\ Len(f.lines) = 1 /\ f.lines = <<f.lines[1]>> /\ f.lines \in Seq(CpuLines(all))
             /\ f.lines \in Seq(Range(f.lines))
  <2>1. PICK i \in 1..Len(all) : f = CpuFrame(all[i])
    BY DEF CpuFrames
  <2>2. Len(f.lines) = 1 /\ f.lines = <<f.lines[1]>>
    BY <2>1, CpuFrameIs
  <2>3. f.lines[1] \in CpuLines(all)
    BY <2>1 DEF CpuLines
  <2> DEFINE l == f.lines[1]
  <2> HIDE DEF l
  <2>4. <<l>> \in Seq(CpuLines(all)) /\ <<l>> \in Seq(Range(<<l>>))
    BY <2>3 DEF l, Range
  <2>5. QED
    BY <2>2, <2>4 DEF l
<1>2. \A l \in CpuLines(all) : l.fn \in CpuFns(all)
  BY DEF CpuLines, CpuFns
<1>3. ASSUME NEW d \in CpuFns(all), NEW e \in CpuFns(all), d.key = e.key PROVE d.name = e.name
  <2>1. PICK i \in 1..Len(all) : d = CpuFrame(all[i]).lines[1].fn
    BY DEF CpuFns
  <2>2. PICK k \in 1..Len(all) : e = CpuFrame(all[k]).lines[1].fn
    BY DEF CpuFns
  <2>3. d.key[1] = Raw(all[i].fn) /\ d.name = Demangle(Raw(all[i].fn))
    BY <2>1, CpuFrameIs
  <2>4. e.key[1] = Raw(all[k].fn) /\ e.name = Demangle(Raw(all[k].fn))
    BY <2>2, CpuFrameIs
  <2>5. QED
    BY <1>3, <2>3, <2>4
<1>4. ASSUME NEW f \in F, NEW g \in F, f.key = g.key PROVE FrameNames(f) = FrameNames(g)
  <2>1. PICK i \in 1..Len(all) : f = CpuFrame(all[i])
    BY DEF CpuFrames
  <2>2. PICK k \in 1..Len(all) : g = CpuFrame(all[k])
    BY DEF CpuFrames
  <2>3. f.key = all[i].id /\ g.key = all[k].id
    BY <2>1, <2>2, CpuFrameIs
  <2>4. i = k
    BY <1>4, <2>3
  <2>5. QED
    BY <2>1, <2>2, <2>4
<1>5. QED
  BY <1>1, <1>2, <1>3, <1>4, Zenon DEF Coherent

\* A stack of frames with these names.
SeenAs(stack, F, names) ==
    stack \in Seq(F) /\ [j \in DOMAIN stack |-> stack[j].lines[1].fn.name] = names

\* The stack of a leaf reads as the path to it.
LEMMA StackForNodeIs ==
    ASSUME NEW N, NEW nodes \in Seq(N), Tree(nodes), NEW profile, profile.nodes = Numbered(nodes),
           NEW leaf \in 1..Len(nodes)
    PROVE  SeenAs(StackForNode(profile, leaf), CpuFrames(Numbered(nodes)), NodePath(nodes, leaf))
<1> DEFINE n == Len(nodes)
           all == profile.nodes
           F == CpuFrames(all)
           own == [i \in 1..n |-> CpuFrame(all[i])]
           up == [i \in 1..n |-> nodes[i].parent]
           seen == [i \in 1..n |-> Demangle(Raw(nodes[i].fn))]
           P == Range(seen)
           read == [f \in F |-> f.lines[1].fn.name]
<1>1. /\ n \in Nat /\ Len(all) = n /\ all \in Seq(Range(all)) /\ DOMAIN all = 1..n
      /\ \A i \in 1..n : all[i].id = i /\ all[i].fn = nodes[i].fn
  BY NumberedIs
<1> DEFINE Ids == {all[i].id : i \in DOMAIN all}
<1> HIDE DEF all
<1>2. own \in [1..n -> F] /\ up \in [1..n -> 0..n] /\ seen \in [1..n -> P]
  <2>1. \A i \in 1..n : CpuFrame(all[i]) \in F
    BY <1>1 DEF CpuFrames
  <2>2. \A i \in 1..n : nodes[i].parent \in 0..n
    BY DEF Tree
  <2>3. \A i \in 1..n : seen[i] \in P
    BY DEF Range
  <2>4. QED
    BY <2>1, <2>2, <2>3
<1>3. Reading(read, own, seen, n)
  <2> SUFFICES ASSUME NEW i \in 1..n PROVE read[own[i]] = seen[i]
    BY DEF Reading
  <2>1. own[i] \in F /\ own[i] = CpuFrame(all[i])
    BY <1>2
  <2>2. CpuFrame(all[i]).lines[1].fn.name = Demangle(Raw(all[i].fn))
    BY CpuFrameIs
  <2>3. QED
    BY <1>1, <2>1, <2>2
<1>4. Ids = 1..n
  BY <1>1
<1> DEFINE Stacks(f) == f = [d \in 0..Len(all) |-> [i \in Ids \cup {0} |->
               IF d = 0 \/ i = 0 THEN <<>>
               ELSE <<CpuFrame(all[NodeOf(profile, i)])>> \o f[d - 1][Parent(profile, i)]]]
           Paths(f) == f = [d \in 0..n |-> [i \in 0..n |->
               IF d = 0 \/ i = 0 THEN <<>>
               ELSE <<Demangle(Raw(nodes[i].fn))>> \o f[d - 1][nodes[i].parent]]]
           stack == CHOOSE f : Stacks(f)
           path == CHOOSE f : Paths(f)
<1>5. StackForNode(profile, leaf) = stack[n][leaf]
  <2>1. StackForNode(profile, leaf) = IF leaf \in Ids THEN stack[Len(all)][leaf] ELSE <<>>
    BY DEF StackForNode, all
  <2> HIDE DEF stack, Ids
  <2>2. QED
    BY <1>1, <1>4, <2>1
<1> HIDE DEF Ids
<1>6. NodePath(nodes, leaf) = path[n][leaf]
  BY DEF NodePath, Raw
<1>7. ASSUME NEW f PROVE Stacks(f) <=> Upward(f, n, own, up)
  <2>1. Ids \cup {0} = 0..n /\ Len(all) = n
    BY <1>1, <1>4
  <2>2. \A i \in 1..n : NodeOf(profile, i) = i /\ Parent(profile, i) = nodes[i].parent
    BY ParentIs
  <2>3. \A d, i \in 0..n :
          (IF d = 0 \/ i = 0 THEN <<>>
           ELSE <<CpuFrame(all[NodeOf(profile, i)])>> \o f[d - 1][Parent(profile, i)])
            = (IF d = 0 \/ i = 0 THEN <<>> ELSE <<own[i]>> \o f[d - 1][up[i]])
    <3> SUFFICES ASSUME NEW d \in 0..n, NEW i \in 0..n
                 PROVE  (IF d = 0 \/ i = 0 THEN <<>>
                         ELSE <<CpuFrame(all[NodeOf(profile, i)])>> \o f[d - 1][Parent(profile, i)])
                          = (IF d = 0 \/ i = 0 THEN <<>> ELSE <<own[i]>> \o f[d - 1][up[i]])
      OBVIOUS
    <3>1. CASE i = 0
      BY <3>1
    <3>2. CASE i # 0
      <4>1. i \in 1..n
        BY <3>2
      <4>2. NodeOf(profile, i) = i /\ Parent(profile, i) = up[i] /\ own[i] = CpuFrame(all[i])
        BY <2>2, <4>1
      <4> HIDE DEF own, up
      <4>3. QED
        BY <4>2
    <3>3. QED
      BY <3>1, <3>2
  <2> DEFINE A(d, i) == IF d = 0 \/ i = 0 THEN <<>>
                        ELSE <<CpuFrame(all[NodeOf(profile, i)])>> \o f[d - 1][Parent(profile, i)]
             B(d, i) == IF d = 0 \/ i = 0 THEN <<>> ELSE <<own[i]>> \o f[d - 1][up[i]]
  <2>4. Stacks(f) <=> f = [d \in 0..n |-> [i \in 0..n |-> A(d, i)]]
    BY <2>1
  <2>5. Upward(f, n, own, up) <=> f = [d \in 0..n |-> [i \in 0..n |-> B(d, i)]]
    BY DEF Upward
  <2>6. \A d, i \in 0..n : A(d, i) = B(d, i)
    BY <2>3
  <2> HIDE DEF A, B, Stacks
  <2>7. [d \in 0..n |-> [i \in 0..n |-> A(d, i)]] = [d \in 0..n |-> [i \in 0..n |-> B(d, i)]]
    BY <2>6
  <2>8. QED
    BY <2>4, <2>5, <2>7
<1>8. ASSUME NEW f PROVE Paths(f) <=> Upward(f, n, seen, up)
  <2> DEFINE A(d, i) == IF d = 0 \/ i = 0 THEN <<>>
                        ELSE <<Demangle(Raw(nodes[i].fn))>> \o f[d - 1][nodes[i].parent]
             B(d, i) == IF d = 0 \/ i = 0 THEN <<>> ELSE <<seen[i]>> \o f[d - 1][up[i]]
  <2>1. Paths(f) <=> f = [d \in 0..n |-> [i \in 0..n |-> A(d, i)]]
    OBVIOUS
  <2>2. Upward(f, n, seen, up) <=> f = [d \in 0..n |-> [i \in 0..n |-> B(d, i)]]
    BY DEF Upward
  <2>3. ASSUME NEW d \in 0..n, NEW i \in 0..n PROVE A(d, i) = B(d, i)
    <3>1. CASE i = 0
      BY <3>1
    <3>2. CASE i # 0
      <4>1. i \in 1..n
        BY <3>2
      <4>2. seen[i] = Demangle(Raw(nodes[i].fn)) /\ up[i] = nodes[i].parent
        BY <4>1
      <4> HIDE DEF seen, up
      <4>3. QED
        BY <4>2
    <3>3. QED
      BY <3>1, <3>2
  <2> HIDE DEF A, B, Paths
  <2>4. [d \in 0..n |-> [i \in 0..n |-> A(d, i)]] = [d \in 0..n |-> [i \in 0..n |-> B(d, i)]]
    BY <2>3
  <2>5. QED
    BY <2>1, <2>2, <2>4
<1> HIDE DEF own, up, seen, P, F, n, Stacks, Paths, read
<1>9. Upward(stack, n, own, up)
  <2>1. \E f : Upward(f, n, own, up)
    BY <1>1, <1>2, UpwardExists
  <2>2. QED
    BY <1>7, <2>1
<1>10. Upward(path, n, seen, up)
  <2>1. \E f : Upward(f, n, seen, up)
    BY <1>1, <1>2, UpwardExists
  <2>2. QED
    BY <1>8, <2>1
<1> HIDE DEF stack, path
<1>11. /\ stack[n][leaf] \in Seq(F)
       /\ [j \in DOMAIN stack[n][leaf] |-> read[stack[n][leaf][j]]] = path[n][leaf]
  <2>1. n \in 0..n /\ leaf \in 0..n
    BY <1>1 DEF n
  <2>2. ReadsAs(stack, path, n, F, read)
    BY <1>1, <1>2, <1>3, <1>9, <1>10, UpwardAt
  <2>3. QED
    BY <2>1, <2>2 DEF ReadsAs
<1> DEFINE s == stack[n][leaf]
<1> HIDE DEF s
<1>12. s \in Seq(F) /\ [j \in DOMAIN s |-> read[s[j]]] = path[n][leaf]
  BY <1>11 DEF s
<1>13. [j \in DOMAIN s |-> read[s[j]]] = [j \in DOMAIN s |-> s[j].lines[1].fn.name]
  <2>1. \A j \in DOMAIN s : s[j] \in F
    BY <1>12
  <2>2. QED
    BY <2>1 DEF read
<1>14. QED
  BY <1>5, <1>6, <1>12, <1>13 DEF s, F, all, SeenAs

\* Two integers are the value of a sample.
LEMMA PairIs == ASSUME NEW a \in Int, NEW b \in Int PROVE <<a, b>> \in Pair
BY DEF Pair

\* A stack without frames has no names.
LEMMA NoNames == StackNames(<<>>) = <<>>
<1>1. [j \in DOMAIN <<>> |-> FrameNames(<<>>[j])] = <<>>
  OBVIOUS
<1>2. QED
  BY <1>1, FlattenEmpty DEF StackNames

\* What is seen of a converted CPU profile.
LEMMA CpuConverts ==
    ASSUME NEW N, NEW nodes \in Seq(N), Tree(nodes), NEW M, NEW samples \in Seq(M),
           NEW deltas \in Seq(Int), NEW profile, profile.nodes = Numbered(nodes),
           profile.samples = samples, profile.deltas = deltas
    PROVE  ByStack(BuildCpu(profile)) =
             Tally([i \in DOMAIN samples |->
                [stack |-> IF samples[i] \in DOMAIN nodes THEN NodePath(nodes, samples[i]) ELSE <<>>,
                 value |-> <<1, IF i \in DOMAIN deltas THEN 1000 * deltas[i] ELSE 0>>]])
<1> DEFINE n == Len(nodes)
           all == Numbered(nodes)
           k == Len(samples)
           F == CpuFrames(all)
           L == CpuLines(all)
           T == CpuFns(all)
           Delta(i) == IF i \in DOMAIN profile.deltas THEN profile.deltas[i] ELSE 0
           Seen(i) == IF samples[i] \in DOMAIN nodes THEN NodePath(nodes, samples[i]) ELSE <<>>
           Time(i) == IF i \in DOMAIN deltas THEN 1000 * deltas[i] ELSE 0
           hits == [i \in DOMAIN profile.samples |->
                       [frames |-> StackForNode(profile, profile.samples[i]),
                        value |-> <<1, 1000 * Delta(i)>>]]
<1>1. /\ n \in Nat /\ DOMAIN nodes = 1..n /\ k \in Nat /\ DOMAIN samples = 1..k
      /\ Len(all) = n /\ all \in Seq(Range(all)) /\ \A i \in 1..n : all[i].id = i
  BY NumberedIs
<1>2. DOMAIN all = 1..n
  <2> HIDE DEF all
  <2> QED
    BY <1>1
<1> HIDE DEF all
<1>3. /\ Coherent(F, L, T)
      /\ \A f \in F : Len(f.lines) = 1 /\ f.lines \in Seq(Range(f.lines))
  BY <1>1, CpuCoherent
<1> HIDE DEF F, L, T, n
<1>4. ASSUME NEW i \in 1..k
      PROVE  /\ StackForNode(profile, samples[i]) \in Seq(F)
             /\ StackNames(StackForNode(profile, samples[i])) = Seen(i)
  <2>1. CASE samples[i] \in 1..n
    <3> DEFINE s == StackForNode(profile, samples[i])
    <3>1. /\ s \in Seq(F)
          /\ [j \in DOMAIN s |-> s[j].lines[1].fn.name] = NodePath(nodes, samples[i])
      <4>1. SeenAs(s, CpuFrames(Numbered(nodes)), NodePath(nodes, samples[i]))
        BY <2>1, StackForNodeIs DEF n
      <4> HIDE DEF s
      <4>2. QED
        BY <4>1 DEF SeenAs, F, all
    <3> HIDE DEF s
    <3>2. StackNames(s) = [j \in DOMAIN s |-> s[j].lines[1].fn.name]
      BY <1>3, <3>1, SingleNames
    <3>3. QED
      BY <1>1, <2>1, <3>1, <3>2 DEF s
  <2>2. CASE samples[i] \notin 1..n
    <3>1. {all[j].id : j \in DOMAIN all} = 1..n
      BY <1>1, <1>2
    <3>2. StackForNode(profile, samples[i]) = <<>>
      <4>1. samples[i] \notin {profile.nodes[j].id : j \in DOMAIN profile.nodes}
        BY <2>2, <3>1 DEF all
      <4>2. QED
        BY <4>1 DEF StackForNode
    <3>3. <<>> \in Seq(F)
      OBVIOUS
    <3>4. QED
      BY <1>1, <2>2, <3>2, <3>3, NoNames
  <2>3. QED
    BY <2>1, <2>2
<1> DEFINE W(i) == 1000 * Delta(i)
<1>5. ASSUME NEW i \in 1..k PROVE W(i) = Time(i) /\ <<1, Time(i)>> \in Pair
  <2>1. i \in DOMAIN deltas => deltas[i] \in Int
    OBVIOUS
  <2>2. Delta(i) \in Int /\ Time(i) \in Int /\ 1000 * Delta(i) = Time(i)
    BY <2>1
  <2> HIDE DEF Delta, Time
  <2>3. QED
    BY <2>2, PairIs
<1> HIDE DEF Delta, Time, Seen
<1> DEFINE Fr(i) == StackForNode(profile, samples[i])
<1>6. hits = [i \in 1..k |-> [frames |-> Fr(i), value |-> <<1, Time(i)>>]]
  <2>1. hits = [i \in 1..k |-> [frames |-> Fr(i), value |-> <<1, W(i)>>]]
    BY <1>1
  <2> HIDE DEF hits, Fr, W
  <2>2. QED
    BY <1>5, <2>1
<1>7. hits \in [1..k -> ItemsOf(F, Pair)]
  <2>1. \A i \in 1..k : Fr(i) \in Seq(F) /\ <<1, Time(i)>> \in Pair
    BY <1>4, <1>5
  <2> DEFINE V(i) == <<1, Time(i)>>
             H(i) == [frames |-> Fr(i), value |-> V(i)]
  <2>2. hits = [i \in 1..k |-> H(i)] /\ \A i \in 1..k : Fr(i) \in Seq(F) /\ V(i) \in Pair
    BY <1>6, <2>1
  <2> HIDE DEF hits, Fr, V
  <2>3. \A i \in 1..k : H(i) \in ItemsOf(F, Pair)
    BY <2>2 DEF ItemsOf
  <2> HIDE DEF H
  <2>4. QED
    BY <2>2, <2>3
<1>8. BuildCpu(profile) = Profile(<<<<"samples", "count">>, <<"cpu", "nanoseconds">>>>, {1}, Merge(hits))
  BY DEF BuildCpu, Delta
<1> HIDE DEF hits
<1>9. ByStack(BuildCpu(profile)) = Tally(Credits(hits))
  <2>1. 1..k \in SUBSET Nat /\ IsFiniteSet(1..k)
    BY <1>1, FS_Interval
  <2> HIDE DEF k
  <2>2. QED
    BY <1>3, <1>7, <1>8, <2>1, MergedReads
<1>10. Credits(hits) = [i \in DOMAIN samples |-> [stack |-> Seen(i), value |-> <<1, Time(i)>>]]
  <2>1. /\ DOMAIN hits = 1..k
        /\ \A i \in 1..k : hits[i].frames = Fr(i) /\ hits[i].value = <<1, Time(i)>>
    BY <1>6
  <2>2. \A i \in 1..k : StackNames(Fr(i)) = Seen(i)
    BY <1>4
  <2> HIDE DEF Fr
  <2>3. QED
    BY <1>1, <2>1, <2>2 DEF Credits
<1>11. QED
  BY <1>9, <1>10 DEF Seen, Time

-----------------------------------------------------------------------------
(* The inputs.                                                             *)

NodesUpto(k) == {j \in 1..k : input[j].t = "node"}

\* A node's parent is one of the nodes before it, if there are any.
Planted ==
    \A i \in 1..Len(input) : input[i].t = "node" =>
       /\ input[i].parent \in 0..Cardinality(NodesUpto(i - 1))
       /\ input[i].parent = 0 => NodesUpto(i - 1) = {}

InputInv ==
    /\ kind \in DOMAIN Elements /\ input \in Seq(Elements[kind])
    /\ kind \in {"cpu", "heap"} => Planted

OutInv ==
    out # None => Convertible /\ \E index : out = [index |-> index, result |-> Converted(index)]

IngestInv == InputInv /\ OutInv

At(t) == {i \in DOMAIN input : input[i].t = t}

\* The elements of one type, in their order.
LEMMA OfIs ==
    ASSUME NEW E, input \in Seq(E), NEW t
    PROVE  /\ At(t) \in SUBSET (1..Len(input)) /\ IsFiniteSet(At(t))
           /\ Ascends(InOrder(At(t)), Cardinality(At(t)), At(t))
           /\ Of(t) = [n \in 1..Cardinality(At(t)) |-> input[InOrder(At(t))[n]]]
           /\ Of(t) \in Seq(E) /\ Len(Of(t)) = Cardinality(At(t))
<1> DEFINE S == At(t)
           m == Cardinality(S)
           at == InOrder(S)
<1>1. S \in SUBSET (1..Len(input)) /\ IsFiniteSet(S) /\ S \in SUBSET Int
  <2>1. S \in SUBSET (1..Len(input)) /\ IsFiniteSet(1..Len(input))
    BY FS_Interval DEF At
  <2>2. QED
    BY <2>1, FS_Subset
<1>2. Of(t) = [n \in DOMAIN at |-> input[at[n]]]
  BY DEF Of, At
<1> HIDE DEF S, m, at
<1>3. Ascends(at, m, S)
  BY <1>1, InOrderIs DEF at, m
<1>4. m \in Nat /\ at \in [1..m -> S]
  BY <1>3 DEF Ascends, Orders
<1>5. Of(t) = [n \in 1..m |-> input[at[n]]]
  BY <1>2, <1>4
<1>6. \A n \in 1..m : input[at[n]] \in E
  <2> SUFFICES ASSUME NEW n \in 1..m PROVE input[at[n]] \in E
    OBVIOUS
  <2>1. at[n] \in 1..Len(input)
    BY <1>1, <1>4
  <2>2. QED
    BY <2>1
<1>7. Of(t) \in [1..m -> E]
  BY <1>5, <1>6
<1>8. Of(t) \in Seq(E) /\ Len(Of(t)) = m
  <2> DEFINE o == Of(t)
  <2> HIDE DEF o
  <2>1. o \in [1..m -> E]
    BY <1>7 DEF o
  <2>2. QED
    BY <1>4, <2>1 DEF o
<1>9. QED
  BY <1>1, <1>3, <1>5, <1>8 DEF S, m, at

\* In their order the nodes are a tree with one head.
LEMMA PlantedIs ==
    ASSUME NEW E, input \in Seq(E), Planted
    PROVE  Tree(Of("node")) /\ Rooted(Of("node"))
<1> DEFINE S == At("node")
           m == Cardinality(S)
           at == InOrder(S)
           nodes == Of("node")
<1>1. /\ S \in SUBSET (1..Len(input)) /\ Ascends(at, m, S)
      /\ nodes = [n \in 1..m |-> input[at[n]]] /\ Len(nodes) = m
  BY OfIs
<1>2. S = {i \in 1..Len(input) : input[i].t = "node"} /\ Len(input) \in Nat
  BY DEF At
<1> HIDE DEF S, m, at, nodes
<1>3. /\ m \in Nat /\ at \in [1..m -> S] /\ \A x \in S : \E i \in 1..m : at[i] = x
      /\ \A i, j \in 1..m : i < j => at[i] < at[j]
      /\ \A i, j \in 1..m : at[i] = at[j] => i = j
  BY <1>1 DEF Ascends, Orders
<1>4. ASSUME NEW n \in 1..m
      PROVE  nodes[n].parent \in 0..(n - 1) /\ (n \in 2..m => nodes[n].parent # 0)
  <2> DEFINE i == at[n]
             B == NodesUpto(i - 1)
             f == [k \in 1..(n - 1) |-> at[k]]
  <2>1. i \in S /\ i \in 1..Len(input) /\ input[i].t = "node" /\ nodes[n] = input[i]
    BY <1>1, <1>2, <1>3
  <2>2. nodes[n].parent \in 0..Cardinality(B) /\ (nodes[n].parent = 0 => B = {})
    BY <2>1 DEF Planted
  <2>3. \A k \in 1..(n - 1) : at[k] \in B
    <3> SUFFICES ASSUME NEW k \in 1..(n - 1) PROVE at[k] \in B
      OBVIOUS
    <3>1. k \in 1..m /\ k < n
      BY <1>3
    <3>2. at[k] \in S /\ at[k] < i
      BY <1>3, <3>1
    <3>3. at[k] \in 1..Len(input) /\ input[at[k]].t = "node"
      BY <1>2, <3>2
    <3>4. at[k] \in 1..(i - 1)
      BY <1>2, <2>1, <3>2, <3>3
    <3>5. QED
      BY <3>3, <3>4 DEF NodesUpto
  <2>4. ASSUME NEW x \in B PROVE \E k \in 1..(n - 1) : at[k] = x
    <3>1. x \in 1..(i - 1) /\ input[x].t = "node"
      BY DEF NodesUpto
    <3>2. x \in S /\ x < i
      BY <1>2, <2>1, <3>1
    <3>3. PICK k \in 1..m : at[k] = x
      BY <1>3, <3>2
    <3>4. k < n
      <4>1. ~(n < k) /\ n # k
        <5>1. n < k => i < x
          BY <1>3, <3>3
        <5>2. x \in Int /\ i \in Int
          BY <2>1, <3>1
        <5>3. QED
          BY <3>2, <3>3, <5>1, <5>2
      <4>2. QED
        BY <1>3, <4>1
    <3>5. QED
      BY <1>3, <3>3, <3>4
  <2>5. \A k, l \in 1..(n - 1) : at[k] = at[l] => k = l
    BY <1>3
  <2> HIDE DEF B, i
  <2>6. f \in Bijection(1..(n - 1), B)
    BY <2>3, <2>4, <2>5 DEF Bijection, Injection, Surjection, IsInjective
  <2>7. IsFiniteSet(1..(n - 1)) /\ Cardinality(1..(n - 1)) = n - 1
    <3>1. 1 \in Int /\ n - 1 \in Int /\ ~(1 > n)
      BY <1>3
    <3>2. Cardinality(1..(n - 1)) = IF 1 > n - 1 THEN 0 ELSE (n - 1) - 1 + 1
      BY <3>1, FS_Interval
    <3>3. QED
      BY <1>3, <3>1, <3>2, FS_Interval
  <2>8. Cardinality(B) = n - 1
    <3>1. ExistsBijection(1..(n - 1), B)
      BY <2>6 DEF ExistsBijection
    <3>2. QED
      BY <2>7, <3>1, FS_Bijection
  <2>9. n \in 2..m => B # {}
    <3> SUFFICES ASSUME n \in 2..m PROVE at[1] \in B
      OBVIOUS
    <3>1. 1 \in 1..(n - 1)
      BY <1>3
    <3>2. QED
      BY <2>3, <3>1
  <2>10. QED
    BY <2>2, <2>8, <2>9
<1>5. Len(nodes) = m /\ 2..m \in SUBSET (1..m)
  BY <1>1, <1>3
<1>6. QED
  BY <1>4, <1>5 DEF Tree, Rooted, nodes

-----------------------------------------------------------------------------
(* The invariant.                                                          *)

\* What is captured decides what is converted.
LEMMA InputDecides ==
    ASSUME kind' = kind, input' = input
    PROVE  Convertible' = Convertible /\ \A index : Converted(index)' = Converted(index)
<1>1. \A t : Of(t)' = Of(t)
  BY DEF Of
<1>2. \A t, f : Field(t, f)' = Field(t, f)
  BY <1>1 DEF Field
<1>3. HeapInput' = HeapInput /\ CpuInput' = CpuInput
  BY <1>1, <1>2 DEF HeapInput, CpuInput
<1>4. SamplyInput' = SamplyInput
  BY DEF SamplyInput
<1>5. GuestInput' = GuestInput
  BY DEF GuestInput
<1>6. QED
  BY <1>1, <1>3, <1>4, <1>5 DEF Converted, Convertible

\* The nodes of the input are those up to its end.
LEMMA NodesUptoLen ==
    ASSUME NEW E, input \in Seq(E)
    PROVE  NodesUpto(Len(input)) = At("node")
BY DEF NodesUpto, At

\* One element more keeps the input well formed.
LEMMA CaptureKeeps ==
    ASSUME IngestInv, Capture
    PROVE  IngestInv'
<1> DEFINE E == Elements[kind]
           n == Len(input)
<1>1. PICK e \in E : Fits(e) /\ input' = Append(input, e)
  BY DEF Capture
<1>2. kind' = kind /\ out' = None /\ input \in Seq(E) /\ kind \in DOMAIN Elements
  BY DEF Capture, IngestInv, InputInv
<1>3. /\ input' \in Seq(E) /\ Len(input') = n + 1 /\ n \in Nat /\ input'[n + 1] = e
      /\ \A i \in 1..n : input'[i] = input[i]
  BY <1>1, <1>2
<1>4. ASSUME kind \in {"cpu", "heap"} PROVE Planted'
  <2>1. \A k \in 0..n : NodesUpto(k)' = NodesUpto(k)
    BY <1>3 DEF NodesUpto
  <2>2. ASSUME NEW i \in 1..(n + 1), input'[i].t = "node"
        PROVE  /\ input'[i].parent \in 0..Cardinality(NodesUpto(i - 1))
               /\ input'[i].parent = 0 => NodesUpto(i - 1) = {}
    <3>1. CASE i \in 1..n
      BY <1>3, <1>4, <2>2, <3>1 DEF IngestInv, InputInv, Planted
    <3>2. CASE i = n + 1
      <4>1. e.t = "node" /\ i - 1 = n
        BY <1>3, <2>2, <3>2
      <4>2. IF Of("node") = <<>> THEN e.parent = 0 ELSE e.parent \in 1..Len(Of("node"))
        BY <1>1, <1>4, <4>1 DEF Fits
      <4>3. Len(Of("node")) = Cardinality(NodesUpto(n)) /\ Cardinality(NodesUpto(n)) \in Nat
        <5>1. Len(Of("node")) = Cardinality(At("node")) /\ IsFiniteSet(At("node"))
          BY <1>2, OfIs
        <5>2. NodesUpto(n) = At("node")
          BY <1>2, NodesUptoLen
        <5>3. Cardinality(At("node")) \in Nat
          BY <5>1, FS_CardinalityType
        <5>4. QED
          BY <5>1, <5>2, <5>3
      <4>4. /\ e.parent \in 0..Cardinality(NodesUpto(n))
            /\ e.parent = 0 => NodesUpto(n) = {}
        <5>1. CASE Of("node") = <<>>
          <6>1. Cardinality(NodesUpto(n)) = 0
            BY <4>3, <5>1
          <6>2. IsFiniteSet(NodesUpto(n))
            BY <1>2, OfIs, NodesUptoLen
          <6>3. NodesUpto(n) = {}
            BY <6>1, <6>2, FS_EmptySet
          <6>4. QED
            BY <4>2, <4>3, <5>1, <6>3
        <5>2. CASE Of("node") # <<>>
          BY <4>2, <4>3, <5>2
        <5>3. QED
          BY <5>1, <5>2
      <4>5. QED
        BY <1>3, <3>2, <4>1, <4>4
    <3>3. QED
      BY <1>3, <3>1, <3>2
  <2>3. \A i \in 1..(n + 1) : i - 1 \in 0..n
    BY <1>3
  <2>4. QED
    BY <1>3, <2>1, <2>2, <2>3 DEF Planted
<1>5. QED
  BY <1>2, <1>3, <1>4 DEF IngestInv, InputInv, OutInv

\* A conversion records what the input is converted to.
LEMMA RunKeeps ==
    ASSUME IngestInv, NEW index, Run(index)
    PROVE  IngestInv'
<1>1. kind' = kind /\ input' = input /\ out' = [index |-> index, result |-> Converted(index)]
  BY DEF Run
<1>2. Convertible' /\ out' = [index |-> index, result |-> Converted(index)']
  BY <1>1, InputDecides DEF Run
<1>3. OutInv'
  BY <1>2 DEF OutInv
<1>4. NodesUpto(0)' = NodesUpto(0) /\ \A k : NodesUpto(k)' = NodesUpto(k)
  BY <1>1 DEF NodesUpto
<1>5. InputInv'
  BY <1>1, <1>4 DEF IngestInv, InputInv, Planted
<1>6. QED
  BY <1>3, <1>5 DEF IngestInv

\* Every capture is well formed, and every result is what it is converted to.
THEOREM CapturesWellFormed == Spec => []IngestInv
<1>1. Init => IngestInv
  <2> SUFFICES ASSUME Init PROVE IngestInv
    OBVIOUS
  <2>1. input = <<>> /\ out = None /\ kind \in DOMAIN Elements
    BY DEF Init
  <2>2. Len(input) = 0 /\ \A E : <<>> \in Seq(E)
    BY <2>1
  <2>3. QED
    BY <2>1, <2>2 DEF IngestInv, InputInv, OutInv, Planted
<1>2. IngestInv /\ [Next]_vars => IngestInv'
  <2> SUFFICES ASSUME IngestInv, [Next]_vars PROVE IngestInv'
    OBVIOUS
  <2>1. CASE Capture
    BY <2>1, CaptureKeeps
  <2>2. ASSUME NEW index, Run(index) PROVE IngestInv'
    BY <2>2, RunKeeps
  <2>3. CASE UNCHANGED vars
    <3>1. kind' = kind /\ input' = input /\ out' = out
      BY <2>3 DEF vars
    <3>2. Convertible' = Convertible /\ \A index : Converted(index)' = Converted(index)
      BY <3>1, InputDecides
    <3>3. OutInv'
      BY <3>1, <3>2 DEF IngestInv, OutInv
    <3>4. \A k : NodesUpto(k)' = NodesUpto(k)
      BY <3>1 DEF NodesUpto
    <3>5. InputInv'
      BY <3>1, <3>4 DEF IngestInv, InputInv, Planted
    <3>6. QED
      BY <3>3, <3>5 DEF IngestInv
  <2>4. QED
    BY <2>1, <2>2, <2>3 DEF Next
<1>3. QED
  BY <1>1, <1>2, PTL DEF Spec

\* CpuSamplesKept follows from what the input is.
LEMMA CpuSamplesAreKept ==
    ASSUME IngestInv
    PROVE  CpuSamplesKept
<1> SUFFICES ASSUME Is("cpu")
             PROVE  LET ids == Field("sample", "id")
                        us == Field("delta", "us")
                    IN  ByStack(Result) = Tally([i \in DOMAIN ids |->
                            [stack |-> IF ids[i] \in DOMAIN Of("node") THEN NodePath(Of("node"), ids[i]) ELSE <<>>,
                             value |-> <<1, IF i \in DOMAIN us THEN 1000 * us[i] ELSE 0>>]])
  BY DEF CpuSamplesKept
<1> DEFINE E == Elements["cpu"]
           nodes == Of("node")
           ids == Field("sample", "id")
           us == Field("delta", "us")
<1>1. kind = "cpu" /\ input \in Seq(E) /\ Planted /\ "cpu" \in DOMAIN Elements
  BY DEF Is, IngestInv, InputInv
<1>2. Result = BuildCpu(CpuInput)
  BY <1>1 DEF IngestInv, OutInv, Is, Result, Converted
<1>3. nodes \in Seq(E) /\ Tree(nodes)
  BY <1>1, OfIs, PlantedIs
<1>4. ids \in Seq(Range(ids))
  <2> DEFINE o == Of("sample")
  <2>1. o \in Seq(E)
    BY <1>1, OfIs
  <2>2. ids = [i \in DOMAIN o |-> o[i]["id"]]
    BY DEF Field
  <2> HIDE DEF o, ids
  <2>3. DOMAIN ids = 1..Len(o) /\ Len(o) \in Nat /\ ids = [i \in 1..Len(o) |-> ids[i]]
    BY <2>1, <2>2
  <2>4. ids \in [1..Len(o) -> Range(ids)]
    BY <2>3 DEF Range
  <2>5. QED
    BY <2>3, <2>4
<1>5. us \in Seq(Int)
  <2> DEFINE o == Of("delta")
             m == Cardinality(At("delta"))
             at == InOrder(At("delta"))
  <2>1. /\ o \in Seq(E) /\ Len(o) = m /\ o = [n \in 1..m |-> input[at[n]]]
        /\ Ascends(at, m, At("delta"))
    BY <1>1, OfIs
  <2> HIDE DEF m, at
  <2>2. \A n \in 1..m : at[n] \in At("delta")
    BY <2>1 DEF Ascends, Orders
  <2>3. us = [i \in DOMAIN o |-> o[i]["us"]]
    BY DEF Field
  <2>4. ASSUME NEW n \in 1..m PROVE o[n]["us"] \in Int
    <3>1. o[n] \in E /\ o[n] = input[at[n]]
      BY <2>1
    <3>2. input[at[n]].t = "delta"
      BY <2>2 DEF At
    <3>3. CpuElement(o[n])
      BY <1>1, <3>1, IngestAssumption
    <3>4. QED
      BY <3>1, <3>2, <3>3 DEF CpuElement
  <2>5. DOMAIN o = 1..m /\ m \in Nat
    <3> HIDE DEF o
    <3> QED
      BY <2>1 DEF Ascends, Orders
  <2> HIDE DEF o, us
  <2>6. us \in [1..m -> Int]
    BY <2>3, <2>4, <2>5
  <2>7. QED
    BY <2>5, <2>6
<1>6. CpuInput.nodes = Numbered(nodes) /\ CpuInput.samples = ids /\ CpuInput.deltas = us
  BY DEF CpuInput
<1> HIDE DEF nodes, ids, us
<1>7. ByStack(BuildCpu(CpuInput)) =
        Tally([i \in DOMAIN ids |->
           [stack |-> IF ids[i] \in DOMAIN nodes THEN NodePath(nodes, ids[i]) ELSE <<>>,
            value |-> <<1, IF i \in DOMAIN us THEN 1000 * us[i] ELSE 0>>]])
  BY <1>3, <1>4, <1>5, <1>6, CpuConverts
<1>8. QED
  BY <1>2, <1>7 DEF nodes, ids, us

\* V8's CPU profile: every sample is one hit of the path to its node, with the
\* delta of its own position, whatever the tree, the samples and the deltas are.
THEOREM CpuSamplesAlwaysKept == Spec => []CpuSamplesKept
<1>1. IngestInv => CpuSamplesKept
  BY CpuSamplesAreKept
<1>2. QED
  BY <1>1, CapturesWellFormed, PTL

-----------------------------------------------------------------------------
(* Sequences joined.                                                       *)

\* Where the elements of the joined sequences are.
Places(off, seqs, all) ==
    /\ \A t \in 1..Len(seqs), n \in Nat :
         n \in 1..Len(seqs[t]) =>
            off[t] + n \in 1..Len(all) /\ all[off[t] + n] = seqs[t][n]
    /\ \A i \in 1..Len(all) : \E t \in 1..Len(seqs) : \E n \in 1..Len(seqs[t]) : i = off[t] + n
    /\ \A t, u \in 1..Len(seqs), n, m \in Nat :
         n \in 1..Len(seqs[t]) /\ m \in 1..Len(seqs[u]) /\ off[t] + n = off[u] + m => t = u /\ n = m

\* The joined sequences have places that no two elements share.
LEMMA FlattenPlaces ==
    ASSUME NEW X, NEW seqs \in Seq(Seq(X))
    PROVE  \E off \in [1..Len(seqs) -> Nat] : Places(off, seqs, FlattenSeq(seqs))
<1> DEFINE k == Len(seqs)
<1>1. PICK g \in [0..k -> Seq(X)] : Joins(g, seqs)
  BY JoinsExists
<1>2. FlattenSeq(seqs) = g[k]
  BY <1>1, FlattenIs
<1>3. k \in Nat /\ \A t \in 1..k : seqs[t] \in Seq(X) /\ Len(seqs[t]) \in Nat
  OBVIOUS
<1> DEFINE off == [t \in 1..k |-> Len(g[t - 1])]
           l == [t \in 1..k |-> Len(seqs[t])]
           end == [t \in 0..k |-> Len(g[t])]
<1>4. \A t \in 1..k : g[t] = g[t - 1] \o seqs[t] /\ g[t - 1] \in Seq(X) /\ g[t] \in Seq(X)
  <2> SUFFICES ASSUME NEW t \in 1..k
               PROVE  g[t] = g[t - 1] \o seqs[t] /\ g[t - 1] \in Seq(X) /\ g[t] \in Seq(X)
    OBVIOUS
  <2>1. t \in 0..k /\ t - 1 \in 0..k
    BY <1>3
  <2>2. g[t] = g[t - 1] \o seqs[t]
    BY <1>1 DEF Joins
  <2> HIDE DEF k
  <2>3. QED
    BY <2>1, <2>2
<1>5. off \in [1..k -> Nat] /\ end \in [0..k -> Nat] /\ l \in [1..k -> Nat]
  BY <1>3
<1>6. ASSUME NEW t \in 1..k
      PROVE  /\ end[t] = off[t] + l[t] /\ off[t] = end[t - 1]
             /\ \A i \in 1..off[t] : g[t][i] = g[t - 1][i]
             /\ \A n \in 1..l[t] : g[t][off[t] + n] = seqs[t][n]
  <2> DEFINE a == g[t - 1]
             b == seqs[t]
  <2>1. a \in Seq(X) /\ b \in Seq(X) /\ g[t] = a \o b
    BY <1>3, <1>4
  <2> HIDE DEF a, b
  <2>2. /\ Len(a \o b) = Len(a) + Len(b)
        /\ \A i \in 1..Len(a) : (a \o b)[i] = a[i]
        /\ \A n \in 1..Len(b) : (a \o b)[Len(a) + n] = b[n]
    BY <2>1
  <2>3. off[t] = Len(a) /\ l[t] = Len(b) /\ end[t] = Len(a \o b)
    <3>1. off[t] = Len(g[t - 1]) /\ l[t] = Len(seqs[t])
      OBVIOUS
    <3>2. end[t] = Len(g[t])
      BY <1>3
    <3> HIDE DEF off, l, end
    <3>3. QED
      BY <2>1, <3>1, <3>2 DEF a, b
  <2>4. t - 1 \in 0..k
    BY <1>3
  <2>5. off[t] = end[t - 1]
    BY <2>4
  <2> HIDE DEF off, l, end
  <2>6. QED
    BY <2>1, <2>2, <2>3, <2>5 DEF a, b
<1>7. end[0] = 0 /\ g[0] = <<>>
  BY <1>1, <1>3 DEF Joins
<1> HIDE DEF off, l, end, k
\* Up to each sequence.
<1> DEFINE Upto(u) ==
        /\ \A t \in 1..u : end[t] <= end[u] /\ \A n \in 1..l[t] : g[u][off[t] + n] = seqs[t][n]
        /\ \A i \in 1..end[u] : \E t \in 1..u : \E n \in 1..l[t] : i = off[t] + n
        /\ \A t, v \in 1..u, n, m \in Nat :
             n \in 1..l[t] /\ m \in 1..l[v] /\ off[t] + n = off[v] + m => t = v /\ n = m
           S == {u \in Nat : u <= k => Upto(u)}
<1>8. 0 \in S
  BY <1>7
<1>9. ASSUME NEW u \in Nat, u \in S PROVE u + 1 \in S
  <2> SUFFICES ASSUME u + 1 <= k PROVE Upto(u + 1)
    OBVIOUS
  <2> DEFINE w == u + 1
  <2>1. u \in 0..k /\ w \in 1..k /\ w - 1 = u /\ w \in Nat /\ Upto(u) /\ w \notin 1..u /\ 1..w = (1..u) \cup {w}
    <3>1. u \in 0..k /\ w \in 1..k /\ w - 1 = u /\ w \in Nat /\ w \notin 1..u /\ 1..w = (1..u) \cup {w}
      <4> HIDE DEF Upto
      <4> QED
        BY <1>3
    <3>2. Upto(u)
      <4> HIDE DEF Upto
      <4> QED
        BY <1>3, <1>9
    <3>3. QED
      BY <3>1, <3>2
  <2> HIDE DEF w
  <2>2. /\ end[w] = off[w] + l[w] /\ off[w] = end[u] /\ end[u] \in Nat /\ l[w] \in Nat /\ end[w] \in Nat
        /\ \A i \in 1..end[u] : g[w][i] = g[u][i]
        /\ \A n \in 1..l[w] : g[w][off[w] + n] = seqs[w][n]
    <3>1. /\ end[w] = off[w] + l[w] /\ off[w] = end[w - 1]
          /\ \A i \in 1..off[w] : g[w][i] = g[w - 1][i]
          /\ \A n \in 1..l[w] : g[w][off[w] + n] = seqs[w][n]
      BY <1>6, <2>1
    <3>2. w \in 0..k /\ w \in 1..k /\ u \in 0..k
      BY <1>3, <2>1
    <3>3. end[u] \in Nat /\ l[w] \in Nat /\ end[w] \in Nat
      BY <1>5, <3>2
    <3>4. QED
      BY <2>1, <3>1, <3>3
  <2>3. ASSUME NEW t \in 1..u
        PROVE  /\ t \in 1..k /\ off[t] \in Nat /\ l[t] \in Nat /\ end[t] = off[t] + l[t] /\ end[t] <= end[u]
               /\ \A n \in 1..l[t] : off[t] + n \in 1..end[u]
    <3>1. t \in 1..k
      BY <1>3, <2>1
    <3>2. off[t] \in Nat /\ l[t] \in Nat /\ end[t] = off[t] + l[t] /\ end[t] <= end[u]
      BY <1>5, <1>6, <2>1, <3>1
    <3>3. QED
      BY <2>2, <3>1, <3>2
  <2>4. ASSUME NEW t \in 1..w
        PROVE  end[t] <= end[w] /\ \A n \in 1..l[t] : g[w][off[t] + n] = seqs[t][n]
    <3>1. CASE t \in 1..u
      <4>1. end[t] <= end[w]
        <5>1. off[t] \in Nat /\ l[t] \in Nat /\ end[t] = off[t] + l[t] /\ end[t] <= end[u]
          BY <2>3, <3>1
        <5>2. QED
          BY <2>2, <5>1
      <4>2. ASSUME NEW n \in 1..l[t] PROVE g[w][off[t] + n] = seqs[t][n]
        <5>1. off[t] + n \in 1..end[u]
          BY <2>3, <3>1
        <5>2. g[u][off[t] + n] = seqs[t][n]
          BY <2>1, <3>1
        <5>3. QED
          BY <2>2, <5>1, <5>2
      <4>3. QED
        BY <4>1, <4>2
    <3>2. CASE t = w
      <4>1. end[w] <= end[w]
        BY <2>2
      <4>2. QED
        BY <2>2, <3>2, <4>1
    <3>3. QED
      BY <2>1, <3>1, <3>2
  <2>5. ASSUME NEW i \in 1..end[w] PROVE \E t \in 1..w : \E n \in 1..l[t] : i = off[t] + n
    <3>1. CASE i \in 1..end[u]
      BY <2>1, <3>1
    <3>2. CASE i \notin 1..end[u]
      <4>1. i - end[u] \in 1..l[w] /\ i = off[w] + (i - end[u])
        BY <2>2, <3>2
      <4>2. w \in 1..w
        BY <2>1
      <4>3. QED
        BY <4>1, <4>2
    <3>3. QED
      BY <3>1, <3>2
  <2>6. ASSUME NEW t \in 1..w, NEW v \in 1..w, NEW n \in Nat, NEW m \in Nat,
               n \in 1..l[t], m \in 1..l[v], off[t] + n = off[v] + m
        PROVE  t = v /\ n = m
    <3>1. CASE t \in 1..u /\ v \in 1..u
      BY <2>1, <2>6, <3>1
    <3>2. CASE t \in 1..u /\ v = w
      <4>1. off[t] + n \in 1..end[u]
        BY <2>3, <2>6, <3>2
      <4>2. off[w] = end[u] /\ end[u] \in Nat /\ m > 0
        BY <2>2, <2>6, <3>2
      <4>3. QED
        BY <2>6, <3>2, <4>1, <4>2
    <3>3. CASE t = w /\ v \in 1..u
      <4>1. off[v] + m \in 1..end[u]
        BY <2>3, <2>6, <3>3
      <4>2. off[w] = end[u] /\ end[u] \in Nat /\ n > 0
        BY <2>2, <2>6, <3>3
      <4>3. QED
        BY <2>6, <3>3, <4>1, <4>2
    <3>4. CASE t = w /\ v = w
      BY <2>2, <2>6, <3>4
    <3>5. QED
      BY <2>1, <3>1, <3>2, <3>3, <3>4
  <2>7. Upto(w)
    BY <2>4, <2>5, <2>6
  <2>8. QED
    BY <2>7 DEF w
<1>10. Upto(k)
  <2>1. k \in S
    <3> HIDE DEF S
    <3> QED
      BY <1>3, <1>8, <1>9, Induction
  <2>2. QED
    BY <1>3, <2>1
<1>11. Len(g[k]) = end[k] /\ \A t \in 1..k : l[t] = Len(seqs[t])
  BY <1>3 DEF end, l
<1>12. \A t \in 1..k, n \in Nat : n \in 1..l[t] => off[t] + n \in 1..end[k]
  <2> SUFFICES ASSUME NEW t \in 1..k, NEW n \in 1..l[t] PROVE off[t] + n \in 1..end[k]
    OBVIOUS
  <2>1. end[t] <= end[k] /\ end[t] = off[t] + l[t]
    BY <1>6, <1>10
  <2>2. off[t] \in Nat /\ l[t] \in Nat /\ end[k] \in Nat
    BY <1>3, <1>5
  <2>3. QED
    BY <2>1, <2>2
<1>13. Places(off, seqs, g[k])
  <2> DEFINE all == g[k]
  <2> HIDE DEF all
  <2>1. \A t \in 1..k, n \in Nat : n \in 1..l[t] => off[t] + n \in 1..Len(all) /\ all[off[t] + n] = seqs[t][n]
    BY <1>10, <1>11, <1>12 DEF all
  <2>2. \A i \in 1..Len(all) : \E t \in 1..k : \E n \in 1..l[t] : i = off[t] + n
    BY <1>10, <1>11 DEF all
  <2>3. \A t, u \in 1..k, n, m \in Nat :
          n \in 1..l[t] /\ m \in 1..l[u] /\ off[t] + n = off[u] + m => t = u /\ n = m
    BY <1>10
  <2>4. k = Len(seqs)
    BY DEF k
  <2> HIDE DEF Upto
  <2>5. \A t \in 1..Len(seqs), n \in Nat :
          n \in 1..Len(seqs[t]) => off[t] + n \in 1..Len(all) /\ all[off[t] + n] = seqs[t][n]
    BY <1>11, <2>1, <2>4
  <2>6. \A i \in 1..Len(all) : \E t \in 1..Len(seqs) : \E n \in 1..Len(seqs[t]) : i = off[t] + n
    BY <1>11, <2>2, <2>4
  <2>7. \A t, u \in 1..Len(seqs), n, m \in Nat :
         n \in 1..Len(seqs[t]) /\ m \in 1..Len(seqs[u]) /\ off[t] + n = off[u] + m => t = u /\ n = m
    <3> SUFFICES ASSUME NEW t \in 1..Len(seqs), NEW u \in 1..Len(seqs), NEW n \in Nat, NEW m \in Nat,
                        n \in 1..Len(seqs[t]), m \in 1..Len(seqs[u]), off[t] + n = off[u] + m
                 PROVE  t = u /\ n = m
      OBVIOUS
    <3>1. t \in 1..k /\ u \in 1..k
      BY <2>4
    <3>2. n \in 1..l[t] /\ m \in 1..l[u]
      BY <1>11, <3>1
    <3>3. QED
      BY <2>3, <3>1, <3>2
  <2>8. Places(off, seqs, all)
    BY <2>5, <2>6, <2>7, Zenon DEF Places
  <2>9. QED
    BY <2>8 DEF all
<1>14. QED
  BY <1>2, <1>5, <1>13 DEF k

\* Entries gathered thread by thread are gathered when the threads are joined.
LEMMA JoinedGathers ==
    ASSUME NEW X, NEW seqs \in Seq(Seq(X)), NEW J, IsFiniteSet(J), NEW d, DOMAIN d = J,
           NEW th \in [J -> 1..Len(seqs)],
           \A t \in 1..Len(seqs) :
               GathersAll(Credits(seqs[t]), 1..Len(seqs[t]), Portion(d, Fiber(th, J, t)), Fiber(th, J, t))
    PROVE  GathersAll(Credits(FlattenSeq(seqs)), 1..Len(FlattenSeq(seqs)), d, J)
<1> DEFINE K == Len(seqs)
           all == FlattenSeq(seqs)
           N == Len(all)
           e == Credits(all)
           E(t) == Credits(seqs[t])
           Of1(t) == Fiber(th, J, t)
           pt == [t \in 1..K |-> CHOOSE p : Gathers(E(t), 1..Len(seqs[t]), Portion(d, Of1(t)), Of1(t), p)]
<1>1. /\ K \in Nat /\ all \in Seq(X) /\ N \in Nat /\ DOMAIN all = 1..N
      /\ \A t \in 1..K : seqs[t] \in Seq(X) /\ Len(seqs[t]) \in Nat /\ DOMAIN seqs[t] = 1..Len(seqs[t])
  <2>1. all \in Seq(X)
    BY FlattenType
  <2> HIDE DEF all
  <2>2. QED
    BY <2>1
<1>2. PICK off \in [1..K -> Nat] : Places(off, seqs, all)
  BY FlattenPlaces
<1> HIDE DEF all
<1>3. \A t \in 1..K : /\ EntriesOn(E(t), 1..Len(seqs[t])) /\ EntriesOn(Portion(d, Of1(t)), Of1(t))
                      /\ Gathers(E(t), 1..Len(seqs[t]), Portion(d, Of1(t)), Of1(t), pt[t])
  BY DEF GathersAll
<1> HIDE DEF pt
<1>4. /\ DOMAIN e = 1..N
      /\ \A i \in 1..N : e[i].stack = StackNames(all[i].frames) /\ e[i].value = all[i].value
  BY <1>1 DEF Credits
<1>5. \A t \in 1..K, n \in Nat : n \in 1..Len(seqs[t]) =>
          E(t)[n].stack = StackNames(seqs[t][n].frames) /\ E(t)[n].value = seqs[t][n].value
  BY <1>1 DEF Credits
<1> HIDE DEF e, E, N
<1>6. \A t \in 1..K, n \in Nat : n \in 1..Len(seqs[t]) =>
          /\ off[t] + n \in 1..N /\ e[off[t] + n].stack = E(t)[n].stack
          /\ e[off[t] + n].value = E(t)[n].value
  <2> SUFFICES ASSUME NEW t \in 1..K, NEW n \in Nat, n \in 1..Len(seqs[t])
               PROVE  /\ off[t] + n \in 1..N /\ e[off[t] + n].stack = E(t)[n].stack
                      /\ e[off[t] + n].value = E(t)[n].value
    OBVIOUS
  <2>1. off[t] + n \in 1..N /\ all[off[t] + n] = seqs[t][n]
    BY <1>2 DEF Places, N
  <2>2. QED
    BY <1>4, <1>5, <2>1
<1>7. \A i \in 1..N : \E t \in 1..K : \E n \in 1..Len(seqs[t]) : i = off[t] + n
  BY <1>2 DEF Places, N
<1>8. \A t, u \in 1..K, n, m \in Nat :
        n \in 1..Len(seqs[t]) /\ m \in 1..Len(seqs[u]) /\ off[t] + n = off[u] + m => t = u /\ n = m
  BY <1>2, Zenon DEF Places, K
<1>9. ASSUME NEW j \in J
      PROVE  /\ th[j] \in 1..K /\ j \in Of1(th[j]) /\ Portion(d, Of1(th[j]))[j] = d[j]
  BY DEF Fiber, Portion
<1>10. \A t \in 1..K, j \in J : j \in Of1(t) <=> th[j] = t
  BY DEF Fiber
<1>11. \A t \in 1..K : Of1(t) \in SUBSET J
  BY DEF Fiber
<1> DEFINE D(t) == Portion(d, Of1(t))
<1>12. \A t \in 1..K : \A j \in Of1(t) : D(t)[j] = d[j]
  BY DEF Portion
<1> HIDE DEF Of1, D, K
<1>13. \A t \in 1..K : /\ pt[t] \in [Of1(t) -> 1..Len(seqs[t])]
                       /\ \A n \in 1..Len(seqs[t]) : \E j \in Of1(t) : pt[t][j] = n
                       /\ \A j \in Of1(t) : D(t)[j].stack = E(t)[pt[t][j]].stack
                       /\ \A n \in 1..Len(seqs[t]) :
                            E(t)[n].value = SumPairs([j \in Fiber(pt[t], Of1(t), n) |-> D(t)[j].value])
  BY <1>3 DEF Gathers, D
<1> DEFINE at == [j \in J |-> pt[th[j]][j]]
           part == [j \in J |-> off[th[j]] + at[j]]
<1>14. ASSUME NEW j \in J PROVE at[j] \in 1..Len(seqs[th[j]]) /\ at[j] \in Nat
  BY <1>1, <1>9, <1>13
<1>15. ASSUME NEW j \in J
       PROVE  part[j] \in 1..N /\ part[j] = off[th[j]] + at[j]
  <2>1. part[j] = off[th[j]] + at[j]
    OBVIOUS
  <2> DEFINE t == th[j]
             n == at[j]
  <2>2. t \in 1..K /\ n \in Nat /\ n \in 1..Len(seqs[t])
    BY <1>9, <1>14
  <2> HIDE DEF at, part, t, n
  <2>3. off[t] + n \in 1..N
    BY <1>6, <2>2
  <2>4. QED
    BY <2>1, <2>3 DEF t, n
<1>16. part \in [J -> 1..N]
  <2>1. part = [j \in J |-> part[j]]
    OBVIOUS
  <2> HIDE DEF part
  <2>2. QED
    BY <1>15, <2>1
<1>17. \A t \in 1..K : \A j \in Of1(t) : at[j] = pt[t][j]
  BY <1>10, <1>11
<1> HIDE DEF part, at
<1>18. ASSUME NEW t \in 1..K, NEW n \in 1..Len(seqs[t])
       PROVE  Fiber(part, J, off[t] + n) = Fiber(pt[t], Of1(t), n)
  <2>0. n \in Nat
    BY <1>1
  <2>1. ASSUME NEW j \in J PROVE part[j] = off[t] + n <=> j \in Of1(t) /\ pt[t][j] = n
    <3>1. CASE th[j] = t
      <4>1. j \in Of1(t) /\ at[j] = pt[t][j]
        BY <1>9, <1>17, <3>1
      <4>2. part[j] = off[t] + at[j] /\ at[j] \in Nat /\ off[t] \in Nat
        BY <1>14, <1>15, <3>1
      <4>3. QED
        BY <2>0, <4>1, <4>2
    <3>2. CASE th[j] # t
      <4>1. j \notin Of1(t)
        BY <1>10, <3>2
      <4> DEFINE u == th[j]
                 m == at[j]
      <4>2. u \in 1..K /\ m \in Nat /\ m \in 1..Len(seqs[u]) /\ part[j] = off[u] + m /\ u # t
        BY <1>9, <1>14, <1>15, <3>2
      <4> HIDE DEF u, m
      <4>4. part[j] # off[t] + n
        BY <1>8, <2>0, <4>2
      <4>3. QED
        BY <4>1, <4>4
    <3>3. QED
      BY <3>1, <3>2
  <2>2. QED
    BY <1>11, <2>1 DEF Fiber
<1>19. Gathers(e, 1..N, d, J, part)
  <2>1. ASSUME NEW i \in 1..N PROVE \E j \in J : part[j] = i
    <3>0. PICK t \in 1..K : \E n \in 1..Len(seqs[t]) : i = off[t] + n
      BY <1>7
    <3>1. PICK n \in 1..Len(seqs[t]) : i = off[t] + n
      BY <3>0
    <3>2. PICK j \in Of1(t) : pt[t][j] = n
      BY <1>13
    <3>3. j \in Fiber(part, J, off[t] + n)
      BY <1>18, <3>2 DEF Fiber
    <3>4. QED
      BY <3>1, <3>3 DEF Fiber
  <2>2. ASSUME NEW j \in J PROVE d[j].stack = e[part[j]].stack
    <3> DEFINE t == th[j]
    <3>1. t \in 1..K /\ j \in Of1(t) /\ at[j] = pt[t][j] /\ at[j] \in 1..Len(seqs[t]) /\ at[j] \in Nat
          /\ part[j] = off[t] + at[j]
      BY <1>9, <1>14, <1>15, <1>17
    <3> HIDE DEF t
    <3>2. d[j] = D(t)[j] /\ D(t)[j].stack = E(t)[at[j]].stack
      BY <1>12, <1>13, <3>1
    <3>3. QED
      BY <1>6, <3>1, <3>2
  <2>3. ASSUME NEW i \in 1..N PROVE e[i].value = SumPairs([j \in Fiber(part, J, i) |-> d[j].value])
    <3>0. PICK t \in 1..K : \E n \in 1..Len(seqs[t]) : i = off[t] + n
      BY <1>7
    <3>1. PICK n \in 1..Len(seqs[t]) : i = off[t] + n
      BY <3>0
    <3>2. n \in Nat
      BY <1>1
    <3>3. e[i].value = SumPairs([j \in Fiber(pt[t], Of1(t), n) |-> D(t)[j].value])
      <4>1. e[off[t] + n].value = E(t)[n].value
        BY <1>6, <3>2
      <4>2. E(t)[n].value = SumPairs([j \in Fiber(pt[t], Of1(t), n) |-> D(t)[j].value])
        BY <1>13, Zenon
      <4>3. QED
        BY <3>1, <4>1, <4>2, Zenon
    <3> DEFINE G == Fiber(pt[t], Of1(t), n)
    <3>4. G \in SUBSET Of1(t) /\ Fiber(part, J, i) = G
      <4>1. G \in SUBSET Of1(t)
        BY DEF Fiber
      <4>2. QED
        BY <1>18, <3>1, <4>1
    <3> HIDE DEF G
    <3>5. [j \in G |-> D(t)[j].value] = [j \in G |-> d[j].value]
      BY <1>12, <3>4
    <3>6. QED
      BY <3>3, <3>4, <3>5 DEF G
  <2>4. QED
    BY <1>16, <2>1, <2>2, <2>3 DEF Gathers
<1>20. EntriesOn(e, 1..N)
  <2>1. IsFiniteSet(1..N)
    <3>1. N \in Int /\ 1 \in Int
      BY <1>1
    <3>2. QED
      BY <3>1, FS_Interval
  <2>2. ASSUME NEW i \in 1..N, NEW k \in 1..2 PROVE e[i].value[k] \in Int
    <3>0. PICK t \in 1..K : \E n \in 1..Len(seqs[t]) : i = off[t] + n
      BY <1>7
    <3>1. PICK n \in 1..Len(seqs[t]) : i = off[t] + n
      BY <3>0
    <3>2. n \in Nat
      BY <1>1
    <3>3. e[i].value = E(t)[n].value
      BY <1>6, <3>1, <3>2
    <3>4. E(t)[n].value[k] \in Int
      BY <1>3 DEF EntriesOn
    <3>5. QED
      BY <3>3, <3>4
  <2>3. QED
    BY <1>4, <2>1, <2>2 DEF EntriesOn
<1>21. EntriesOn(d, J)
  <2>1. ASSUME NEW j \in J, NEW k \in 1..2 PROVE d[j].value[k] \in Int
    <3> DEFINE t == th[j]
    <3>1. t \in 1..K /\ j \in Of1(t)
      BY <1>9
    <3> HIDE DEF t
    <3>2. d[j] = D(t)[j] /\ D(t)[j].value[k] \in Int
      BY <1>3, <1>12, <3>1 DEF EntriesOn, D
    <3>3. QED
      BY <3>2
  <2>2. QED
    BY <2>1 DEF EntriesOn
<1>22. QED
  BY <1>19, <1>20, <1>21 DEF GathersAll, e, N, all

-----------------------------------------------------------------------------
(* The tables of wasmtime's profile.                                       *)

\* A recursion over entries that each name one before them, or none.
Chain(c, n, own, up) ==
    c = [s \in 0..n |-> IF s = 0 THEN <<>> ELSE <<own[s]>> \o c[up[s]]]

\* There is such a recursion.
LEMMA ChainExists ==
    ASSUME NEW n \in Nat, NEW O, NEW own \in [1..n -> O], NEW up, \A s \in 1..n : up[s] \in 0..(s - 1)
    PROVE  \E c \in [0..n -> Seq(O)] : Chain(c, n, own, up)
<1> DEFINE V == [0..n -> Seq(O)]
           base == [s \in 0..n |-> <<>>]
           Step(k, v) == [s \in 0..n |-> IF s = k THEN <<own[k]>> \o v[up[k]] ELSE v[s]]
           step == [p \in (1..n) \X V |-> Step(p[1], p[2])]
<1>1. base \in V
  OBVIOUS
<1>2. ASSUME NEW k \in 1..n, NEW v \in V PROVE Step(k, v) \in V
  <2>1. own[k] \in O /\ up[k] \in 0..n
    OBVIOUS
  <2>2. v[up[k]] \in Seq(O)
    BY <2>1
  <2>3. <<own[k]>> \o v[up[k]] \in Seq(O)
    BY <2>1, <2>2
  <2>4. QED
    BY <2>3
<1>3. step \in [(1..n) \X V -> V] /\ \A k \in 1..n, v \in V : step[<<k, v>>] = Step(k, v)
  <2> HIDE DEF V, Step
  <2> QED
    BY <1>2
<1> HIDE DEF V, base, step
<1>4. PICK g \in [0..n -> V] : Recurs(g, base, step, n)
  BY <1>1, <1>3, RecursionExists
<1>5. /\ g[0] = base
      /\ \A k \in 1..n : /\ g[k][k] = <<own[k]>> \o g[k - 1][up[k]]
                         /\ \A s \in 0..n : s # k => g[k][s] = g[k - 1][s]
  <2>1. g[0] = base
    BY <1>4 DEF Recurs
  <2>2. ASSUME NEW k \in 1..n PROVE g[k] = Step(k, g[k - 1])
    <3>1. k - 1 \in 0..n /\ g[k] = step[<<k, g[k - 1]>>]
      BY <1>4 DEF Recurs
    <3> HIDE DEF Step
    <3>2. g[k - 1] \in V
      BY <3>1
    <3>3. QED
      BY <1>3, <3>1, <3>2
  <2>3. ASSUME NEW k \in 1..n
        PROVE  /\ g[k][k] = <<own[k]>> \o g[k - 1][up[k]]
               /\ \A s \in 0..n : s # k => g[k][s] = g[k - 1][s]
    <3> DEFINE x == <<own[k]>> \o g[k - 1][up[k]]
               v == g[k - 1]
    <3>0. k \in 0..n
      OBVIOUS
    <3>1. g[k] = [s \in 0..n |-> IF s = k THEN x ELSE v[s]]
      BY <2>2, Zenon
    <3> HIDE DEF x, v
    <3>2. g[k][k] = x /\ \A s \in 0..n : s # k => g[k][s] = v[s]
      BY <3>0, <3>1
    <3>3. QED
      BY <3>2 DEF x, v
  <2>4. QED
    BY <2>1, <2>3
<1> DEFINE S == {k \in Nat : k <= n => \A s \in 0..k : g[k][s] = g[s][s]}
<1>6. 0 \in S
  OBVIOUS
<1>7. ASSUME NEW k \in Nat, k \in S PROVE k + 1 \in S
  <2> SUFFICES ASSUME k + 1 <= n, NEW s \in 0..(k + 1) PROVE g[k + 1][s] = g[s][s]
    OBVIOUS
  <2>1. CASE s = k + 1
    BY <2>1
  <2>2. CASE s # k + 1
    <3>1. s \in 0..k /\ s \in 0..n /\ k + 1 \in 1..n /\ (k + 1) - 1 = k
      BY <2>2
    <3>2. g[k + 1][s] = g[k][s]
      BY <1>5, <2>2, <3>1
    <3>3. QED
      BY <1>7, <3>1, <3>2
  <2>3. QED
    BY <2>1, <2>2
<1>8. \A k \in Nat : k \in S
  <2> HIDE DEF S
  <2> QED
    BY <1>6, <1>7, Induction
<1> DEFINE c == [s \in 0..n |-> g[s][s]]
<1>9. ASSUME NEW s \in 0..n PROVE c[s] = IF s = 0 THEN <<>> ELSE <<own[s]>> \o c[up[s]]
  <2>1. CASE s = 0
    BY <1>5, <2>1 DEF base
  <2>2. CASE s # 0
    <3>1. s \in 1..n /\ s - 1 \in Nat /\ s - 1 <= n /\ up[s] \in 0..(s - 1) /\ up[s] \in 0..n
      BY <2>2
    <3>2. g[s - 1][up[s]] = g[up[s]][up[s]]
      BY <1>8, <3>1
    <3>3. g[s][s] = <<own[s]>> \o g[s - 1][up[s]]
      BY <1>5, <3>1
    <3>4. QED
      BY <2>2, <3>1, <3>2, <3>3
  <2>3. QED
    BY <2>1, <2>2
<1>10. c \in [0..n -> Seq(O)] /\ c = [s \in 0..n |-> c[s]]
  BY DEF V
<1> HIDE DEF c
<1>11. Chain(c, n, own, up)
  BY <1>9, <1>10 DEF Chain
<1>12. QED
  BY <1>10, <1>11

\* Every solution is one of sequences.
LEMMA ChainIs ==
    ASSUME NEW n \in Nat, NEW O, NEW own \in [1..n -> O], NEW up, \A s \in 1..n : up[s] \in 0..(s - 1),
           NEW c, Chain(c, n, own, up)
    PROVE  \A s \in 0..n : c[s] \in Seq(O)
<1> DEFINE S == {k \in Nat : \A s \in 0..n : s <= k => c[s] \in Seq(O)}
<1>1. \A s \in 0..n : c[s] = IF s = 0 THEN <<>> ELSE <<own[s]>> \o c[up[s]]
  <2> DEFINE A(s) == IF s = 0 THEN <<>> ELSE <<own[s]>> \o c[up[s]]
  <2>1. c = [s \in 0..n |-> A(s)]
    BY DEF Chain
  <2> HIDE DEF A
  <2>2. \A s \in 0..n : c[s] = A(s)
    BY <2>1
  <2>3. QED
    BY <2>2 DEF A
<1>2. 0 \in S
  <2> SUFFICES ASSUME NEW s \in 0..n, s <= 0 PROVE c[s] \in Seq(O)
    OBVIOUS
  <2>0. s = 0 /\ 0 \in 0..n
    OBVIOUS
  <2>1. c[0] = <<>>
    BY <1>1, <2>0
  <2>2. QED
    BY <2>0, <2>1
<1>3. ASSUME NEW k \in Nat, k \in S PROVE k + 1 \in S
  <2> SUFFICES ASSUME NEW s \in 0..n, s <= k + 1 PROVE c[s] \in Seq(O)
    OBVIOUS
  <2>1. CASE s = 0
    BY <1>2, <2>1
  <2>2. CASE s # 0
    <3>1. s \in 1..n /\ up[s] \in 0..n /\ up[s] <= k
      BY <2>2
    <3>2. own[s] \in O /\ c[up[s]] \in Seq(O) /\ c[s] = <<own[s]>> \o c[up[s]]
      BY <1>1, <1>3, <2>2, <3>1
    <3> DEFINE o == own[s]
               r == c[up[s]]
    <3> HIDE DEF o, r
    <3>3. <<o>> \o r \in Seq(O)
      BY <3>2 DEF o, r
    <3>4. QED
      BY <3>2, <3>3 DEF o, r
  <2>3. QED
    BY <2>1, <2>2
<1>4. n \in S
  <2> HIDE DEF S
  <2> QED
    BY <1>2, <1>3, Induction
<1>5. QED
  BY <1>4

StackIds(stacks) == {stacks[s].frame : s \in 1..Len(stacks)}

\* The stack of wasmtime's table is of its frames.
LEMMA StackFramesIs ==
    ASSUME NEW thread, NEW R, thread.stacks \in Seq(R), Table(thread), NEW s \in 1..Len(thread.stacks)
    PROVE  StackFrames(thread, s) \in Seq(StackIds(thread.stacks))
<1> DEFINE n == Len(thread.stacks)
           O == StackIds(thread.stacks)
           own == [i \in 1..n |-> thread.stacks[i].frame]
           up == [i \in 1..n |-> IF thread.stacks[i].prefix = None THEN 0 ELSE thread.stacks[i].prefix]
           Solves(c) == c = [i \in 0..n |->
               IF i = 0 THEN <<>>
               ELSE <<thread.stacks[i].frame>> \o
                    c[IF thread.stacks[i].prefix = None THEN 0 ELSE thread.stacks[i].prefix]]
           chain == CHOOSE c : Solves(c)
<1>1. n \in Nat /\ own \in [1..n -> O] /\ \A i \in 1..n : up[i] \in 0..(i - 1)
  <2>1. \A i \in 1..n : up[i] \in 0..(i - 1)
    <3> SUFFICES ASSUME NEW i \in 1..n PROVE up[i] \in 0..(i - 1)
      OBVIOUS
    <3>1. thread.stacks[i].prefix \in {None} \cup 1..(i - 1)
      BY DEF Table
    <3>2. QED
      BY <3>1
  <2>2. n \in Nat
    OBVIOUS
  <2>3. own \in [1..n -> O]
    BY DEF StackIds
  <2> HIDE DEF up, own
  <2>4. QED
    BY <2>1, <2>2, <2>3
<1>2. StackFrames(thread, s) = chain[s]
  BY DEF StackFrames
<1>3. ASSUME NEW c PROVE Solves(c) <=> Chain(c, n, own, up)
  <2> DEFINE A(i) == IF i = 0 THEN <<>>
                     ELSE <<thread.stacks[i].frame>> \o
                          c[IF thread.stacks[i].prefix = None THEN 0 ELSE thread.stacks[i].prefix]
             B(i) == IF i = 0 THEN <<>> ELSE <<own[i]>> \o c[up[i]]
  <2>1. Solves(c) <=> c = [i \in 0..n |-> A(i)]
    OBVIOUS
  <2>2. Chain(c, n, own, up) <=> c = [i \in 0..n |-> B(i)]
    BY DEF Chain
  <2>3. ASSUME NEW i \in 0..n PROVE A(i) = B(i)
    <3>1. CASE i = 0
      BY <3>1
    <3>2. CASE i # 0
      <4>1. i \in 1..n
        BY <3>2
      <4>2. own[i] = thread.stacks[i].frame
            /\ up[i] = IF thread.stacks[i].prefix = None THEN 0 ELSE thread.stacks[i].prefix
        BY <4>1
      <4> HIDE DEF own, up
      <4>3. QED
        BY <4>2
    <3>3. QED
      BY <3>1, <3>2
  <2> HIDE DEF A, B, Solves
  <2>4. [i \in 0..n |-> A(i)] = [i \in 0..n |-> B(i)]
    BY <2>3
  <2>5. QED
    BY <2>1, <2>2, <2>4
<1> HIDE DEF own, up, Solves, O
<1>4. Chain(chain, n, own, up)
  <2>1. \E c : Chain(c, n, own, up)
    BY <1>1, ChainExists
  <2>2. QED
    BY <1>3, <2>1
<1> HIDE DEF chain
<1>5. \A i \in 0..n : chain[i] \in Seq(O)
  BY <1>1, <1>4, ChainIs
<1>6. s \in 0..n
  BY <1>1
<1>7. QED
  BY <1>2, <1>5, <1>6 DEF O

\* The samples of a thread are no part of its stacks.
LEMMA StackFramesOf ==
    ASSUME NEW a, NEW b, a.stacks = b.stacks
    PROVE  \A s : StackFrames(a, s) = StackFrames(b, s)
<1> DEFINE A(stacks, s) ==
        LET chain[i \in 0..Len(stacks)] ==
                IF i = 0 THEN <<>>
                ELSE <<stacks[i].frame>> \o chain[IF stacks[i].prefix = None THEN 0 ELSE stacks[i].prefix]
        IN  chain[s]
<1>1. \A s : StackFrames(a, s) = A(a.stacks, s) /\ StackFrames(b, s) = A(b.stacks, s)
  BY DEF StackFrames
<1> HIDE DEF A
<1>2. QED
  BY <1>1

-----------------------------------------------------------------------------

\* A frame of wasmtime's profile is one line, of its function's name.
NameOf(thread, f) == thread.funcs[thread.frames[f].func].name
GuestFrame(thread, f) == FrameOf(1, f, FuncTable(None, thread, f))

\* The frame of wasmtime's profile has one line, of its function's name.
LEMMA GuestFrameIs ==
    ASSUME NEW thread, NEW f
    PROVE  LET g == GuestFrame(thread, f) IN
           /\ Len(g.lines) = 1 /\ g.lines = <<g.lines[1]>>
           /\ g.key[1][3] = NameOf(thread, f)
           /\ g.lines[1].fn.key[1] = NameOf(thread, f)
           /\ g.lines[1].fn.name = Demangle(NameOf(thread, f))
<1> DEFINE r == Resolved(NameOf(thread, f), thread.funcs[thread.frames[f].func].file,
                         thread.frames[f].line, 1, thread.frames[f].address)
           g == GuestFrame(thread, f)
           line == [fn |-> [key |-> <<r.name, r.file>>, name |-> Demangle(r.name), file |-> r.file],
                    line |-> r.line]
<1>1. FuncTable(None, thread, f) = <<r>>
  BY DEF FuncTable, NameOf
<1>2. r.name = NameOf(thread, f)
  BY DEF Resolved
<1> HIDE DEF r
<1>3. /\ g.key = [i \in DOMAIN <<r>> |-> <<<<r>>[i].lib, <<r>>[i].address, <<r>>[i].name, <<r>>[i].line>>]
      /\ g.lines = [i \in DOMAIN <<r>> |->
            [fn |-> [key |-> <<<<r>>[i].name, <<r>>[i].file>>,
                     name |-> Demangle(<<r>>[i].name), file |-> <<r>>[i].file],
             line |-> <<r>>[i].line]]
  BY <1>1 DEF GuestFrame, FrameOf
<1> HIDE DEF g
<1>4. DOMAIN <<r>> = 1..1 /\ <<r>>[1] = r
  OBVIOUS
<1>5. g.key[1] = <<r.lib, r.address, r.name, r.line>> /\ g.lines[1] = line /\ DOMAIN g.lines = 1..1
  BY <1>3, <1>4
<1>6. g.lines = <<line>>
  <2>1. g.lines = [i \in 1..1 |-> line]
    BY <1>3, <1>4
  <2> HIDE DEF line
  <2>2. [i \in 1..1 |-> line] = <<line>>
    OBVIOUS
  <2>3. QED
    BY <2>1, <2>2
<1>7. g.key[1][3] = r.name /\ line.fn.key[1] = r.name /\ line.fn.name = Demangle(r.name)
  BY <1>5
<1>8. Len(g.lines) = 1
  <2> HIDE DEF line
  <2> QED
    BY <1>6
<1>9. QED
  <2> HIDE DEF line
  <2> QED
    BY <1>2, <1>5, <1>6, <1>7, <1>8 DEF g

\* Whatever the profile is, and whichever thread.
LEMMA GuestFrameOf ==
    ASSUME NEW ti, NEW p, NEW a, NEW b, a.frames = b.frames, a.funcs = b.funcs, NEW f
    PROVE  FrameOf(ti, f, FuncTable(p, a, f)) = GuestFrame(b, f)
<1>1. FuncTable(p, a, f) = FuncTable(None, b, f)
  BY DEF FuncTable
<1>2. \A lines : FrameOf(ti, f, lines) = FrameOf(1, f, lines)
  BY DEF FrameOf
<1>3. QED
  BY <1>1, <1>2 DEF GuestFrame

GuestFrames(T, Ids) == {GuestFrame(Threads[p[1]], p[2]) : p \in T \X Ids}
GuestLines(T, Ids) == {GuestFrame(Threads[p[1]], p[2]).lines[1] : p \in T \X Ids}
GuestFns(T, Ids) == {GuestFrame(Threads[p[1]], p[2]).lines[1].fn : p \in T \X Ids}

\* Frames with one key have one name, whichever thread's they are.
LEMMA GuestCoherent ==
    ASSUME NEW T, NEW Ids
    PROVE  /\ Coherent(GuestFrames(T, Ids), GuestLines(T, Ids), GuestFns(T, Ids))
           /\ \A f \in GuestFrames(T, Ids) : Len(f.lines) = 1 /\ f.lines \in Seq(Range(f.lines))
<1> DEFINE F == GuestFrames(T, Ids)
           L == GuestLines(T, Ids)
<1>1. ASSUME NEW f \in F
      PROVE  /\ Len(f.lines) = 1 /\ f.lines \in Seq(L) /\ f.lines \in Seq(Range(f.lines))
             /\ FrameNames(f) = <<f.lines[1].fn.name>>
  <2>1. PICK p \in T \X Ids : f = GuestFrame(Threads[p[1]], p[2])
    BY DEF GuestFrames
  <2>2. Len(f.lines) = 1 /\ f.lines = <<f.lines[1]>>
    BY <2>1, GuestFrameIs
  <2>3. f.lines[1] \in L
    BY <2>1 DEF GuestLines
  <2> DEFINE l == f.lines[1]
  <2> HIDE DEF l, L
  <2>4. <<l>> \in Seq(L) /\ <<l>> \in Seq(Range(<<l>>))
    BY <2>3 DEF l, Range
  <2>5. f.lines \in Seq(L) /\ f.lines \in Seq(Range(f.lines))
    BY <2>2, <2>4 DEF l
  <2>6. FrameNames(f) = <<f.lines[1].fn.name>>
    <3>1. DOMAIN f.lines = 1..1
      BY <2>5, <2>2
    <3>2. FrameNames(f) = [j \in 1..1 |-> f.lines[j].fn.name]
      BY <3>1 DEF FrameNames
    <3>3. [j \in 1..1 |-> f.lines[j].fn.name] = <<f.lines[1].fn.name>>
      OBVIOUS
    <3>4. QED
      BY <3>2, <3>3
  <2>7. QED
    BY <2>2, <2>5, <2>6
<1>2. \A l \in L : l.fn \in GuestFns(T, Ids)
  BY DEF GuestLines, GuestFns
<1>3. ASSUME NEW d \in GuestFns(T, Ids), NEW e \in GuestFns(T, Ids), d.key = e.key PROVE d.name = e.name
  <2>1. PICK p \in T \X Ids : d = GuestFrame(Threads[p[1]], p[2]).lines[1].fn
    BY DEF GuestFns
  <2>2. PICK q \in T \X Ids : e = GuestFrame(Threads[q[1]], q[2]).lines[1].fn
    BY DEF GuestFns
  <2>3. d.name = Demangle(d.key[1])
    BY <2>1, GuestFrameIs
  <2>4. e.name = Demangle(e.key[1])
    BY <2>2, GuestFrameIs
  <2>5. QED
    BY <1>3, <2>3, <2>4
<1>4. ASSUME NEW f \in F, NEW g \in F, f.key = g.key PROVE FrameNames(f) = FrameNames(g)
  <2>1. PICK p \in T \X Ids : f = GuestFrame(Threads[p[1]], p[2])
    BY DEF GuestFrames
  <2>2. PICK q \in T \X Ids : g = GuestFrame(Threads[q[1]], q[2])
    BY DEF GuestFrames
  <2>3. f.lines[1].fn.name = Demangle(f.key[1][3])
    BY <2>1, GuestFrameIs
  <2>4. g.lines[1].fn.name = Demangle(g.key[1][3])
    BY <2>2, GuestFrameIs
  <2>5. f.lines[1].fn.name = g.lines[1].fn.name
    BY <1>4, <2>3, <2>4
  <2>6. QED
    BY <1>1, <2>5
<1> HIDE DEF F, L
<1>5. Coherent(F, L, GuestFns(T, Ids))
  BY <1>1, <1>2, <1>3, <1>4, Zenon DEF Coherent
<1>6. QED
  BY <1>1, <1>5 DEF F, L

\* A sample of wasmtime's profile is worth a count and a time.
LEMMA WeighIs ==
    ASSUME NEW s, s.weight \in {None} \cup Int, s.dt \in {None} \cup Int, IntervalNs \in Int
    PROVE  Weigh("wasmtime-guest", s) \in Pair
<1> DEFINE count == IF s.weight = None THEN 1 ELSE Max({1, s.weight})
           time == IF s.dt # None /\ s.dt > 0 THEN s.dt ELSE IntervalNs
<1>1. count \in Int
  <2>1. CASE s.weight = None
    BY <2>1
  <2>2. CASE s.weight # None
    <3>1. s.weight \in Int
      BY <2>2
    <3> DEFINE w == s.weight
    <3> HIDE DEF w
    <3>2. Max({1, w}) \in {1, w}
      <4>1. \E x \in {1, w} : \A y \in {1, w} : x >= y
        BY <3>1 DEF w
      <4>2. QED
        BY <4>1 DEF Max
    <3>3. QED
      BY <2>2, <3>1, <3>2 DEF w
  <2>3. QED
    BY <2>1, <2>2
<1>2. time \in Int
  OBVIOUS
<1>3. Weigh("wasmtime-guest", s) = <<count, time>>
  BY DEF Weigh
<1> HIDE DEF count, time
<1>4. QED
  BY <1>1, <1>2, <1>3, PairIs

-----------------------------------------------------------------------------
(* The samples of wasmtime's profile.                                      *)

AllIds == UNION {StackIds(Threads[ti].stacks) : ti \in DOMAIN Threads}

\* The frames of a stack of a thread, and its names.
ThreadFrames(ti, p, thread, stack) ==
    LET fs == StackFrames(thread, stack) IN
    [j \in DOMAIN fs |-> FrameOf(ti, fs[j], FuncTable(p, thread, fs[j]))]

ThreadNames(thread, stack) ==
    LET fs == StackFrames(thread, stack) IN [j \in DOMAIN fs |-> Demangle(NameOf(thread, fs[j]))]

\* The names of a stack of wasmtime's profile.
LEMMA GuestNames ==
    ASSUME NEW ti \in DOMAIN Threads, NEW stack \in DOMAIN Threads[ti].stacks, NEW tj, NEW p,
           NEW thread, thread.stacks = Threads[ti].stacks, thread.frames = Threads[ti].frames,
           thread.funcs = Threads[ti].funcs
    PROVE  /\ ThreadFrames(tj, p, thread, stack) \in Seq(GuestFrames(DOMAIN Threads, AllIds))
           /\ StackNames(ThreadFrames(tj, p, thread, stack)) = ThreadNames(Threads[ti], stack)
<1> DEFINE T == DOMAIN Threads
           F == GuestFrames(T, AllIds)
           Ids == StackIds(Threads[ti].stacks)
           fs == StackFrames(thread, stack)
           own == StackFrames(Threads[ti], stack)
           frames == [j \in DOMAIN fs |-> FrameOf(tj, fs[j], FuncTable(p, thread, fs[j]))]
           n == Len(own)
<1>1. fs = own
  BY StackFramesOf
<1>2. own \in Seq(Ids)
  <2>1. Threads[ti].stacks \in Seq(Range(Threads[ti].stacks)) /\ Table(Threads[ti])
    BY IngestAssumption
  <2>2. stack \in 1..Len(Threads[ti].stacks)
    BY <2>1
  <2>3. QED
    BY <2>1, <2>2, StackFramesIs
<1>3. \A x \in Ids : x \in AllIds
  BY DEF AllIds
<1>4. frames = [j \in DOMAIN own |-> GuestFrame(Threads[ti], own[j])]
  <2> DEFINE A(f) == FrameOf(tj, f, FuncTable(p, thread, f))
  <2>1. \A f : A(f) = GuestFrame(Threads[ti], f)
    BY GuestFrameOf
  <2>2. frames = [j \in DOMAIN own |-> A(own[j])]
    BY <1>1
  <2> HIDE DEF A, frames, own
  <2>3. QED
    BY <2>1, <2>2
<1> HIDE DEF own, Ids, frames, fs
<1>5. n \in Nat /\ DOMAIN own = 1..n /\ \A j \in 1..n : own[j] \in Ids
  BY <1>2
<1>6. frames \in Seq(F)
  <2>1. \A j \in 1..n : GuestFrame(Threads[ti], own[j]) \in F
    <3> SUFFICES ASSUME NEW j \in 1..n PROVE GuestFrame(Threads[ti], own[j]) \in F
      OBVIOUS
    <3> DEFINE q == <<ti, own[j]>>
    <3>1. q \in T \X AllIds /\ q[1] = ti /\ q[2] = own[j]
      BY <1>3, <1>5
    <3> HIDE DEF q, T
    <3>2. QED
      BY <3>1 DEF GuestFrames
  <2> HIDE DEF F, n
  <2>2. frames \in [1..n -> F]
    BY <1>4, <1>5, <2>1
  <2>3. QED
    BY <1>5, <2>2
<1>7. \A f \in F : Len(f.lines) = 1 /\ f.lines \in Seq(Range(f.lines))
  BY GuestCoherent
<1> HIDE DEF F
<1>8. StackNames(frames) = [j \in DOMAIN frames |-> frames[j].lines[1].fn.name]
  BY <1>6, <1>7, SingleNames
<1>9. StackNames(frames) = [j \in DOMAIN own |-> Demangle(NameOf(Threads[ti], own[j]))]
  <2>1. \A j \in DOMAIN own : frames[j] = GuestFrame(Threads[ti], own[j])
    BY <1>4
  <2>2. \A j \in DOMAIN own : frames[j].lines[1].fn.name = Demangle(NameOf(Threads[ti], own[j]))
    BY <2>1, GuestFrameIs
  <2>3. DOMAIN frames = DOMAIN own
    BY <1>4
  <2>4. QED
    BY <1>8, <2>2, <2>3
<1>10. QED
  BY <1>6, <1>9 DEF frames, fs, own, F, T, ThreadFrames, ThreadNames

Timed == {i \in DOMAIN input : input[i].stack # None}

\* GuestSamplesKept follows from what the input is.
LEMMA GuestSamplesAreKept ==
    ASSUME IngestInv
    PROVE  GuestSamplesKept
<1> DEFINE T == DOMAIN Threads
           F == GuestFrames(T, AllIds)
           L == GuestLines(T, AllIds)
           G == GuestFns(T, AllIds)
           K == Len(Threads)
           X == ItemsOf(F, Pair)
           th == [i \in Timed |-> input[i].thread]
           Of1(t) == Fiber(th, Timed, t)
           own(i) == StackFrames(Threads[input[i].thread], input[i].stack)
           d == [i \in Timed |->
                   [stack |-> [j \in DOMAIN own(i) |-> Demangle(NameOf(Threads[input[i].thread], own(i)[j]))],
                    value |-> Weigh("wasmtime-guest", input[i])]]
<1> SUFFICES ASSUME Is("guest") PROVE ByStack(Result) = Tally(d)
  <2>1. Is("guest") => ByStack(Result) = Tally(d)
    OBVIOUS
  <2>2. QED
    BY <2>1, Zenon DEF GuestSamplesKept, Timed, NameOf
<1>1. kind = "guest" /\ input \in Seq(Elements["guest"]) /\ "guest" \in DOMAIN Elements
  BY DEF Is, IngestInv, InputInv
<1>2. Result = FromGuest(GuestInput)
  BY <1>1 DEF IngestInv, OutInv, Is, Result, Converted
<1>3. \A i \in DOMAIN input : GuestElement(input[i])
  <2>1. \A i \in DOMAIN input : input[i] \in Elements["guest"]
    BY <1>1
  <2>2. QED
    BY <1>1, <2>1, IngestAssumption
<1>4. Threads \in Seq(Range(Threads)) /\ IntervalNs \in Int /\ K \in Nat /\ T = 1..K
  <2>1. Threads \in Seq(Range(Threads)) /\ IntervalNs \in Int
    BY IngestAssumption
  <2>2. QED
    BY <2>1
<1>5. IsFiniteSet(Timed) /\ Timed \in SUBSET Nat
  <2>1. Timed \in SUBSET (1..Len(input)) /\ Len(input) \in Nat
    BY <1>1 DEF Timed
  <2>2. IsFiniteSet(1..Len(input))
    BY <2>1, FS_Interval
  <2>3. IsFiniteSet(Timed)
    BY <2>1, <2>2, FS_Subset
  <2>4. Timed \in SUBSET Nat
    BY <2>1
  <2>5. QED
    BY <2>3, <2>4
<1>6. Coherent(F, L, G)
  BY GuestCoherent
<1>7. ASSUME NEW i \in Timed
      PROVE  /\ input[i].thread \in T /\ input[i].stack \in DOMAIN Threads[input[i].thread].stacks
             /\ Weigh("wasmtime-guest", input[i]) \in Pair
  <2>1. GuestElement(input[i]) /\ input[i].stack # None
    BY <1>3 DEF Timed
  <2>2. QED
    BY <1>4, <2>1, WeighIs DEF GuestElement
<1> DEFINE thread(t) == GuestInput.threads[t]
           fs(t, i) == StackFrames(thread(t), thread(t).samples[i].stack)
           item(t, i) == [frames |-> [j \in DOMAIN fs(t, i) |->
                                        FrameOf(t, fs(t, i)[j], FuncTable(GuestInput, thread(t), fs(t, i)[j]))],
                          value |-> Weigh("wasmtime-guest", thread(t).samples[i])]
           timed(t) == {i \in DOMAIN thread(t).samples : thread(t).samples[i].stack # None}
           items(t) == [i \in timed(t) |-> item(t, i)]
           seqs == [t \in DOMAIN GuestInput.threads |-> Merge(items(t))]
           types == <<<<"samples", "count">>, <<"cpu", "nanoseconds">>>>
<1>8. FromGuest(GuestInput) = Profile(types, {1}, FlattenSeq(seqs))
  BY DEF FromGuest, BuildFirefox
<1>9. /\ DOMAIN GuestInput.threads = T
      /\ \A t \in T : /\ thread(t).frames = Threads[t].frames /\ thread(t).funcs = Threads[t].funcs
                      /\ thread(t).stacks = Threads[t].stacks
                      /\ thread(t).samples = [i \in {j \in DOMAIN input : input[j].thread = t} |-> input[i]]
  BY DEF GuestInput
<1> HIDE DEF thread, own, F, L, G, X
<1>10. \A t \in T : timed(t) = Of1(t) /\ \A i \in Of1(t) : thread(t).samples[i] = input[i]
  <2> SUFFICES ASSUME NEW t \in T
               PROVE  timed(t) = Of1(t) /\ \A i \in Of1(t) : thread(t).samples[i] = input[i]
    OBVIOUS
  <2> DEFINE s == thread(t).samples
             I == {j \in DOMAIN input : input[j].thread = t}
  <2>1. s = [i \in I |-> input[i]]
    BY <1>9
  <2>2. DOMAIN s = I /\ \A i \in I : s[i] = input[i]
    BY <2>1
  <2>3. Of1(t) = {i \in I : input[i].stack # None}
    BY DEF Fiber, Timed
  <2> HIDE DEF s, I, Of1
  <2>4. {i \in DOMAIN s : s[i].stack # None} = Of1(t)
    BY <2>2, <2>3
  <2>5. \A i \in Of1(t) : s[i] = input[i]
    BY <2>2, <2>3
  <2>6. QED
    BY <2>4, <2>5 DEF s
<1> HIDE DEF timed
<1>11. \A t \in T : \A i \in Of1(t) : i \in Timed /\ input[i].thread = t
  BY DEF Fiber
<1> HIDE DEF Of1
<1>12. ASSUME NEW t \in T, NEW i \in Of1(t)
       PROVE  /\ item(t, i) \in X
              /\ StackNames(item(t, i).frames) = d[i].stack /\ item(t, i).value = d[i].value
  <2>1. i \in Timed /\ input[i].thread = t
    BY <1>11
  <2>2. thread(t).samples[i] = input[i]
    BY <1>10
  <2>3. fs(t, i) = StackFrames(thread(t), input[i].stack)
    BY <2>2
  <2>4. input[i].stack \in DOMAIN Threads[t].stacks /\ Weigh("wasmtime-guest", input[i]) \in Pair
    BY <1>7, <2>1
  <2> DEFINE fr == [j \in DOMAIN fs(t, i) |->
                      FrameOf(t, fs(t, i)[j], FuncTable(GuestInput, thread(t), fs(t, i)[j]))]
             st == input[i].stack
             sf == StackFrames(thread(t), st)
             to == StackFrames(Threads[t], st)
             gr == [j \in DOMAIN sf |-> FrameOf(t, sf[j], FuncTable(GuestInput, thread(t), sf[j]))]
  <2>5. fr = gr
    <3> HIDE DEF sf, fs
    <3>1. fs(t, i) = sf
      BY <2>3 DEF sf
    <3>2. QED
      BY <3>1, Zenon
  <2> HIDE DEF fr, st
  <2>6. /\ gr \in Seq(F)
        /\ StackNames(gr) = [j \in DOMAIN to |-> Demangle(NameOf(Threads[t], to[j]))]
    <3>1. st \in DOMAIN Threads[t].stacks
      BY <2>4 DEF st
    <3>2. /\ thread(t).stacks = Threads[t].stacks /\ thread(t).frames = Threads[t].frames
          /\ thread(t).funcs = Threads[t].funcs
      BY <1>9
    <3>3. /\ ThreadFrames(t, GuestInput, thread(t), st) \in Seq(GuestFrames(T, AllIds))
          /\ StackNames(ThreadFrames(t, GuestInput, thread(t), st)) = ThreadNames(Threads[t], st)
      <4> HIDE DEF sf, to, gr
      <4> QED
        BY <3>1, <3>2, GuestNames
    <3>4. ThreadFrames(t, GuestInput, thread(t), st) = gr /\ ThreadNames(Threads[t], st)
            = [j \in DOMAIN to |-> Demangle(NameOf(Threads[t], to[j]))]
      BY DEF ThreadFrames, ThreadNames
    <3> HIDE DEF gr, to
    <3>5. QED
      BY <3>3, <3>4 DEF F
  <2> HIDE DEF gr
  <2>7. own(i) = to
    BY <2>1 DEF own, st
  <2>8. d[i].stack = [j \in DOMAIN to |-> Demangle(NameOf(Threads[t], to[j]))]
    <3>1. d[i].stack = [j \in DOMAIN own(i) |-> Demangle(NameOf(Threads[input[i].thread], own(i)[j]))]
      BY <2>1
    <3> HIDE DEF d, to
    <3>2. QED
      BY <2>1, <2>7, <3>1
  <2>9. d[i].value = Weigh("wasmtime-guest", input[i])
    BY <2>1
  <2>10. item(t, i) = [frames |-> fr, value |-> Weigh("wasmtime-guest", input[i])]
    BY <2>2 DEF fr
  <2> HIDE DEF d, to, item
  <2>11. item(t, i) \in X
    BY <2>4, <2>5, <2>6, <2>10 DEF X, ItemsOf
  <2>12. item(t, i).frames = fr /\ item(t, i).value = Weigh("wasmtime-guest", input[i])
    BY <2>10
  <2>13. QED
    BY <2>5, <2>6, <2>8, <2>9, <2>11, <2>12
<1>13. ASSUME NEW t \in T
       PROVE  /\ Merge(items(t)) \in Seq(X)
              /\ GathersAll(Credits(Merge(items(t))), 1..Len(Merge(items(t))), Portion(d, Of1(t)), Of1(t))
  <2> HIDE DEF item, d
  <2>1. items(t) = [i \in Of1(t) |-> item(t, i)]
    BY <1>10
  <2> DEFINE it == items(t)
             I == Of1(t)
  <2> HIDE DEF it, items
  <2>2. it \in [I -> X] /\ DOMAIN it = I
    BY <1>12, <2>1 DEF it
  <2>3. I \in SUBSET Nat /\ IsFiniteSet(I)
    <3>1. I \in SUBSET Timed
      BY <1>11
    <3>2. QED
      BY <1>5, <3>1, FS_Subset
  <2>4. /\ Merge(it) \in Seq(X)
        /\ GathersAll(Credits(Merge(it)), 1..Len(Merge(it)), Credits(it), I)
    <3> HIDE DEF I
    <3>1. it \in [I -> ItemsOf(F, Pair)]
      BY <2>2 DEF X
    <3>2. QED
      BY <1>6, <2>3, <3>1, MergeGathers DEF X
  <2>5. Credits(it) = Portion(d, I)
    <3>1. Credits(it) = [i \in I |-> [stack |-> StackNames(it[i].frames), value |-> it[i].value]]
      BY <2>2 DEF Credits
    <3>2. \A i \in I : it[i] = item(t, i)
      BY <2>1 DEF it
    <3>3. \A i \in I : d[i] = [stack |-> d[i].stack, value |-> d[i].value]
      <4>1. \A i \in I : i \in Timed
        BY <1>11
      <4>2. QED
        BY <4>1 DEF d
    <3>4. \A i \in I : [stack |-> StackNames(it[i].frames), value |-> it[i].value] = d[i]
      BY <1>12, <3>2, <3>3
    <3> HIDE DEF I
    <3>5. QED
      BY <3>1, <3>4 DEF Portion
  <2>6. QED
    BY <2>4, <2>5 DEF it
<1> HIDE DEF items, d, item
<1>14. seqs \in Seq(Seq(X)) /\ Len(seqs) = K /\ \A t \in T : seqs[t] = Merge(items(t))
  <2>1. seqs = [t \in 1..K |-> Merge(items(t))]
    BY <1>4, <1>9
  <2> HIDE DEF seqs
  <2>2. seqs \in [1..K -> Seq(X)]
    BY <1>4, <1>13, <2>1
  <2>3. QED
    BY <1>4, <2>1, <2>2
<1> HIDE DEF seqs
<1>15. th \in [Timed -> 1..K]
  BY <1>4, <1>7
<1>16. DOMAIN d = Timed
  BY DEF d
<1>17. GathersAll(Credits(FlattenSeq(seqs)), 1..Len(FlattenSeq(seqs)), d, Timed)
  <2>1. \A t \in 1..Len(seqs) :
           GathersAll(Credits(seqs[t]), 1..Len(seqs[t]), Portion(d, Fiber(th, Timed, t)), Fiber(th, Timed, t))
    BY <1>4, <1>13, <1>14 DEF Of1
  <2> HIDE DEF th
  <2>2. th \in [Timed -> 1..Len(seqs)]
    BY <1>14, <1>15
  <2>3. QED
    BY <1>5, <1>14, <1>16, <2>1, <2>2, JoinedGathers
<1>18. Tally(Credits(FlattenSeq(seqs))) = Tally(d)
  BY <1>17, TallyParts DEF GathersAll
<1>19. FlattenSeq(seqs) \in Seq(X)
  BY <1>14, FlattenType
<1>20. ByStack(Profile(types, {1}, FlattenSeq(seqs))) = Tally(Credits(FlattenSeq(seqs)))
  <2> DEFINE all == FlattenSeq(seqs)
  <2> HIDE DEF all, types
  <2>1. all \in Seq(ItemsOf(F, Pair))
    BY <1>19 DEF X, all
  <2>2. ByStack(Profile(types, {1}, all)) = Tally(Credits(all))
    BY <1>6, <2>1, ProfileReads, Zenon
  <2>3. QED
    BY <2>2 DEF all
<1>21. FromGuest(GuestInput) = Profile(types, {1}, FlattenSeq(seqs))
  BY <1>8 DEF seqs, items, item, timed, thread
<1>22. QED
  BY <1>2, <1>18, <1>20, <1>21, Zenon

\* wasmtime's profile: each sample is credited, with its time, to the names that
\* its own thread's tables have for its stack, whatever the threads are.
THEOREM GuestSamplesAlwaysKept == Spec => []GuestSamplesKept
<1>1. IngestInv => GuestSamplesKept
  BY GuestSamplesAreKept
<1>2. QED
  BY <1>1, CapturesWellFormed, PTL

-----------------------------------------------------------------------------
(* Sequences in order, and what is taken of each element.                  *)

\* One element more, greater than the others, comes last.
LEMMA InOrderMore ==
    ASSUME NEW S \in SUBSET Int, IsFiniteSet(S), NEW z \in Int, \A x \in S : x < z
    PROVE  InOrder(S \cup {z}) = Append(InOrder(S), z)
<1> DEFINE T == S \cup {z}
           n == Cardinality(S)
           Upto(X, x) == {y \in X : y <= x}
           s == InOrder(S)
           t == InOrder(T)
<1>1. n \in Nat /\ IsFiniteSet(T) /\ Cardinality(T) = n + 1 /\ z \notin S
  <2>1. z \notin S
    OBVIOUS
  <2>2. QED
    BY <2>1, FS_AddElement, FS_CardinalityType
<1>2. s \in Seq(S) /\ Len(s) = n /\ s = [m \in 1..n |-> s[m]]
  <2>1. Ascends(s, n, S)
    BY InOrderIs
  <2> HIDE DEF s, n
  <2>2. s \in [1..n -> S]
    BY <2>1 DEF Ascends, Orders
  <2>3. QED
    BY <1>1, <2>2
<1>3. ASSUME NEW x \in S
      PROVE  Upto(T, x) = Upto(S, x) /\ Cardinality(Upto(S, x)) \in 0..n
  <2>1. Upto(T, x) = Upto(S, x)
    OBVIOUS
  <2>2. Upto(S, x) \subseteq S
    OBVIOUS
  <2> HIDE DEF Upto
  <2>3. Cardinality(Upto(S, x)) <= n /\ IsFiniteSet(Upto(S, x))
    BY <2>2, FS_Subset
  <2>4. Cardinality(Upto(S, x)) \in Nat
    BY <2>3, FS_CardinalityType
  <2>5. QED
    BY <1>1, <2>1, <2>3, <2>4
<1>4. Upto(T, z) = T
  <2>1. \A y \in S : y <= z
    OBVIOUS
  <2>2. z <= z
    OBVIOUS
  <2>3. \A y \in T : y <= z
    BY <2>1, <2>2
  <2> HIDE DEF T
  <2>4. QED
    BY <2>3
<1> HIDE DEF Upto
<1> DEFINE At1(m, x) == Cardinality(Upto(S, x)) = m
           At2(m, x) == Cardinality(Upto(T, x)) = m
<1>5. s = [m \in 1..n |-> CHOOSE x \in S : At1(m, x)]
  BY DEF InOrder, Upto
<1>6. t = [m \in 1..(n + 1) |-> CHOOSE x \in T : At2(m, x)]
  BY <1>1 DEF InOrder, Upto
<1> HIDE DEF T, s, t, n
<1>7. ASSUME NEW m \in 1..n PROVE t[m] = s[m]
  <2>1. {x \in T : At2(m, x)} = {x \in S : At1(m, x)}
    <3>1. ~At2(m, z)
      BY <1>1, <1>4
    <3>2. \A x \in S : At2(m, x) <=> At1(m, x)
      BY <1>3
    <3>3. T = S \cup {z}
      BY DEF T
    <3> HIDE DEF At1, At2
    <3>4. QED
      BY <3>1, <3>2, <3>3
  <2>2. m \in 1..(n + 1)
    BY <1>1
  <2>3. t[m] = CHOOSE x \in T : At2(m, x)
    BY <1>6, <2>2
  <2>4. s[m] = CHOOSE x \in S : At1(m, x)
    BY <1>5
  <2>5. (CHOOSE x \in T : At2(m, x)) = (CHOOSE x : x \in {y \in T : At2(m, y)})
    BY Zenon
  <2> HIDE DEF At1, At2
  <2>6. (CHOOSE x \in T : At2(m, x)) = (CHOOSE x \in S : At1(m, x))
    BY <2>1
  <2>7. QED
    BY <2>3, <2>4, <2>6
<1>8. t[n + 1] = z
  <2>1. n + 1 \in 1..(n + 1)
    BY <1>1
  <2>2. t[n + 1] = CHOOSE x \in T : At2(n + 1, x)
    BY <1>6, <2>1
  <2>3. z \in T /\ At2(n + 1, z)
    BY <1>1, <1>4 DEF T
  <2>4. \A x \in S : ~At2(n + 1, x)
    BY <1>1, <1>3
  <2>5. \A x \in T : At2(n + 1, x) => x = z
    BY <2>4 DEF T
  <2> HIDE DEF At2
  <2>6. QED
    BY <2>2, <2>3, <2>5
<1>9. t = [m \in 1..(n + 1) |-> t[m]]
  BY <1>6
<1>10. DOMAIN Append(s, z) = 1..(n + 1) /\ Append(s, z) = [m \in 1..(n + 1) |-> Append(s, z)[m]]
       /\ Append(s, z)[n + 1] = z /\ \A m \in 1..n : Append(s, z)[m] = s[m]
  BY <1>1, <1>2
<1>11. \A m \in 1..(n + 1) : t[m] = Append(s, z)[m]
  BY <1>1, <1>7, <1>8, <1>10
<1>12. t = Append(s, z)
  BY <1>9, <1>10, <1>11
<1>13. QED
  BY <1>12 DEF t, s, T

\* What r has for the elements of a sequence.
Each(s, r) == [m \in DOMAIN s |-> r[s[m]]]

EachOf(s, r, Y) ==
    /\ Each(s, r) \in Seq(Y) /\ Len(Each(s, r)) = Len(s)
    /\ \A m \in 1..Len(s) : Each(s, r)[m] = r[s[m]]

\* It is a sequence as long.
LEMMA EachIs ==
    ASSUME NEW X, NEW s \in Seq(X), NEW Y, NEW r, \A x \in X : r[x] \in Y
    PROVE  EachOf(s, r, Y)
<1> DEFINE n == Len(s)
           u == Each(s, r)
<1>1. n \in Nat /\ DOMAIN s = 1..n /\ \A m \in 1..n : s[m] \in X
  OBVIOUS
<1>2. u = [m \in 1..n |-> r[s[m]]]
  BY <1>1 DEF Each
<1> HIDE DEF u, n
<1>3. u \in [1..n -> Y] /\ \A m \in 1..n : u[m] = r[s[m]]
  BY <1>1, <1>2
<1>4. u \in Seq(Y) /\ Len(u) = n
  BY <1>1, <1>3
<1>5. QED
  BY <1>3, <1>4 DEF u, n, EachOf

\* Only what it has for them matters.
LEMMA EachSame ==
    ASSUME NEW X, NEW s \in Seq(X), NEW r, NEW q, \A x \in X : r[x] = q[x]
    PROVE  Each(s, r) = Each(s, q)
<1>1. \A m \in DOMAIN s : s[m] \in X
  OBVIOUS
<1>2. QED
  BY <1>1 DEF Each

\* One element more.
LEMMA EachMore ==
    ASSUME NEW X, NEW s \in Seq(X), NEW z, NEW Y, NEW r, \A x \in X : r[x] \in Y, r[z] \in Y
    PROVE  Each(Append(s, z), r) = Append(Each(s, r), r[z])
<1> DEFINE n == Len(s)
           a == Append(s, z)
           u == Each(s, r)
           v == Each(a, r)
           Z == X \cup {z}
           b == Append(u, r[z])
<1>1. s \in Seq(Z) /\ a \in Seq(Z) /\ n \in Nat /\ Len(a) = n + 1
      /\ a[n + 1] = z /\ \A m \in 1..n : a[m] = s[m]
  OBVIOUS
<1>2. \A x \in Z : r[x] \in Y
  OBVIOUS
<1> HIDE DEF a, Z
<1>3. EachOf(s, r, Y) /\ EachOf(a, r, Y)
  BY <1>1, <1>2, EachIs
<1>4. /\ u \in Seq(Y) /\ Len(u) = n /\ \A m \in 1..n : u[m] = r[s[m]]
      /\ v \in Seq(Y) /\ Len(v) = n + 1 /\ \A m \in 1..(n + 1) : v[m] = r[a[m]]
  BY <1>1, <1>3 DEF EachOf
<1> HIDE DEF n, u, v
<1>5. b \in Seq(Y) /\ Len(b) = n + 1 /\ b[n + 1] = r[z] /\ \A m \in 1..n : b[m] = u[m]
  BY <1>4
<1> HIDE DEF b
<1>6. ASSUME NEW m \in 1..(n + 1) PROVE v[m] = b[m]
  <2>1. v[m] = r[a[m]]
    BY <1>4
  <2>2. CASE m = n + 1
    BY <1>1, <1>5, <2>1, <2>2
  <2>3. CASE m # n + 1
    <3>1. m \in 1..n
      BY <1>1, <2>3
    <3>2. QED
      BY <1>1, <1>4, <1>5, <2>1, <3>1
  <2>4. QED
    BY <2>2, <2>3
<1>7. v = b
  BY <1>1, <1>4, <1>5, <1>6
<1>8. QED
  BY <1>7 DEF v, b, u, a

-----------------------------------------------------------------------------
(* The lines of perf script.                                               *)

PerfStates(E) == [samples : Seq(PerfSamples(E)), current : {None} \cup PerfSamples(E)]

\* The samples so far, the open one with them.
AllOf(st) == Flush(st).samples

PeriodOf(line) == IF line.period = None THEN 1 ELSE line.period
Opened(line) == [stack |-> <<>>, period |-> PeriodOf(line)]

\* Flushed, no sample is open, and the open one is the last.
LEMMA FlushIs ==
    ASSUME NEW E, None \notin PerfSamples(E), NEW st \in PerfStates(E)
    PROVE  /\ Flush(st) \in PerfStates(E) /\ Flush(st).current = None
           /\ AllOf(st) \in Seq(PerfSamples(E))
           /\ st.current = None => Flush(st) = st /\ AllOf(st) = st.samples
           /\ st.current # None => st.current \in PerfSamples(E) /\ AllOf(st) = Append(st.samples, st.current)
<1> DEFINE P == PerfSamples(E)
<1>1. st.samples \in Seq(P) /\ st.current \in {None} \cup P
  BY DEF PerfStates
<1>2. CASE st.current = None
  <2>1. Flush(st) = st
    BY <1>2 DEF Flush
  <2>2. QED
    BY <1>1, <1>2, <2>1 DEF AllOf
<1>3. CASE st.current # None
  <2>1. Flush(st) = [samples |-> Append(st.samples, st.current), current |-> None]
    BY <1>3 DEF Flush
  <2>2. st.current \in P
    BY <1>1, <1>3
  <2> HIDE DEF P
  <2>3. Append(st.samples, st.current) \in Seq(P)
    BY <1>1, <2>2
  <2>4. QED
    BY <1>3, <2>1, <2>2, <2>3 DEF AllOf, PerfStates, P
<1>4. QED
  BY <1>2, <1>3

\* What a line does.
ParsesLine(st, line, q) ==
    LET n == Len(AllOf(st)) IN
    CASE line.t = "blank" -> q.current = None /\ AllOf(q) = AllOf(st)
      [] line.t = "header" -> q.current # None /\ AllOf(q) = Append(AllOf(st), Opened(line))
      [] line.t = "frame" /\ st.current # None ->
            /\ q.current # None /\ n > 0 /\ Len(AllOf(q)) = n
            /\ \A i \in 1..(n - 1) : AllOf(q)[i] = AllOf(st)[i]
            /\ AllOf(q)[n] = [stack |-> Append(AllOf(st)[n].stack, ParseFrame(line)),
                              period |-> AllOf(st)[n].period]
      [] OTHER -> q = st

\* A line keeps the state of the parser, and does what its type says.
LEMMA ParseLineIs ==
    ASSUME NEW E, None \notin PerfSamples(E), NEW st \in PerfStates(E), NEW line \in E, PerfElement(line)
    PROVE  ParseLine(st, line) \in PerfStates(E) /\ ParsesLine(st, line, ParseLine(st, line))
<1> DEFINE P == PerfSamples(E)
           q == ParseLine(st, line)
           a == AllOf(st)
           S == PerfStates(E)
<1>1. st.samples \in Seq(P) /\ st.current \in {None} \cup P /\ None \notin P
  BY DEF PerfStates
<1>2. /\ Flush(st) \in S /\ Flush(st).current = None /\ a \in Seq(P) /\ Flush(st).samples = a
      /\ st.current # None => st.current \in P /\ a = Append(st.samples, st.current)
  BY FlushIs DEF AllOf
<1>3. CASE line.t = "blank"
  <2>1. q = Flush(st)
    BY <1>3 DEF ParseLine
  <2>2. AllOf(q) = q.samples
    BY <1>2, <2>1 DEF AllOf, Flush
  <2>3. QED
    BY <1>2, <1>3, <2>1, <2>2 DEF ParsesLine
<1>4. CASE line.t = "header"
  <2> DEFINE o == Opened(line)
  <2>1. o \in P
    <3>1. PeriodOf(line) \in Nat
      BY <1>4 DEF PerfElement, PeriodOf
    <3>2. QED
      BY <3>1 DEF Opened, PerfSamples
  <2>2. q = [Flush(st) EXCEPT !.current = o]
    BY <1>4 DEF ParseLine, Opened, PeriodOf
  <2> HIDE DEF o, q, P
  <2>3. q.samples = a /\ q.current = o /\ q \in S
    <3>1. q = [samples |-> a, current |-> o]
      BY <1>2, <2>2 DEF PerfStates
    <3>2. QED
      BY <1>2, <2>1, <3>1 DEF PerfStates, P
  <2>4. AllOf(q) = Append(a, o)
    BY <1>1, <2>1, <2>3 DEF AllOf, Flush
  <2>5. QED
    BY <1>1, <1>4, <2>1, <2>3, <2>4 DEF ParsesLine, q, o
<1>5. CASE line.t = "frame" /\ st.current # None
  <2> DEFINE c == st.current
             f == ParseFrame(line)
             d == [stack |-> Append(c.stack, f), period |-> c.period]
             n == Len(a)
  <2>1. c \in P /\ a = Append(st.samples, c)
    BY <1>2, <1>5
  <2>2. d \in P
    <3>1. f \in {ParseFrame(e) : e \in {l \in E : l.t = "frame"}}
      BY <1>5
    <3> HIDE DEF f
    <3>2. QED
      BY <2>1, <3>1 DEF PerfSamples
  <2>3. q = [st EXCEPT !.current.stack = Append(@, f)]
    BY <1>5 DEF ParseLine
  <2>4. [c EXCEPT !.stack = Append(@, f)] = d
    <3> DEFINE X == Append(c.stack, f)
               D == {ParseFrame(e) : e \in {l \in E : l.t = "frame"}}
    <3>1. c \in [stack : Seq(D), period : Nat]
      BY <2>1 DEF PerfSamples
    <3> HIDE DEF c, f, X, D
    <3>2. [c EXCEPT !.stack = X] = [stack |-> X, period |-> c.period]
      BY <3>1
    <3>3. QED
      BY <3>2 DEF X
  <2>5. q = [samples |-> st.samples, current |-> d]
    BY <2>3, <2>4 DEF PerfStates
  <2> HIDE DEF q, d, c, f, P
  <2>6. q.samples = st.samples /\ q.current = d /\ q \in S
    BY <1>1, <2>2, <2>5 DEF PerfStates, P
  <2>7. AllOf(q) = Append(st.samples, d)
    BY <1>1, <2>2, <2>6 DEF AllOf, Flush
  <2> DEFINE u == AllOf(q)
  <2> HIDE DEF a, u
  <2>8. /\ n = Len(st.samples) + 1 /\ Len(u) = n /\ a[n] = c /\ u[n] = d /\ n > 0
        /\ \A i \in 1..(n - 1) : u[i] = a[i]
    BY <1>1, <2>1, <2>2, <2>7 DEF u
  <2>9. d = [stack |-> Append(a[n].stack, f), period |-> a[n].period]
    BY <2>8 DEF d
  <2>10. q.current # None
    BY <1>1, <2>2, <2>6
  <2>11. QED
    BY <1>5, <2>6, <2>8, <2>9, <2>10 DEF ParsesLine, a, u, f, q
<1>6. CASE line.t \notin {"blank", "header"} /\ ~(line.t = "frame" /\ st.current # None)
  <2>1. q = st
    BY <1>6 DEF ParseLine
  <2>2. QED
    BY <1>6, <2>1 DEF ParsesLine
<1>7. QED
  BY <1>3, <1>4, <1>5, <1>6

ParseLines(st, lines) == FoldLeft(ParseLine, st, lines)

\* The lines, one after the other.
LEMMA ParseLinesSteps ==
    ASSUME NEW E, None \notin PerfSamples(E), \A e \in E : PerfElement(e),
           NEW p \in PerfStates(E), NEW lines \in Seq(E)
    PROVE  \E g \in [0..Len(lines) -> PerfStates(E)] :
               /\ g[0] = p /\ \A k \in 1..Len(lines) : g[k] = ParseLine(g[k - 1], lines[k])
               /\ ParseLines(p, lines) = g[Len(lines)]
<1> DEFINE n == Len(lines)
           V == PerfStates(E)
           Op(v, k) == ParseLine(v, lines[k])
           step == [d \in (1..n) \X V |-> Op(d[2], d[1])]
           Iter(d) == d = [s \in SUBSET (1..n) |->
                              IF s = {} THEN p ELSE Op(d[s \ {Max(s)}], Max(s))]
           c == CHOOSE d : Iter(d)
<1>1. n \in Nat /\ DOMAIN lines = 1..n /\ p \in V
  OBVIOUS
<1>2. \A v \in V, k \in 1..n : Op(v, k) \in V
  <2> SUFFICES ASSUME NEW v \in V, NEW k \in 1..n PROVE ParseLine(v, lines[k]) \in V
    OBVIOUS
  <2>1. lines[k] \in E /\ PerfElement(lines[k])
    OBVIOUS
  <2> HIDE DEF n
  <2>2. QED
    BY <2>1, ParseLineIs
<1>3. step \in [(1..n) \X V -> V] /\ \A v \in V, k \in 1..n : step[<<k, v>>] = Op(v, k)
  <2> HIDE DEF V, n, Op
  <2> QED
    BY <1>2
<1>4. \A s \in SUBSET (1..n) : s # {} => Max(s) \in 1..n
  BY <1>1, MaxIs
<1> HIDE DEF V, n, Op, step
<1>5. Iter(c)
  <2>1. PICK iter \in [SUBSET (1..n) -> V] : Folds(iter, p, step, n)
    BY <1>1, <1>3, FoldsExist
  <2>2. \A s \in SUBSET (1..n) : iter[s] = IF s = {} THEN p ELSE Op(iter[s \ {Max(s)}], Max(s))
    BY <1>3, <1>4, <2>1 DEF Folds
  <2>3. Iter(iter)
    BY <2>2
  <2>4. QED
    BY <2>3
<1> HIDE DEF c
<1>6. c[{}] = p
  BY <1>5
<1>7. \A s \in SUBSET (1..n) : s # {} /\ c[s \ {Max(s)}] \in V =>
          c[s] = step[<<Max(s), c[s \ {Max(s)}]>>]
  BY <1>3, <1>4, <1>5
<1> HIDE DEF Iter
<1>8. PICK g \in [0..n -> V] : Recurs(g, p, step, n) /\ c[1..n] = g[n]
  <2>1. n \in Nat /\ p \in V /\ step \in [(1..n) \X V -> V]
    BY <1>1, <1>3
  <2>2. FoldsIn(c, p, step, n, V)
    BY <1>6, <1>7, Zenon DEF FoldsIn
  <2>3. Yields(c, p, step, n, V)
    BY <2>1, <2>2, FoldIs
  <2>4. QED
    BY <2>3 DEF Yields
<1>9. \A k \in 1..n : g[k] = Op(g[k - 1], k)
  <2> SUFFICES ASSUME NEW k \in 1..n PROVE g[k] = Op(g[k - 1], k)
    OBVIOUS
  <2>1. g[k - 1] \in V
    BY <1>1
  <2>2. g[k] = step[<<k, g[k - 1]>>]
    BY <1>8 DEF Recurs
  <2>3. QED
    BY <1>3, <2>1, <2>2
<1>10. ParseLines(p, lines) = c[1..n]
  <2>1. ParseLines(p, lines) =
          (CHOOSE iter : iter = [s \in SUBSET DOMAIN lines |->
              IF s = {} THEN p ELSE ParseLine(iter[s \ {Max(s)}], lines[Max(s)])])[DOMAIN lines]
    BY DEF ParseLines, FoldLeft, MapThenFoldSet
  <2>2. QED
    BY <1>1, <2>1 DEF c, Op, Iter
<1>11. QED
  BY <1>8, <1>9, <1>10 DEF n, V, Op, Recurs

\* No sample under h ends before k.
Open(lines, h, k) == \A i \in (h + 1)..k : lines[i].t \notin {"blank", "header"}
Under(lines, h, k) == {j \in (h + 1)..k : lines[j].t = "frame" /\ Open(lines, h, j)}
Hdr(lines, k) == {h \in 1..k : lines[h].t = "header"}
FrameAt(lines) == [i \in DOMAIN lines |-> ParseFrame(lines[i])]
SampleAt(lines, h, k) ==
    [stack |-> Each(InOrder(Under(lines, h, k)), FrameAt(lines)), period |-> PeriodOf(lines[h])]

\* After k lines, hs are the headers of the samples so far.
ParsedTo(lines, k, st, hs) ==
    /\ hs \in Seq(Nat) /\ Len(hs) = Len(AllOf(st))
    /\ \A i \in 1..Len(hs) : hs[i] \in Hdr(lines, k)
    /\ \A h \in Hdr(lines, k) : \E i \in 1..Len(hs) : hs[i] = h
    /\ \A i, j \in 1..Len(hs) : hs[i] = hs[j] => i = j
    /\ \A i \in 1..Len(hs) : AllOf(st)[i] = SampleAt(lines, hs[i], k)
    /\ \A i \in 1..Len(hs) : Open(lines, hs[i], k) <=> st.current # None /\ i = Len(hs)

\* One line more.
LEMMA UnderMore ==
    ASSUME NEW lines, NEW k \in Nat, NEW h \in Nat, h <= k
    PROVE  /\ Open(lines, h, k + 1) <=> Open(lines, h, k) /\ lines[k + 1].t \notin {"blank", "header"}
           /\ Under(lines, h, k + 1) = IF lines[k + 1].t = "frame" /\ Open(lines, h, k)
                                       THEN Under(lines, h, k) \cup {k + 1} ELSE Under(lines, h, k)
           /\ Hdr(lines, k + 1) = IF lines[k + 1].t = "header" THEN Hdr(lines, k) \cup {k + 1} ELSE Hdr(lines, k)
<1>1. /\ (h + 1)..(k + 1) = ((h + 1)..k) \cup {k + 1} /\ k + 1 \notin (h + 1)..k
      /\ 1..(k + 1) = (1..k) \cup {k + 1}
  OBVIOUS
<1>2. Open(lines, h, k + 1) <=> Open(lines, h, k) /\ lines[k + 1].t \notin {"blank", "header"}
  BY <1>1 DEF Open
<1>3. Hdr(lines, k + 1) = IF lines[k + 1].t = "header" THEN Hdr(lines, k) \cup {k + 1} ELSE Hdr(lines, k)
  BY <1>1 DEF Hdr
<1>4. lines[k + 1].t = "frame" => (Open(lines, h, k + 1) <=> Open(lines, h, k))
  BY <1>2
<1>5. Under(lines, h, k + 1) = IF lines[k + 1].t = "frame" /\ Open(lines, h, k)
                               THEN Under(lines, h, k) \cup {k + 1} ELSE Under(lines, h, k)
  BY <1>1, <1>4 DEF Under
<1>6. QED
  BY <1>2, <1>3, <1>5

\* A frame more under an open header.
LEMMA SampleMore ==
    ASSUME NEW E, NEW lines \in Seq(E), NEW k \in Nat, k < Len(lines), NEW h \in Nat, h <= k
    PROVE  IF lines[k + 1].t = "frame" /\ Open(lines, h, k)
           THEN SampleAt(lines, h, k + 1) =
                  [stack |-> Append(SampleAt(lines, h, k).stack, ParseFrame(lines[k + 1])),
                   period |-> SampleAt(lines, h, k).period]
           ELSE SampleAt(lines, h, k + 1) = SampleAt(lines, h, k)
<1> DEFINE U == Under(lines, h, k)
           r == FrameAt(lines)
           Y == Range(r)
<1>1. CASE lines[k + 1].t = "frame" /\ Open(lines, h, k)
  <2>1. Under(lines, h, k + 1) = U \cup {k + 1}
    BY <1>1, UnderMore
  <2>2. U \in SUBSET ((h + 1)..k) /\ IsFiniteSet((h + 1)..k)
    <3>1. U \in SUBSET ((h + 1)..k)
      BY DEF Under
    <3>2. h + 1 \in Int /\ k \in Int
      OBVIOUS
    <3>3. QED
      BY <3>1, <3>2, FS_Interval
  <2>3. U \in SUBSET Int /\ IsFiniteSet(U) /\ k + 1 \in Int /\ \A x \in U : x < k + 1
    BY <2>2, FS_Subset
  <2>4. \A x \in U : r[x] \in Y
    BY <2>2 DEF FrameAt, Range
  <2>5. r[k + 1] \in Y /\ r[k + 1] = ParseFrame(lines[k + 1])
    BY DEF FrameAt, Range
  <2> HIDE DEF U, r, Y
  <2>6. InOrder(U \cup {k + 1}) = Append(InOrder(U), k + 1)
    BY <2>3, InOrderMore
  <2>7. InOrder(U) \in Seq(U)
    <3> DEFINE s == InOrder(U)
               n == Cardinality(U)
    <3>1. Ascends(s, n, U)
      BY <2>3, InOrderIs
    <3>2. n \in Nat
      BY <2>3, FS_CardinalityType
    <3> HIDE DEF s, n
    <3>3. s \in [1..n -> U]
      BY <3>1 DEF Ascends, Orders
    <3>4. QED
      BY <3>2, <3>3 DEF s
  <2>8. Each(Append(InOrder(U), k + 1), r) = Append(Each(InOrder(U), r), r[k + 1])
    BY <2>4, <2>5, <2>7, EachMore
  <2>9. QED
    BY <1>1, <2>1, <2>5, <2>6, <2>8 DEF SampleAt, U, r
<1>2. CASE ~(lines[k + 1].t = "frame" /\ Open(lines, h, k))
  <2>1. Under(lines, h, k + 1) = U
    BY <1>2, UnderMore
  <2>2. QED
    BY <1>2, <2>1 DEF SampleAt
<1>3. QED
  BY <1>1, <1>2

\* Under a header that was just read there is nothing yet.
LEMMA NewSample ==
    ASSUME NEW lines, NEW k \in Nat
    PROVE  Open(lines, k, k) /\ SampleAt(lines, k, k) = Opened(lines[k])
<1>1. (k + 1)..k = {}
  OBVIOUS
<1>2. Open(lines, k, k) /\ Under(lines, k, k) = {}
  BY <1>1 DEF Open, Under
<1>3. InOrder({}) = <<>>
  <2>1. Cardinality({}) = 0
    BY FS_EmptySet
  <2>2. QED
    BY <2>1 DEF InOrder
<1>4. Each(<<>>, FrameAt(lines)) = <<>>
  BY DEF Each
<1>5. QED
  BY <1>2, <1>3, <1>4 DEF SampleAt, Opened

\* One line more.
LEMMA ParsedMore ==
    ASSUME NEW E, None \notin PerfSamples(E), NEW lines \in Seq(E), NEW k \in Nat, k < Len(lines),
           PerfElement(lines[k + 1]), NEW st \in PerfStates(E), NEW hs, ParsedTo(lines, k, st, hs)
    PROVE  \E g : ParsedTo(lines, k + 1, ParseLine(st, lines[k + 1]), g)
<1> DEFINE m == k + 1
           line == lines[m]
           q == ParseLine(st, line)
           a == AllOf(st)
           b == AllOf(q)
           n == Len(hs)
           At1(h) == SampleAt(lines, h, k)
           At2(h) == SampleAt(lines, h, m)
           grown(s) == [stack |-> Append(s.stack, ParseFrame(line)), period |-> s.period]
           P == PerfSamples(E)
<1>1. /\ m \in 1..Len(lines) /\ line \in E /\ n \in Nat /\ hs \in Seq(Nat) /\ n = Len(a)
      /\ \A i \in 1..n : hs[i] \in Hdr(lines, k) /\ hs[i] \in Nat /\ hs[i] <= k /\ hs[i] < m
      /\ m \in Nat
  BY DEF ParsedTo, Hdr
<1>2. /\ \A h \in Hdr(lines, k) : \E i \in 1..n : hs[i] = h
      /\ \A i, j \in 1..n : hs[i] = hs[j] => i = j
      /\ \A i \in 1..n : a[i] = At1(hs[i])
      /\ \A i \in 1..n : Open(lines, hs[i], k) <=> st.current # None /\ i = n
  BY DEF ParsedTo
<1>3. q \in PerfStates(E) /\ ParsesLine(st, line, q)
  BY <1>1, ParseLineIs
<1>4. a \in Seq(P) /\ b \in Seq(P)
  BY <1>3, FlushIs
<1>5. ASSUME NEW i \in 1..n
      PROVE  /\ Open(lines, hs[i], m) <=> st.current # None /\ i = n /\ line.t \notin {"blank", "header"}
             /\ At2(hs[i]) = IF line.t = "frame" /\ st.current # None /\ i = n
                             THEN grown(At1(hs[i])) ELSE At1(hs[i])
  <2>1. hs[i] \in Nat /\ hs[i] <= k
    BY <1>1
  <2>2. Open(lines, hs[i], m) <=> Open(lines, hs[i], k) /\ line.t \notin {"blank", "header"}
    BY <2>1, UnderMore
  <2>3. At2(hs[i]) = IF line.t = "frame" /\ Open(lines, hs[i], k)
                     THEN grown(At1(hs[i])) ELSE At1(hs[i])
    BY <2>1, SampleMore
  <2> HIDE DEF At1, At2, grown
  <2>4. QED
    BY <1>2, <2>2, <2>3
<1>6. /\ Hdr(lines, m) = IF line.t = "header" THEN Hdr(lines, k) \cup {m} ELSE Hdr(lines, k)
      /\ k \in Nat
  <2>1. 0 <= k
    OBVIOUS
  <2>2. QED
    BY <2>1, UnderMore
<1> HIDE DEF m, line, q, a, n, At1, At2, grown, P, b
<1>7. ParsedTo(lines, m, q, hs) <=>
        /\ hs \in Seq(Nat) /\ n = Len(b)
        /\ \A i \in 1..n : hs[i] \in Hdr(lines, m)
        /\ \A h \in Hdr(lines, m) : \E i \in 1..n : hs[i] = h
        /\ \A i, j \in 1..n : hs[i] = hs[j] => i = j
        /\ \A i \in 1..n : b[i] = At2(hs[i])
        /\ \A i \in 1..n : Open(lines, hs[i], m) <=> q.current # None /\ i = n
  BY DEF ParsedTo, n, b, At2
<1>8. CASE line.t = "blank"
  <2>1. q.current = None /\ b = a
    BY <1>3, <1>8 DEF ParsesLine, a, b
  <2>2. \A i \in 1..n : At2(hs[i]) = At1(hs[i]) /\ ~Open(lines, hs[i], m)
    BY <1>5, <1>8
  <2>3. Hdr(lines, m) = Hdr(lines, k)
    BY <1>6, <1>8
  <2>4. QED
    BY <1>1, <1>2, <1>7, <2>1, <2>2, <2>3 DEF m, q, line
<1>9. CASE line.t = "header"
  <2> DEFINE g == Append(hs, m)
             z == Len(g)
  <2>1. q.current # None /\ b = Append(a, Opened(line))
    BY <1>3, <1>9 DEF ParsesLine, a, b
  <2>2. Open(lines, m, m) /\ At2(m) = Opened(line)
    BY <1>1, NewSample DEF At2, line
  <2>3. g \in Seq(Nat) /\ z = n + 1 /\ g[n + 1] = m /\ \A i \in 1..n : g[i] = hs[i]
    BY <1>1 DEF n
  <2>4. Len(b) = n + 1 /\ b[n + 1] = Opened(line) /\ \A i \in 1..n : b[i] = a[i]
    BY <1>1, <1>4, <2>1
  <2> HIDE DEF g, z
  <2>5. 1..z = (1..n) \cup {n + 1} /\ n + 1 \notin 1..n
    BY <1>1, <2>3
  <2>6. Hdr(lines, m) = Hdr(lines, k) \cup {m}
    BY <1>6, <1>9
  <2>7. \A i \in 1..n : At2(hs[i]) = At1(hs[i]) /\ ~Open(lines, hs[i], m)
    BY <1>5, <1>9
  <2>8. \A i \in 1..z : g[i] \in Hdr(lines, m)
    BY <1>1, <2>3, <2>5, <2>6
  <2>9. \A h \in Hdr(lines, m) : \E i \in 1..z : g[i] = h
    BY <1>2, <2>3, <2>5, <2>6
  <2>10. \A i, j \in 1..z : g[i] = g[j] => i = j
    <3>1. \A i \in 1..n : g[i] # m
      BY <1>1, <2>3
    <3>2. \A i, j \in 1..n : g[i] = g[j] => i = j
      BY <1>2, <2>3
    <3>3. QED
      BY <2>3, <2>5, <3>1, <3>2
  <2>11. \A i \in 1..z : b[i] = At2(g[i])
    <3>1. \A i \in 1..n : b[i] = At2(g[i])
      BY <1>2, <2>3, <2>4, <2>7
    <3>2. b[n + 1] = At2(g[n + 1])
      BY <2>2, <2>3, <2>4
    <3>3. QED
      BY <2>5, <3>1, <3>2
  <2>12. \A i \in 1..z : Open(lines, g[i], m) <=> q.current # None /\ i = z
    <3>1. \A i \in 1..n : ~Open(lines, g[i], m) /\ i # z
      BY <2>3, <2>5, <2>7
    <3>2. Open(lines, g[n + 1], m)
      BY <2>2, <2>3
    <3>3. QED
      BY <2>1, <2>3, <2>5, <3>1, <3>2
  <2>13. ParsedTo(lines, m, q, g)
    BY <2>3, <2>4, <2>8, <2>9, <2>10, <2>11, <2>12 DEF ParsedTo, z, b, At2
  <2>14. QED
    BY <2>13 DEF m, q, line
<1>10. CASE line.t = "frame" /\ st.current # None
  <2>1. /\ q.current # None /\ n > 0 /\ Len(b) = n
        /\ \A i \in 1..(n - 1) : b[i] = a[i]
        /\ b[n] = grown(a[n])
    BY <1>1, <1>3, <1>10 DEF ParsesLine, a, b, grown
  <2>2. \A i \in 1..n : At2(hs[i]) = IF i = n THEN grown(a[i]) ELSE a[i]
    <3> SUFFICES ASSUME NEW i \in 1..n PROVE At2(hs[i]) = IF i = n THEN grown(a[i]) ELSE a[i]
      OBVIOUS
    <3>1. a[i] = At1(hs[i])
      BY <1>2
    <3>2. QED
      BY <1>5, <1>10, <3>1
  <2>3. \A i \in 1..n : i # n => i \in 1..(n - 1)
    BY <1>1
  <2>4. \A i \in 1..n : b[i] = At2(hs[i])
    BY <2>1, <2>2, <2>3
  <2>5. \A i \in 1..n : Open(lines, hs[i], m) <=> q.current # None /\ i = n
    BY <1>5, <1>10, <2>1
  <2>6. Hdr(lines, m) = Hdr(lines, k)
    BY <1>6, <1>10
  <2>7. QED
    BY <1>1, <1>2, <1>7, <2>1, <2>4, <2>5, <2>6 DEF m, q, line
<1>11. CASE line.t \notin {"blank", "header"} /\ ~(line.t = "frame" /\ st.current # None)
  <2>1. q = st /\ b = a
    BY <1>3, <1>11 DEF ParsesLine, a, b
  <2>2. \A i \in 1..n : At2(hs[i]) = At1(hs[i])
    BY <1>5, <1>11
  <2>3. \A i \in 1..n : Open(lines, hs[i], m) <=> q.current # None /\ i = n
    BY <1>5, <1>11, <2>1
  <2>4. Hdr(lines, m) = Hdr(lines, k)
    BY <1>6, <1>11
  <2>5. QED
    BY <1>1, <1>2, <1>7, <2>1, <2>2, <2>3, <2>4 DEF m, q, line
<1>12. QED
  BY <1>8, <1>9, <1>10, <1>11

\* hs are the headers of the samples.
Heads(lines, samples, hs) ==
    /\ hs \in Seq(Nat) /\ Len(hs) = Len(samples)
    /\ \A i \in 1..Len(hs) : hs[i] \in Hdr(lines, Len(lines))
    /\ \A h \in Hdr(lines, Len(lines)) : \E i \in 1..Len(hs) : hs[i] = h
    /\ \A i, j \in 1..Len(hs) : hs[i] = hs[j] => i = j
    /\ \A i \in 1..Len(hs) : samples[i] = SampleAt(lines, hs[i], Len(lines))

\* The samples are those of the headers, each with the frames under it.
LEMMA ParseIs ==
    ASSUME NEW E, None \notin PerfSamples(E), \A e \in E : PerfElement(e), NEW lines \in Seq(E)
    PROVE  Parse(lines) \in Seq(PerfSamples(E)) /\ \E hs : Heads(lines, Parse(lines), hs)
<1> DEFINE p == [samples |-> <<>>, current |-> None]
           n == Len(lines)
           S == PerfStates(E)
           Good(st, k) == \E hs : ParsedTo(lines, k, st, hs)
<1>1. p \in S /\ n \in Nat
  BY DEF PerfStates
<1>2. PICK g \in [0..n -> S] : /\ g[0] = p /\ \A k \in 1..n : g[k] = ParseLine(g[k - 1], lines[k])
                               /\ ParseLines(p, lines) = g[n]
  <2> HIDE DEF p
  <2> QED
    BY <1>1, ParseLinesSteps
<1>3. Good(g[0], 0)
  <2>1. AllOf(p) = <<>>
    BY DEF AllOf, Flush
  <2>2. Hdr(lines, 0) = {}
    BY DEF Hdr
  <2> HIDE DEF p
  <2>3. ParsedTo(lines, 0, p, <<>>)
    BY <2>1, <2>2 DEF ParsedTo
  <2>4. QED
    BY <1>2, <2>3
<1> HIDE DEF p, n, S, Good
<1> DEFINE N == {k \in Nat : k <= n => Good(g[k], k)}
<1>4. 0 \in N
  BY <1>3
<1>5. ASSUME NEW k \in Nat, k \in N PROVE k + 1 \in N
  <2> SUFFICES ASSUME k + 1 <= n PROVE Good(g[k + 1], k + 1)
    OBVIOUS
  <2>1. k <= n /\ k < n /\ k + 1 \in 1..n /\ k \in 0..n /\ (k + 1) - 1 = k
    BY <1>1
  <2>2. g[k + 1] = ParseLine(g[k], lines[k + 1]) /\ g[k] \in S
    BY <1>2, <2>1
  <2>3. lines[k + 1] \in E /\ PerfElement(lines[k + 1])
    BY <2>1 DEF n
  <2>4. PICK hs : ParsedTo(lines, k, g[k], hs)
    BY <1>5, <2>1 DEF Good
  <2>5. \E h : ParsedTo(lines, k + 1, ParseLine(g[k], lines[k + 1]), h)
    BY <2>1, <2>2, <2>3, <2>4, ParsedMore DEF n, S
  <2>6. QED
    BY <2>2, <2>5 DEF Good
<1>6. n \in N
  <2> HIDE DEF N
  <2> QED
    BY <1>1, <1>4, <1>5, Induction
<1>7. PICK hs : ParsedTo(lines, n, g[n], hs)
  BY <1>1, <1>6 DEF Good
<1>8. Parse(lines) = AllOf(g[n])
  <2>1. Parse(lines) = AllOf(ParseLines(p, lines))
    BY DEF Parse, AllOf, ParseLines, p
  <2>2. QED
    BY <1>2, <2>1
<1>9. AllOf(g[n]) \in Seq(PerfSamples(E))
  <2>1. g[n] \in S
    BY <1>1, <1>2
  <2>2. QED
    BY <2>1, FlushIs DEF S
<1>10. Heads(lines, Parse(lines), hs)
  BY <1>7, <1>8 DEF ParsedTo, Heads, n
<1>11. QED
  BY <1>8, <1>9, <1>10

-----------------------------------------------------------------------------
(* Tallies of the same entries.                                            *)

\* The sum of one number.
LEMMA SumOne ==
    ASSUME NEW z, NEW f \in [{z} -> Int]
    PROVE  SumFunction(f) = f[z]
<1> DEFINE e == [x \in {} |-> 0]
<1>1. e \in [{} -> Int] /\ IsFiniteSet({})
  BY FS_EmptySet
<1>2. f \in [{} \cup {z} -> Int]
  OBVIOUS
<1> HIDE DEF e
<1>3. SumsMove(e, f, {}, z)
  BY <1>1, <1>2, SumChange
<1>4. SumFunction(e) = 0
  BY <1>1, SumEmpty
<1>5. f[z] \in Int
  OBVIOUS
<1>6. QED
  BY <1>3, <1>4, <1>5 DEF SumsMove

\* The sum of one pair.
LEMMA PairOne ==
    ASSUME NEW z, NEW f, DOMAIN f = {z}, f[z] \in Pair
    PROVE  SumPairs(f) = f[z]
<1> DEFINE C(k) == [i \in DOMAIN f |-> f[i][k]]
<1>1. SumPairs(f) = [k \in 1..2 |-> SumFunction(C(k))]
  BY DEF SumPairs
<1>2. ASSUME NEW k \in 1..2 PROVE SumFunction(C(k)) = f[z][k]
  <2>1. C(k) \in [{z} -> Int] /\ C(k)[z] = f[z][k]
    BY DEF Pair
  <2> HIDE DEF C
  <2>2. QED
    BY <2>1, SumOne
<1> HIDE DEF C
<1>3. SumPairs(f) = [k \in 1..2 |-> f[z][k]]
  BY <1>1, <1>2
<1>4. f[z] = [k \in 1..2 |-> f[z][k]]
  BY DEF Pair
<1>5. QED
  BY <1>3, <1>4

\* One to one, entries add up to the same.
LEMMA TallyMatched ==
    ASSUME NEW I, NEW e, EntriesOn(e, I), NEW J, NEW d, EntriesOn(d, J), NEW part \in [J -> I],
           \A i \in I : \E j \in J : part[j] = i, \A i, j \in J : part[i] = part[j] => i = j,
           \A j \in J : d[j].stack = e[part[j]].stack /\ d[j].value = e[part[j]].value /\ d[j].value \in Pair
    PROVE  Tally(e) = Tally(d)
<1>1. ASSUME NEW i \in I PROVE e[i].value = SumPairs([j \in Fiber(part, J, i) |-> d[j].value])
  <2>1. PICK z \in J : part[z] = i
    OBVIOUS
  <2>2. Fiber(part, J, i) = {z}
    BY <2>1 DEF Fiber
  <2> DEFINE v == d[z].value
             f == [j \in Fiber(part, J, i) |-> d[j].value]
  <2>3. DOMAIN f = {z} /\ f[z] = v
    BY <2>2
  <2>4. v \in Pair /\ e[i].value = v
    BY <2>1
  <2> HIDE DEF v, f
  <2>5. SumPairs(f) = v
    BY <2>3, <2>4, PairOne
  <2>6. QED
    BY <2>4, <2>5 DEF f
<1>2. Gathers(e, I, d, J, part)
  BY <1>1 DEF Gathers
<1>3. QED
  BY <1>2, TallyParts

-----------------------------------------------------------------------------
(* The samples of perf script.                                             *)

ParsedFrames(E) == {ParseFrame(e) : e \in {l \in E : l.t = "frame"}}

PerfFrames(D) == {PerfFrame(f) : f \in D}
PerfTableLines(D) == {PerfFrame(f).lines[1] : f \in D}
PerfFns(D) == {PerfFrame(f).lines[1].fn : f \in D}

\* The frame of a parsed frame: its readable name and dso for keys, one line.
LEMMA PerfFrameIs ==
    ASSUME NEW f
    PROVE  LET g == PerfFrame(f) IN
           /\ Len(g.lines) = 1 /\ g.lines = <<g.lines[1]>>
           /\ g.key = g.lines[1].fn.key /\ g.lines[1].fn.key[1] = Demangle(f.symbol)
           /\ g.lines[1].fn.name = Demangle(f.symbol)
BY DEF PerfFrame

\* Frames with one key have one name.
LEMMA PerfCoherent ==
    ASSUME NEW D
    PROVE  /\ Coherent(PerfFrames(D), PerfTableLines(D), PerfFns(D))
           /\ \A f \in PerfFrames(D) : Len(f.lines) = 1 /\ f.lines \in Seq(Range(f.lines))
<1> DEFINE F == PerfFrames(D)
           L == PerfTableLines(D)
<1>1. ASSUME NEW f \in F
      PROVE  /\ Len(f.lines) = 1 /\ f.lines \in Seq(L) /\ f.lines \in Seq(Range(f.lines))
             /\ FrameNames(f) = <<f.lines[1].fn.name>>
             /\ f.lines[1].fn.name = f.key[1]
  <2>1. PICK x \in D : f = PerfFrame(x)
    BY DEF PerfFrames
  <2>2. Len(f.lines) = 1 /\ f.lines = <<f.lines[1]>> /\ f.lines[1].fn.name = f.key[1]
    BY <2>1, PerfFrameIs
  <2>3. f.lines[1] \in L
    BY <2>1 DEF PerfTableLines
  <2> DEFINE l == f.lines[1]
  <2> HIDE DEF l, L
  <2>4. <<l>> \in Seq(L) /\ <<l>> \in Seq(Range(<<l>>))
    BY <2>3 DEF l, Range
  <2>5. f.lines \in Seq(L) /\ f.lines \in Seq(Range(f.lines))
    BY <2>2, <2>4 DEF l
  <2>6. FrameNames(f) = <<f.lines[1].fn.name>>
    <3>1. DOMAIN f.lines = 1..1
      BY <2>5, <2>2
    <3>2. FrameNames(f) = [j \in 1..1 |-> f.lines[j].fn.name]
      BY <3>1 DEF FrameNames
    <3>3. [j \in 1..1 |-> f.lines[j].fn.name] = <<f.lines[1].fn.name>>
      OBVIOUS
    <3>4. QED
      BY <3>2, <3>3
  <2>7. QED
    BY <2>2, <2>5, <2>6
<1>2. \A l \in L : l.fn \in PerfFns(D)
  BY DEF PerfTableLines, PerfFns
<1>3. ASSUME NEW d \in PerfFns(D), NEW e \in PerfFns(D), d.key = e.key PROVE d.name = e.name
  <2>1. PICK x \in D : d = PerfFrame(x).lines[1].fn
    BY DEF PerfFns
  <2>2. PICK y \in D : e = PerfFrame(y).lines[1].fn
    BY DEF PerfFns
  <2>3. d.name = d.key[1]
    BY <2>1, PerfFrameIs
  <2>4. e.name = e.key[1]
    BY <2>2, PerfFrameIs
  <2>5. QED
    BY <1>3, <2>3, <2>4
<1>4. ASSUME NEW f \in F, NEW g \in F, f.key = g.key PROVE FrameNames(f) = FrameNames(g)
  BY <1>1, <1>4
<1> HIDE DEF F, L
<1>5. Coherent(F, L, PerfFns(D))
  BY <1>1, <1>2, <1>3, <1>4, Zenon DEF Coherent
<1>6. QED
  BY <1>1, <1>5 DEF F, L

\* A sample of the parser has the frames under its header.
LEMMA SampleIs ==
    ASSUME NEW E, NEW lines \in Seq(E), NEW h \in Hdr(lines, Len(lines)),
           NEW s \in PerfSamples(E), s = SampleAt(lines, h, Len(lines))
    PROVE  LET under == InOrder(FramesUnder(lines, h)) IN
           /\ s.stack \in Seq(ParsedFrames(E)) /\ s.period = PeriodOf(lines[h]) /\ s.period \in Nat
           /\ DOMAIN s.stack = DOMAIN under
           /\ \A j \in DOMAIN under : s.stack[j].symbol = lines[under[j]].symbol
           /\ s.stack # <<>> <=> FramesUnder(lines, h) # {}
<1> DEFINE n == Len(lines)
           U == Under(lines, h, n)
           r == FrameAt(lines)
           own == InOrder(U)
           m == Cardinality(U)
<1>1. n \in Nat /\ h \in 1..n /\ DOMAIN lines = 1..n
  BY DEF Hdr
<1>2. FramesUnder(lines, h) = U
  BY <1>1 DEF FramesUnder, Under, Open
<1>3. U \in SUBSET (1..n) /\ IsFiniteSet(U) /\ U \in SUBSET Int
  <2>1. U \in SUBSET (1..n)
    BY <1>1 DEF Under
  <2>2. IsFiniteSet(1..n)
    BY <1>1, FS_Interval
  <2>3. QED
    BY <2>1, <2>2, FS_Subset
<1> HIDE DEF U
<1>4. Ascends(own, m, U) /\ m \in Nat
  BY <1>3, InOrderIs, FS_CardinalityType
<1> HIDE DEF own, m, n
<1>5. own \in [1..m -> U]
  BY <1>4 DEF Ascends, Orders
<1>6. s.stack = [j \in 1..m |-> r[own[j]]] /\ s.period = PeriodOf(lines[h])
  <2>1. s.stack = Each(own, r) /\ s.period = PeriodOf(lines[h])
    BY DEF SampleAt, own, U, n
  <2>2. QED
    BY <1>5, <2>1 DEF Each
<1>7. s.stack \in Seq(ParsedFrames(E)) /\ s.period \in Nat
  BY DEF PerfSamples, ParsedFrames
<1>8. DOMAIN s.stack = 1..m /\ DOMAIN own = 1..m
  BY <1>5, <1>6
<1>9. ASSUME NEW j \in 1..m PROVE s.stack[j].symbol = lines[own[j]].symbol
  <2>1. own[j] \in 1..n
    BY <1>3, <1>5
  <2>2. s.stack[j] = ParseFrame(lines[own[j]])
    BY <1>1, <1>6, <2>1 DEF FrameAt
  <2>3. QED
    BY <2>2 DEF ParseFrame
<1>10. s.stack # <<>> <=> U # {}
  <2>1. m = 0 <=> U = {}
    BY <1>3, FS_EmptySet DEF m
  <2> DEFINE st == s.stack
  <2>2. st \in Seq(ParsedFrames(E)) /\ DOMAIN st = 1..m
    BY <1>7, <1>8
  <2> HIDE DEF st
  <2>3. Len(st) = m
    BY <1>4, <2>2
  <2>4. st = <<>> <=> m = 0
    BY <2>2, <2>3
  <2>5. QED
    BY <2>1, <2>4 DEF st
<1>11. QED
  BY <1>2, <1>6, <1>7, <1>8, <1>9, <1>10 DEF own

StackFrom(s) == [j \in DOMAIN s |-> PerfFrame(s[j])]

\* What is seen of the stack of a sample.
LEMMA SampleNames ==
    ASSUME NEW D, NEW s \in Seq(D)
    PROVE  /\ StackFrom(s) \in Seq(PerfFrames(D))
           /\ StackNames(StackFrom(s)) = [j \in DOMAIN s |-> Demangle(s[j].symbol)]
<1> DEFINE f == StackFrom(s)
           F == PerfFrames(D)
           n == Len(s)
<1>1. n \in Nat /\ DOMAIN s = 1..n /\ \A j \in 1..n : s[j] \in D
  OBVIOUS
<1>2. f = [j \in 1..n |-> PerfFrame(s[j])]
  BY <1>1 DEF StackFrom
<1>3. \A j \in 1..n : PerfFrame(s[j]) \in F
  BY <1>1 DEF PerfFrames
<1> HIDE DEF f, F, n
<1>4. f \in [1..n -> F]
  BY <1>2, <1>3
<1>5. f \in Seq(F)
  BY <1>1, <1>4
<1>6. \A x \in F : Len(x.lines) = 1 /\ x.lines \in Seq(Range(x.lines))
  BY PerfCoherent DEF F
<1>7. StackNames(f) = [j \in DOMAIN f |-> f[j].lines[1].fn.name]
  BY <1>5, <1>6, SingleNames
<1>8. \A j \in 1..n : f[j].lines[1].fn.name = Demangle(s[j].symbol)
  <2> SUFFICES ASSUME NEW j \in 1..n PROVE f[j].lines[1].fn.name = Demangle(s[j].symbol)
    OBVIOUS
  <2>1. f[j] = PerfFrame(s[j])
    BY <1>2
  <2>2. QED
    BY <2>1, PerfFrameIs
<1>9. DOMAIN f = 1..n
  BY <1>2
<1>10. StackNames(f) = [j \in DOMAIN s |-> Demangle(s[j].symbol)]
  BY <1>1, <1>7, <1>8, <1>9
<1>11. QED
  BY <1>5, <1>10 DEF f, F

\* A header with its frames.
HitAt(lines, h) ==
    LET under == InOrder(FramesUnder(lines, h)) IN
    [stack |-> [j \in DOMAIN under |-> Demangle(lines[under[j]].symbol)],
     value |-> <<1, PeriodOf(lines[h])>>]

\* What is seen of a converted perf text.
LEMMA PerfConverts ==
    ASSUME NEW E, None \notin PerfSamples(E), \A e \in E : PerfElement(e), NEW lines \in Seq(E)
    PROVE  ByStack(ConvertPerf(lines)) = Expected(lines)
<1> DEFINE samples == Parse(lines)
           n == Len(samples)
           D == ParsedFrames(E)
           F == PerfFrames(D)
           kept == {i \in DOMAIN samples : samples[i].stack # <<>>}
           Fr(i) == StackFrom(samples[i].stack)
           items == [i \in kept |-> [frames |-> Fr(i), value |-> <<1, samples[i].period>>]]
           J == {h \in DOMAIN lines : lines[h].t = "header" /\ FramesUnder(lines, h) # {}}
           hits == [h \in J |-> HitAt(lines, h)]
           d == Credits(items)
           types == <<<<"samples", "count">>, <<"cpu", "nanoseconds">>>>
           maps == {f.dso : f \in UNION {Range(samples[i].stack) : i \in kept}}
<1>1. samples \in Seq(PerfSamples(E)) /\ \E hs : Heads(lines, samples, hs)
  BY ParseIs
<1>2. PICK hs : Heads(lines, samples, hs)
  BY <1>1
<1>3. ConvertPerf(lines) = Profile(types, maps, Merge(items))
  BY DEF ConvertPerf, Encode, StackFrom
<1>4. Expected(lines) = Tally(hits)
  BY DEF Expected, HitAt, PeriodOf
<1>5. Len(lines) \in Nat /\ Hdr(lines, Len(lines)) = {h \in DOMAIN lines : lines[h].t = "header"}
      /\ DOMAIN lines = 1..Len(lines)
  BY DEF Hdr
<1> HIDE DEF samples, types, maps
<1>6. /\ n \in Nat /\ DOMAIN samples = 1..n /\ \A i \in 1..n : samples[i] \in PerfSamples(E)
      /\ hs \in Seq(Nat) /\ Len(hs) = n
  BY <1>1, <1>2 DEF Heads
<1>7. kept \in SUBSET (1..n) /\ kept \in SUBSET Nat /\ IsFiniteSet(kept)
  <2>1. kept \in SUBSET (1..n) /\ IsFiniteSet(1..n)
    BY <1>6, FS_Interval
  <2>2. QED
    BY <1>6, <2>1, FS_Subset
<1>8. J \in SUBSET (1..Len(lines)) /\ IsFiniteSet(J)
  <2>1. J \in SUBSET (1..Len(lines)) /\ IsFiniteSet(1..Len(lines))
    BY <1>5, FS_Interval
  <2>2. QED
    BY <2>1, FS_Subset
<1>9. ASSUME NEW i \in 1..n
      PROVE  /\ samples[i].stack \in Seq(D) /\ samples[i].period \in Nat
             /\ samples[i].stack # <<>> <=> FramesUnder(lines, hs[i]) # {}
             /\ hs[i] \in Hdr(lines, Len(lines))
             /\ HitAt(lines, hs[i]) =
                  [stack |-> [j \in DOMAIN samples[i].stack |-> Demangle(samples[i].stack[j].symbol)],
                   value |-> <<1, samples[i].period>>]
  <2> DEFINE s == samples[i]
             h == hs[i]
             under == InOrder(FramesUnder(lines, h))
  <2>1. s \in PerfSamples(E) /\ h \in Hdr(lines, Len(lines)) /\ s = SampleAt(lines, h, Len(lines))
    BY <1>2, <1>6 DEF Heads
  <2> HIDE DEF s, h
  <2>2. /\ s.stack \in Seq(D) /\ s.period = PeriodOf(lines[h]) /\ s.period \in Nat
        /\ DOMAIN s.stack = DOMAIN under
        /\ \A j \in DOMAIN under : s.stack[j].symbol = lines[under[j]].symbol
        /\ s.stack # <<>> <=> FramesUnder(lines, h) # {}
    BY <2>1, SampleIs
  <2> HIDE DEF under
  <2>3. [j \in DOMAIN under |-> Demangle(lines[under[j]].symbol)]
          = [j \in DOMAIN s.stack |-> Demangle(s.stack[j].symbol)]
    BY <2>2
  <2>4. HitAt(lines, h) = [stack |-> [j \in DOMAIN under |-> Demangle(lines[under[j]].symbol)],
                           value |-> <<1, PeriodOf(lines[h])>>]
    BY DEF HitAt, under
  <2>5. HitAt(lines, h) = [stack |-> [j \in DOMAIN s.stack |-> Demangle(s.stack[j].symbol)],
                           value |-> <<1, s.period>>]
    BY <2>2, <2>3, <2>4
  <2>6. QED
    BY <2>1, <2>2, <2>5 DEF s, h
<1>10. \A i \in 1..n : Fr(i) \in Seq(F) /\ <<1, samples[i].period>> \in Pair
  <2> SUFFICES ASSUME NEW i \in 1..n PROVE Fr(i) \in Seq(F) /\ <<1, samples[i].period>> \in Pair
    OBVIOUS
  <2>1. samples[i].period \in Int
    <3>1. samples[i].period \in Nat
      BY <1>9
    <3>2. QED
      BY <3>1
  <2>2. <<1, samples[i].period>> \in Pair
    BY <2>1, PairIs
  <2>3. Fr(i) \in Seq(F)
    BY <1>9, SampleNames
  <2>4. QED
    BY <2>2, <2>3
<1>11. items \in [kept -> ItemsOf(F, Pair)]
  <2> DEFINE V(i) == <<1, samples[i].period>>
             H(i) == [frames |-> Fr(i), value |-> V(i)]
  <2>1. items = [i \in kept |-> H(i)] /\ \A i \in kept : Fr(i) \in Seq(F) /\ V(i) \in Pair
    BY <1>7, <1>10
  <2> HIDE DEF items, Fr, V, kept, F
  <2>2. \A i \in kept : H(i) \in ItemsOf(F, Pair)
    BY <2>1 DEF ItemsOf
  <2> HIDE DEF H
  <2>3. QED
    BY <2>1, <2>2
<1>12. Coherent(F, PerfTableLines(D), PerfFns(D))
  BY PerfCoherent
<1>13. ByStack(ConvertPerf(lines)) = Tally(d)
  <2> HIDE DEF kept, items, F, D
  <2>1. ByStack(Profile(types, maps, Merge(items))) = Tally(Credits(items))
    BY <1>7, <1>11, <1>12, MergedReads
  <2>2. QED
    BY <1>3, <2>1
<1>14. /\ DOMAIN d = kept
       /\ \A i \in kept : /\ d[i].stack = HitAt(lines, hs[i]).stack
                          /\ d[i].value = HitAt(lines, hs[i]).value /\ d[i].value \in Pair
  <2>1. DOMAIN items = kept /\ \A i \in kept : items[i].frames = Fr(i) /\ items[i].value = <<1, samples[i].period>>
    OBVIOUS
  <2> HIDE DEF items, kept
  <2>2. DOMAIN d = kept /\ \A i \in kept : d[i].stack = StackNames(Fr(i)) /\ d[i].value = <<1, samples[i].period>>
    BY <2>1 DEF Credits
  <2> HIDE DEF d
  <2>3. ASSUME NEW i \in kept
        PROVE  /\ d[i].stack = HitAt(lines, hs[i]).stack
               /\ d[i].value = HitAt(lines, hs[i]).value /\ d[i].value \in Pair
    <3>1. i \in 1..n
      BY <1>7
    <3>2. StackNames(Fr(i)) = [j \in DOMAIN samples[i].stack |-> Demangle(samples[i].stack[j].symbol)]
      BY <1>9, <3>1, SampleNames
    <3>3. /\ HitAt(lines, hs[i]).stack = [j \in DOMAIN samples[i].stack |-> Demangle(samples[i].stack[j].symbol)]
          /\ HitAt(lines, hs[i]).value = <<1, samples[i].period>>
      <4>1. HitAt(lines, hs[i]) =
                  [stack |-> [j \in DOMAIN samples[i].stack |-> Demangle(samples[i].stack[j].symbol)],
                   value |-> <<1, samples[i].period>>]
        BY <1>9, <3>1
      <4>2. QED
        BY <4>1
    <3>4. QED
      BY <1>10, <2>2, <3>1, <3>2, <3>3
  <2>4. QED
    BY <2>2, <2>3
<1> DEFINE part == [i \in kept |-> hs[i]]
<1>15. ASSUME NEW i \in kept PROVE hs[i] \in J
  <2>1. i \in 1..n /\ samples[i].stack # <<>>
    BY <1>7
  <2>2. hs[i] \in Hdr(lines, Len(lines)) /\ FramesUnder(lines, hs[i]) # {}
    BY <1>9, <2>1
  <2>3. QED
    BY <1>5, <2>2
<1>16. ASSUME NEW h \in J PROVE \E i \in kept : hs[i] = h
  <2>1. h \in Hdr(lines, Len(lines)) /\ FramesUnder(lines, h) # {}
    BY <1>5
  <2>2. PICK i \in 1..Len(hs) : hs[i] = h
    BY <1>2, <2>1 DEF Heads
  <2>3. i \in 1..n
    BY <1>6, <2>2
  <2>4. samples[i].stack # <<>>
    BY <1>9, <2>1, <2>2, <2>3
  <2>5. QED
    BY <1>6, <2>2, <2>3, <2>4
<1>17. \A i, j \in kept : hs[i] = hs[j] => i = j
  BY <1>2, <1>6, <1>7 DEF Heads
<1>18. DOMAIN hits = J /\ \A h \in J : hits[h] = HitAt(lines, h)
  OBVIOUS
<1> HIDE DEF hits, d, kept, J, items
<1>19. /\ part \in [kept -> J] /\ \A h \in J : \E i \in kept : part[i] = h
       /\ \A i, j \in kept : part[i] = part[j] => i = j
       /\ \A i \in kept : part[i] = hs[i]
  BY <1>15, <1>16, <1>17
<1> HIDE DEF part
<1>20. \A i \in kept : /\ d[i].stack = hits[part[i]].stack
                       /\ d[i].value = hits[part[i]].value /\ d[i].value \in Pair
  BY <1>14, <1>18, <1>19
<1>21. EntriesOn(d, kept)
  BY <1>7, <1>14 DEF EntriesOn, Pair
<1>22. EntriesOn(hits, J)
  <2>1. \A h \in J : hits[h].value \in Pair
    BY <1>19, <1>20
  <2>2. QED
    BY <1>8, <1>18, <2>1 DEF EntriesOn, Pair
<1>23. Tally(hits) = Tally(d)
  BY <1>19, <1>20, <1>21, <1>22, TallyMatched
<1>24. QED
  BY <1>4, <1>13, <1>23

-----------------------------------------------------------------------------
(* The periods of perf script.                                             *)

TotalPeriods(p, samples) == FoldLeft(LAMBDA a, s : a + s.period, p, samples)

\* The periods, added one after the other.
LEMMA TotalPeriodsSteps ==
    ASSUME NEW p \in Nat, NEW P, NEW samples \in Seq(P), \A s \in P : s.period \in Nat
    PROVE  \E g \in [0..Len(samples) -> Nat] :
               /\ g[0] = p /\ \A k \in 1..Len(samples) : g[k] = g[k - 1] + samples[k].period
               /\ TotalPeriods(p, samples) = g[Len(samples)]
<1> DEFINE n == Len(samples)
           V == Nat
           Op(v, k) == v + samples[k].period
           step == [d \in (1..n) \X V |-> Op(d[2], d[1])]
           Iter(d) == d = [s \in SUBSET (1..n) |->
                              IF s = {} THEN p ELSE Op(d[s \ {Max(s)}], Max(s))]
           c == CHOOSE d : Iter(d)
<1>1. n \in Nat /\ DOMAIN samples = 1..n /\ p \in V
  OBVIOUS
<1>2. \A v \in V, k \in 1..n : Op(v, k) \in V
  <2>1. \A k \in 1..n : samples[k].period \in Nat
    OBVIOUS
  <2> HIDE DEF n
  <2>2. QED
    BY <2>1
<1>3. step \in [(1..n) \X V -> V] /\ \A v \in V, k \in 1..n : step[<<k, v>>] = Op(v, k)
  <2> HIDE DEF V, n, Op
  <2> QED
    BY <1>2
<1>4. \A s \in SUBSET (1..n) : s # {} => Max(s) \in 1..n
  BY <1>1, MaxIs
<1> HIDE DEF V, n, Op, step
<1>5. Iter(c)
  <2>1. PICK iter \in [SUBSET (1..n) -> V] : Folds(iter, p, step, n)
    BY <1>1, <1>3, FoldsExist
  <2>2. \A s \in SUBSET (1..n) : iter[s] = IF s = {} THEN p ELSE Op(iter[s \ {Max(s)}], Max(s))
    BY <1>3, <1>4, <2>1 DEF Folds
  <2>3. Iter(iter)
    BY <2>2
  <2>4. QED
    BY <2>3
<1> HIDE DEF c
<1>6. c[{}] = p
  BY <1>5
<1>7. \A s \in SUBSET (1..n) : s # {} /\ c[s \ {Max(s)}] \in V =>
          c[s] = step[<<Max(s), c[s \ {Max(s)}]>>]
  BY <1>3, <1>4, <1>5
<1> HIDE DEF Iter
<1>8. PICK g \in [0..n -> V] : Recurs(g, p, step, n) /\ c[1..n] = g[n]
  <2>1. n \in Nat /\ p \in V /\ step \in [(1..n) \X V -> V]
    BY <1>1, <1>3
  <2>2. FoldsIn(c, p, step, n, V)
    BY <1>6, <1>7, Zenon DEF FoldsIn
  <2>3. Yields(c, p, step, n, V)
    BY <2>1, <2>2, FoldIs
  <2>4. QED
    BY <2>3 DEF Yields
<1>9. \A k \in 1..n : g[k] = Op(g[k - 1], k)
  <2> SUFFICES ASSUME NEW k \in 1..n PROVE g[k] = Op(g[k - 1], k)
    OBVIOUS
  <2>1. g[k - 1] \in V
    BY <1>1
  <2>2. g[k] = step[<<k, g[k - 1]>>]
    BY <1>8 DEF Recurs
  <2>3. QED
    BY <1>3, <2>1, <2>2
<1>10. TotalPeriods(p, samples) = c[1..n]
  <2>1. TotalPeriods(p, samples) =
          (CHOOSE iter : iter = [s \in SUBSET DOMAIN samples |->
              IF s = {} THEN p ELSE iter[s \ {Max(s)}] + samples[Max(s)].period])[DOMAIN samples]
    BY DEF TotalPeriods, FoldLeft, MapThenFoldSet
  <2>2. QED
    BY <1>1, <2>1 DEF c, Op, Iter
<1>11. QED
  BY <1>8, <1>9, <1>10 DEF n, V, Op, Recurs

\* Numbers that add up to as many as they are.
LEMMA PeriodsOfOne ==
    ASSUME NEW P, NEW samples \in Seq(P), \A s \in P : s.period \in Nat
    PROVE  LET n == Len(samples)
               total == TotalPeriods(0, samples)
           IN  /\ (\A i \in 1..n : samples[i].period = 1) => total = n
               /\ (\A i \in 1..n : samples[i].period # 0) /\ total = n =>
                      \A i \in 1..n : samples[i].period = 1
<1> DEFINE n == Len(samples)
           of(i) == samples[i].period
<1>1. n \in Nat /\ \A i \in 1..n : of(i) \in Nat
  OBVIOUS
<1>2. PICK g \in [0..n -> Nat] : /\ g[0] = 0 /\ \A k \in 1..n : g[k] = g[k - 1] + of(k)
                                 /\ TotalPeriods(0, samples) = g[n]
  BY TotalPeriodsSteps
<1> HIDE DEF n, of
<1> DEFINE Ones(k) == \A i \in 1..k : of(i) = 1
           Fits1(k) == /\ Ones(k) => g[k] = k
                       /\ (\A i \in 1..k : of(i) # 0) => g[k] >= k /\ (g[k] = k => Ones(k))
           N == {k \in Nat : k <= n => Fits1(k)}
<1>3. 0 \in N
  BY <1>2
<1>4. ASSUME NEW k \in Nat, k \in N PROVE k + 1 \in N
  <2> SUFFICES ASSUME k + 1 <= n PROVE Fits1(k + 1)
    OBVIOUS
  <2>1. Fits1(k) /\ k + 1 \in 1..n /\ k \in 0..n
    BY <1>1, <1>4
  <2>2. g[k + 1] = g[k] + of(k + 1) /\ g[k] \in Nat /\ of(k + 1) \in Nat
    <3>1. (k + 1) - 1 = k
      OBVIOUS
    <3>2. QED
      BY <1>1, <1>2, <2>1, <3>1
  <2>3. 1..(k + 1) = (1..k) \cup {k + 1}
    OBVIOUS
  <2>4. Ones(k + 1) <=> Ones(k) /\ of(k + 1) = 1
    BY <2>3
  <2>5. (\A i \in 1..(k + 1) : of(i) # 0) <=> (\A i \in 1..k : of(i) # 0) /\ of(k + 1) # 0
    BY <2>3
  <2> HIDE DEF Ones
  <2>6. Ones(k + 1) => g[k + 1] = k + 1
    BY <2>1, <2>2, <2>4
  <2>7. (\A i \in 1..(k + 1) : of(i) # 0) => g[k + 1] >= k + 1 /\ (g[k + 1] = k + 1 => Ones(k + 1))
    BY <2>1, <2>2, <2>4, <2>5
  <2>8. QED
    BY <2>6, <2>7
<1> HIDE DEF Fits1, N
<1>5. n \in N
  BY <1>1, <1>3, <1>4, Induction
<1>6. Fits1(n)
  BY <1>1, <1>5 DEF N
<1>7. QED
  BY <1>2, <1>6 DEF Fits1, n, of

\* The values of a field.
LEMMA FieldValues ==
    ASSUME NEW E, input \in Seq(E), NEW t, NEW f
    PROVE  Range(Field(t, f)) = {input[i][f] : i \in At(t)}
<1> DEFINE S == At(t)
           n == Cardinality(S)
           at == InOrder(S)
           o == Of(t)
           v == Field(t, f)
<1>1. /\ Ascends(at, n, S) /\ o = [m \in 1..n |-> input[at[m]]]
  BY OfIs
<1>2. v = [m \in DOMAIN o |-> o[m][f]]
  BY DEF Field
<1> HIDE DEF S, n, at, o, v
<1>3. /\ at \in [1..n -> S] /\ \A x \in S : \E m \in 1..n : at[m] = x
  BY <1>1 DEF Ascends, Orders
<1>4. DOMAIN v = 1..n /\ \A m \in 1..n : v[m] = input[at[m]][f]
  BY <1>1, <1>2
<1>5. Range(v) = {v[m] : m \in 1..n}
  BY <1>4 DEF Range
<1>6. {v[m] : m \in 1..n} = {input[i][f] : i \in S}
  BY <1>3, <1>4
<1>7. QED
  BY <1>5, <1>6 DEF v, S

\* PerfSamplesKept follows from what the input is.
LEMMA PerfSamplesAreKept ==
    ASSUME IngestInv
    PROVE  PerfSamplesKept
<1> DEFINE E == Elements["perf"]
           samples == Parse(input)
           warned == PeriodLikelyMissing(StatsOf(samples))
           periods == Range(Field("header", "period"))
           missing == periods # {} /\ periods \subseteq {None, 1}
           n == Len(samples)
<1> SUFFICES ASSUME Is("perf")
             PROVE  /\ ByStack(Result) = Expected(input)
                    /\ missing => warned
                    /\ warned => missing \/ 0 \in periods
  <2>1. Is("perf") => /\ ByStack(Result) = Expected(input)
                      /\ missing => warned
                      /\ warned => missing \/ 0 \in periods
    OBVIOUS
  <2>2. QED
    BY <2>1 DEF PerfSamplesKept
<1>1. kind = "perf" /\ input \in Seq(E) /\ "perf" \in DOMAIN Elements
  BY DEF Is, IngestInv, InputInv
<1>2. Result = ConvertPerf(input)
  BY <1>1 DEF IngestInv, OutInv, Is, Result, Converted
<1>3. (\A e \in E : PerfElement(e)) /\ None \notin PerfSamples(E)
  BY <1>1, IngestAssumption
<1>4. ByStack(Result) = Expected(input)
  BY <1>1, <1>2, <1>3, PerfConverts
<1>5. samples \in Seq(PerfSamples(E)) /\ \E hs : Heads(input, samples, hs)
  BY <1>1, <1>3, ParseIs
<1>6. PICK hs : Heads(input, samples, hs)
  BY <1>5
<1>7. /\ \A s \in PerfSamples(E) : s.period \in Nat
      /\ n \in Nat /\ \A i \in 1..n : samples[i].period \in Nat
  <2>1. \A s \in PerfSamples(E) : s.period \in Nat
    BY DEF PerfSamples
  <2> HIDE DEF samples
  <2>2. n \in Nat /\ \A i \in 1..n : samples[i] \in PerfSamples(E)
    BY <1>5
  <2>3. QED
    BY <2>1, <2>2
<1>8. warned <=> n > 0 /\ TotalPeriods(0, samples) = n
  <2>1. StatsOf(samples).samples = n /\ StatsOf(samples).periods = TotalPeriods(0, samples)
    BY DEF StatsOf, TotalPeriods
  <2> HIDE DEF samples, n
  <2>2. QED
    BY <2>1 DEF PeriodLikelyMissing
<1>9. /\ (\A i \in 1..n : samples[i].period = 1) => TotalPeriods(0, samples) = n
      /\ (\A i \in 1..n : samples[i].period # 0) /\ TotalPeriods(0, samples) = n =>
             \A i \in 1..n : samples[i].period = 1
  BY <1>5, <1>7, PeriodsOfOne
<1>10. At("header") = Hdr(input, Len(input))
  BY <1>1 DEF At, Hdr
<1>11. periods = {input[h].period : h \in Hdr(input, Len(input))}
  <2>1. periods = {input[i]["period"] : i \in At("header")}
    BY <1>1, FieldValues
  <2>2. QED
    BY <1>10, <2>1
<1> HIDE DEF samples, periods, n, warned
<1>12. ASSUME NEW i \in 1..n
       PROVE  hs[i] \in Hdr(input, Len(input)) /\ samples[i].period = PeriodOf(input[hs[i]])
  <2>1. i \in 1..Len(hs)
    BY <1>6 DEF Heads, n
  <2>2. hs[i] \in Hdr(input, Len(input)) /\ samples[i] = SampleAt(input, hs[i], Len(input))
    BY <1>6, <2>1 DEF Heads
  <2>3. QED
    BY <2>2 DEF SampleAt
<1>13. ASSUME NEW h \in Hdr(input, Len(input)) PROVE \E i \in 1..n : hs[i] = h
  BY <1>6 DEF Heads, n
<1>14. periods # {} <=> n > 0
  <2>1. CASE n > 0
    <3>1. 1 \in 1..n
      BY <1>7, <2>1
    <3>2. QED
      BY <1>11, <1>12, <2>1, <3>1
  <2>2. CASE ~(n > 0)
    <3>1. 1..n = {}
      BY <1>7, <2>2
    <3>2. QED
      BY <1>11, <1>13, <2>2, <3>1
  <2>3. QED
    BY <2>1, <2>2
<1>15. periods \subseteq {None, 1} <=> \A i \in 1..n : samples[i].period = 1
  <2>1. ASSUME periods \subseteq {None, 1}, NEW i \in 1..n PROVE samples[i].period = 1
    <3>1. input[hs[i]].period \in {None, 1}
      BY <1>11, <1>12, <2>1
    <3>2. QED
      BY <1>12, <3>1 DEF PeriodOf
  <2>2. ASSUME \A i \in 1..n : samples[i].period = 1, NEW p \in periods PROVE p \in {None, 1}
    <3>1. PICK h \in Hdr(input, Len(input)) : p = input[h].period
      BY <1>11
    <3>2. PICK i \in 1..n : hs[i] = h
      BY <1>13
    <3>3. PeriodOf(input[h]) = 1
      BY <1>12, <2>2, <3>2
    <3>4. QED
      BY <3>1, <3>3 DEF PeriodOf
  <2>3. QED
    BY <2>1, <2>2
<1>16. 0 \notin periods => \A i \in 1..n : samples[i].period # 0
  <2> SUFFICES ASSUME NEW i \in 1..n, samples[i].period = 0 PROVE 0 \in periods
    OBVIOUS
  <2>1. PeriodOf(input[hs[i]]) = 0 /\ hs[i] \in Hdr(input, Len(input))
    BY <1>12
  <2>2. input[hs[i]].period = 0
    BY <2>1 DEF PeriodOf
  <2>3. QED
    BY <1>11, <2>1, <2>2
<1>17. missing => warned
  BY <1>8, <1>9, <1>14, <1>15
<1>18. warned => missing \/ 0 \in periods
  BY <1>8, <1>9, <1>14, <1>15, <1>16
<1>19. QED
  BY <1>4, <1>17, <1>18

\* perf script: each header and the frames under it are one hit of one stack,
\* with its period, and the warning is given when no header has a period but 1,
\* whatever the lines are.
THEOREM PerfSamplesAlwaysKept == Spec => []PerfSamplesKept
<1>1. IngestInv => PerfSamplesKept
  BY PerfSamplesAreKept
<1>2. QED
  BY <1>1, CapturesWellFormed, PTL

-----------------------------------------------------------------------------
(* Sequences that list a set.                                              *)

\* s has what r has for each element of X, once.
ListedBy(h, s, X, r) ==
    /\ h \in [1..Len(s) -> X]
    /\ \A i, j \in 1..Len(s) : h[i] = h[j] => i = j
    /\ \A x \in X : \E i \in 1..Len(s) : h[i] = x
    /\ \A i \in 1..Len(s) : s[i] = r[h[i]]

Lists(s, X, r) == \E h : ListedBy(h, s, X, r)

LEMMA ListsNone == ASSUME NEW r PROVE Lists(<<>>, {}, r)
<1>1. ListedBy(<<>>, <<>>, {}, r)
  BY DEF ListedBy
<1>2. QED
  BY <1>1 DEF Lists

LEMMA ListsOne == ASSUME NEW x, NEW r PROVE Lists(<<r[x]>>, {x}, r)
<1> DEFINE s == <<r[x]>>
<1>1. Len(s) = 1 /\ s[1] = r[x] /\ 1..1 = {1}
  OBVIOUS
<1>2. ListedBy([i \in 1..1 |-> x], s, {x}, r)
  BY <1>1 DEF ListedBy
<1>3. QED
  BY <1>2 DEF Lists

\* One sequence after the other.
LEMMA ListsBoth ==
    ASSUME NEW Y, NEW s \in Seq(Y), NEW t \in Seq(Y), NEW A, NEW B, NEW r,
           Lists(s, A, r), Lists(t, B, r), A \cap B = {}
    PROVE  Lists(s \o t, A \cup B, r)
<1> DEFINE m == Len(s)
           n == Len(t)
           all == s \o t
<1>1. PICK f : ListedBy(f, s, A, r)
  BY DEF Lists
<1>2. PICK g : ListedBy(g, t, B, r)
  BY DEF Lists
<1>3. /\ m \in Nat /\ n \in Nat /\ Len(all) = m + n
      /\ \A i \in 1..m : all[i] = s[i]
      /\ \A i \in 1..n : all[m + i] = t[i]
  BY ConcatProperties
<1> DEFINE h == [i \in 1..(m + n) |-> IF i <= m THEN f[i] ELSE g[i - m]]
<1>4. /\ f \in [1..m -> A] /\ \A i, j \in 1..m : f[i] = f[j] => i = j
      /\ \A x \in A : \E i \in 1..m : f[i] = x
      /\ \A i \in 1..m : s[i] = r[f[i]]
  BY <1>1 DEF ListedBy
<1>5. /\ g \in [1..n -> B] /\ \A i, j \in 1..n : g[i] = g[j] => i = j
      /\ \A x \in B : \E i \in 1..n : g[i] = x
      /\ \A i \in 1..n : t[i] = r[g[i]]
  BY <1>2 DEF ListedBy
<1> HIDE DEF m, n, all
<1>6. \A i \in 1..m : i \in 1..(m + n) /\ h[i] = f[i]
  BY <1>3
<1>7. \A i \in 1..n : m + i \in 1..(m + n) /\ h[m + i] = g[i]
  BY <1>3
<1>8. \A i \in 1..(m + n) : i \in 1..m \/ \E j \in 1..n : i = m + j
  <2> SUFFICES ASSUME NEW i \in 1..(m + n), i \notin 1..m PROVE \E j \in 1..n : i = m + j
    OBVIOUS
  <2>1. i - m \in 1..n /\ i = m + (i - m)
    BY <1>3
  <2>2. QED
    BY <2>1
<1> DEFINE N == m + n
<1>9. DOMAIN h = 1..N
  OBVIOUS
<1>10. h \in [1..N -> A \cup B]
  <2>1. \A i \in 1..N : h[i] \in A \cup B
    <3> SUFFICES ASSUME NEW i \in 1..N PROVE h[i] \in A \cup B
      OBVIOUS
    <3>1. CASE i \in 1..m
      BY <1>4, <1>6, <3>1
    <3>2. CASE i \notin 1..m
      <4>1. PICK j \in 1..n : i = m + j
        BY <1>8, <3>2
      <4>2. h[i] = g[j]
        BY <1>7, <4>1
      <4> HIDE DEF h
      <4>3. QED
        BY <1>5, <4>2
    <3>3. QED
      BY <3>1, <3>2
  <2>2. QED
    BY <2>1
<1> HIDE DEF h, N
<1>11. ASSUME NEW i \in 1..N, NEW j \in 1..N, h[i] = h[j] PROVE i = j
  <2>1. CASE i \in 1..m /\ j \in 1..m
    BY <1>4, <1>6, <1>11, <2>1
  <2>2. CASE i \in 1..m /\ j \notin 1..m
    <3>1. PICK l \in 1..n : j = m + l
      BY <1>8, <2>2 DEF N
    <3>2. h[i] \in A /\ h[j] \in B
      BY <1>4, <1>5, <1>6, <1>7, <2>2, <3>1
    <3>3. QED
      BY <1>11, <3>2
  <2>3. CASE i \notin 1..m /\ j \in 1..m
    <3>1. PICK l \in 1..n : i = m + l
      BY <1>8, <2>3 DEF N
    <3>2. h[j] \in A /\ h[i] \in B
      BY <1>4, <1>5, <1>6, <1>7, <2>3, <3>1
    <3>3. QED
      BY <1>11, <3>2
  <2>4. CASE i \notin 1..m /\ j \notin 1..m
    <3>1. PICK k \in 1..n : i = m + k
      BY <1>8, <2>4 DEF N
    <3>2. PICK l \in 1..n : j = m + l
      BY <1>8, <2>4 DEF N
    <3>3. g[k] = g[l]
      BY <1>7, <1>11, <3>1, <3>2
    <3>4. QED
      BY <1>5, <3>1, <3>2, <3>3
  <2>5. QED
    BY <2>1, <2>2, <2>3, <2>4
<1>12. ASSUME NEW x \in A \cup B PROVE \E i \in 1..N : h[i] = x
  <2>1. CASE x \in A
    BY <1>4, <1>6, <2>1 DEF N
  <2>2. CASE x \in B
    <3>1. PICK i \in 1..n : g[i] = x
      BY <1>5, <2>2
    <3>2. QED
      BY <1>7, <3>1 DEF N
  <2>3. QED
    BY <2>1, <2>2
<1>13. ASSUME NEW i \in 1..N PROVE all[i] = r[h[i]]
  <2>1. CASE i \in 1..m
    BY <1>3, <1>4, <1>6, <2>1
  <2>2. CASE i \notin 1..m
    <3>1. PICK j \in 1..n : i = m + j
      BY <1>8, <2>2 DEF N
    <3>2. all[i] = t[j] /\ h[i] = g[j]
      BY <1>3, <1>7, <3>1
    <3>3. QED
      BY <1>5, <3>2
  <2>3. QED
    BY <2>1, <2>2
<1>14. Len(all) = N
  BY <1>3 DEF N
<1>15. ListedBy(h, all, A \cup B, r)
  BY <1>10, <1>11, <1>12, <1>13, <1>14 DEF ListedBy
<1>16. QED
  BY <1>15 DEF Lists, all

\* The joined sequences list what each of them lists.
LEMMA ListsJoined ==
    ASSUME NEW Y, NEW seqs \in Seq(Seq(Y)), NEW X, NEW r,
           \A k \in 1..Len(seqs) : Lists(seqs[k], X[k], r),
           \A k, l \in 1..Len(seqs) : k # l => X[k] \cap X[l] = {}
    PROVE  Lists(FlattenSeq(seqs), UNION {X[k] : k \in 1..Len(seqs)}, r)
<1> DEFINE n == Len(seqs)
           all == FlattenSeq(seqs)
           U == UNION {X[k] : k \in 1..n}
           f == [k \in 1..n |-> CHOOSE g : ListedBy(g, seqs[k], X[k], r)]
<1>1. \A k \in 1..n : ListedBy(f[k], seqs[k], X[k], r)
  BY DEF Lists
<1>2. all \in Seq(Y) /\ n \in Nat /\ Len(all) \in Nat
  BY FlattenType
<1>3. PICK off \in [1..n -> Nat] : Places(off, seqs, all)
  BY FlattenPlaces
<1> DEFINE Here(i, k, j) == k \in 1..n /\ j \in 1..Len(seqs[k]) /\ i = off[k] + j
           h == [i \in 1..Len(all) |-> CHOOSE x : \E k, j : Here(i, k, j) /\ x = f[k][j]]
<1> HIDE DEF f, all
<1>4. \A k \in 1..n : \A j \in 1..Len(seqs[k]) : j \in Nat
  OBVIOUS
<1>5. \A i, k, j, l, m : Here(i, k, j) /\ Here(i, l, m) => k = l /\ j = m
  BY <1>3, <1>4 DEF Places
<1>6. \A i, k, j : Here(i, k, j) => i \in 1..Len(all) /\ all[i] = seqs[k][j]
  <2> SUFFICES ASSUME NEW k \in 1..n, NEW j \in 1..Len(seqs[k])
               PROVE  off[k] + j \in 1..Len(all) /\ all[off[k] + j] = seqs[k][j]
    OBVIOUS
  <2>1. j \in Nat
    BY <1>4
  <2>2. QED
    BY <1>3, <2>1 DEF Places
<1>7. \A i \in 1..Len(all) : \E k, j : Here(i, k, j)
  <2> SUFFICES ASSUME NEW i \in 1..Len(all) PROVE \E k, j : Here(i, k, j)
    OBVIOUS
  <2>1. PICK k \in 1..n : \E j \in 1..Len(seqs[k]) : i = off[k] + j
    BY <1>3 DEF Places
  <2>2. PICK j \in 1..Len(seqs[k]) : i = off[k] + j
    BY <2>1
  <2>3. Here(i, k, j)
    BY <2>2
  <2> HIDE DEF Here
  <2>4. QED
    BY <2>3
<1> HIDE DEF Here, n
<1>8. ASSUME NEW i, NEW k, NEW j, Here(i, k, j) PROVE h[i] = f[k][j]
  <2>1. \A x : (\E l, m : Here(i, l, m) /\ x = f[l][m]) <=> x = f[k][j]
    BY <1>5, <1>8
  <2>2. i \in 1..Len(all)
    BY <1>6, <1>8
  <2>3. QED
    BY <2>1, <2>2
<1>14. DOMAIN h = 1..Len(all) /\ h = [i \in 1..Len(all) |-> h[i]]
  OBVIOUS
<1> HIDE DEF h
<1>9. \A i, k, j : Here(i, k, j) => k \in 1..n /\ j \in 1..Len(seqs[k])
  BY DEF Here
<1>10. \A k \in 1..n : \A j \in 1..Len(seqs[k]) : f[k][j] \in X[k] /\ seqs[k][j] = r[f[k][j]]
  BY <1>1 DEF ListedBy
<1>11. ASSUME NEW i \in 1..Len(all) PROVE h[i] \in U /\ all[i] = r[h[i]]
  <2>1. PICK k, j : Here(i, k, j)
    BY <1>7
  <2>2. k \in 1..n /\ j \in 1..Len(seqs[k]) /\ h[i] = f[k][j] /\ all[i] = seqs[k][j]
    BY <1>6, <1>8, <1>9, <2>1
  <2>3. f[k][j] \in X[k] /\ seqs[k][j] = r[f[k][j]]
    BY <1>10, <2>2, Zenon
  <2>4. X[k] \in {X[l] : l \in 1..n}
    BY <2>2, Zenon
  <2>5. f[k][j] \in U
    BY <2>3, <2>4, Zenon
  <2> HIDE DEF U
  <2>6. QED
    BY <2>2, <2>3, <2>5, Zenon
<1>12. ASSUME NEW i \in 1..Len(all), NEW e \in 1..Len(all), h[i] = h[e] PROVE i = e
  <2>1. PICK k, j : Here(i, k, j)
    BY <1>7
  <2>2. PICK l, m : Here(e, l, m)
    BY <1>7
  <2>3. /\ k \in 1..n /\ j \in 1..Len(seqs[k]) /\ h[i] = f[k][j]
        /\ l \in 1..n /\ m \in 1..Len(seqs[l]) /\ h[e] = f[l][m]
    BY <1>8, <1>9, <2>1, <2>2
  <2>4. f[k][j] \in X[k] /\ f[l][m] \in X[l]
    BY <1>10, <2>3
  <2>5. k = l
    BY <1>12, <2>3, <2>4 DEF n
  <2>6. j = m
    BY <1>1, <1>12, <2>3, <2>5 DEF ListedBy
  <2>7. QED
    BY <2>1, <2>2, <2>5, <2>6 DEF Here
<1>13. ASSUME NEW x \in U PROVE \E i \in 1..Len(all) : h[i] = x
  <2>1. PICK k \in 1..n : x \in X[k]
    OBVIOUS
  <2>2. PICK j \in 1..Len(seqs[k]) : f[k][j] = x
    BY <1>1, <2>1 DEF ListedBy
  <2>3. Here(off[k] + j, k, j)
    BY DEF Here
  <2>4. QED
    BY <1>6, <1>8, <2>2, <2>3
<1> HIDE DEF U
<1>15. h \in [1..Len(all) -> U]
  BY <1>11, <1>14
<1>16. ListedBy(h, all, U, r)
  BY <1>11, <1>12, <1>13, <1>15 DEF ListedBy
<1>17. QED
  BY <1>16 DEF Lists, all, U, n

-----------------------------------------------------------------------------
(* Paths and frames of a tree.                                             *)

\* The path to a node is a recursion towards the head.
PathOf(nodes, path) ==
    LET n == Len(nodes) IN
    /\ Upward(path, n, [i \in 1..n |-> Demangle(Raw(nodes[i].fn))], [i \in 1..n |-> nodes[i].parent])
    /\ \A leaf : NodePath(nodes, leaf) = path[n][leaf]

LEMMA NodePathIs ==
    ASSUME NEW N, NEW nodes \in Seq(N), Tree(nodes)
    PROVE  \E path : PathOf(nodes, path)
<1> DEFINE n == Len(nodes)
           seen == [i \in 1..n |-> Demangle(Raw(nodes[i].fn))]
           up == [i \in 1..n |-> nodes[i].parent]
           P == Range(seen)
           Paths(f) == f = [d \in 0..n |-> [i \in 0..n |->
               IF d = 0 \/ i = 0 THEN <<>>
               ELSE <<Demangle(Raw(nodes[i].fn))>> \o f[d - 1][nodes[i].parent]]]
           path == CHOOSE f : Paths(f)
<1>1. n \in Nat /\ up \in [1..n -> 0..n] /\ seen \in [1..n -> P]
  <2>1. \A i \in 1..n : nodes[i].parent \in 0..n
    BY DEF Tree
  <2>2. \A i \in 1..n : seen[i] \in P
    BY DEF Range
  <2>3. QED
    BY <2>1, <2>2
<1>2. ASSUME NEW f PROVE Paths(f) <=> Upward(f, n, seen, up)
  <2> DEFINE A(d, i) == IF d = 0 \/ i = 0 THEN <<>>
                        ELSE <<Demangle(Raw(nodes[i].fn))>> \o f[d - 1][nodes[i].parent]
             B(d, i) == IF d = 0 \/ i = 0 THEN <<>> ELSE <<seen[i]>> \o f[d - 1][up[i]]
  <2>1. Paths(f) <=> f = [d \in 0..n |-> [i \in 0..n |-> A(d, i)]]
    OBVIOUS
  <2>2. Upward(f, n, seen, up) <=> f = [d \in 0..n |-> [i \in 0..n |-> B(d, i)]]
    BY DEF Upward
  <2>3. ASSUME NEW d \in 0..n, NEW i \in 0..n PROVE A(d, i) = B(d, i)
    <3>1. CASE i = 0
      BY <3>1
    <3>2. CASE i # 0
      <4>1. i \in 1..n
        BY <3>2
      <4>2. seen[i] = Demangle(Raw(nodes[i].fn)) /\ up[i] = nodes[i].parent
        BY <4>1
      <4> HIDE DEF seen, up
      <4>3. QED
        BY <4>2
    <3>3. QED
      BY <3>1, <3>2
  <2> HIDE DEF A, B, Paths
  <2>4. [d \in 0..n |-> [i \in 0..n |-> A(d, i)]] = [d \in 0..n |-> [i \in 0..n |-> B(d, i)]]
    BY <2>3
  <2>5. QED
    BY <2>1, <2>2, <2>4
<1>3. \A leaf : NodePath(nodes, leaf) = path[n][leaf]
  BY DEF NodePath, Raw
<1> HIDE DEF Paths, seen, up, n, P
<1>4. Upward(path, n, seen, up)
  <2>1. \E f : Upward(f, n, seen, up)
    BY <1>1, UpwardExists
  <2>2. QED
    BY <1>2, <2>1
<1> HIDE DEF path
<1>5. QED
  BY <1>3, <1>4 DEF PathOf, n, seen, up

\* One node's frame and those of the nodes above it, head last.
Framed(nodes, c) ==
    LET n == Len(nodes) IN
    Chain(c, n, [i \in 1..n |-> CpuFrame(nodes[i])], [i \in 1..n |-> nodes[i].parent])

\* The frames have the names of the path.
LEMMA FramesName ==
    ASSUME NEW N, NEW nodes \in Seq(N), Tree(nodes), NEW c, Framed(nodes, c)
    PROVE  \A m \in 0..Len(nodes) : SeenAs(c[m], CpuFrames(nodes), IF m = 0 THEN <<>> ELSE NodePath(nodes, m))
<1> DEFINE n == Len(nodes)
           F == CpuFrames(nodes)
           own == [i \in 1..n |-> CpuFrame(nodes[i])]
           up == [i \in 1..n |-> nodes[i].parent]
           seen == [i \in 1..n |-> Demangle(Raw(nodes[i].fn))]
           NamesIn(s) == [j \in DOMAIN s |-> s[j].lines[1].fn.name]
<1>1. PICK path : PathOf(nodes, path)
  BY NodePathIs
<1>2. /\ n \in Nat /\ own \in [1..n -> F] /\ \A i \in 1..n : up[i] \in 0..(i - 1)
  BY DEF Tree, CpuFrames
<1>3. Chain(c, n, own, up)
  BY DEF Framed
<1>4. \A i \in 1..n : own[i].lines[1].fn.name = seen[i]
  <2> SUFFICES ASSUME NEW i \in 1..n PROVE CpuFrame(nodes[i]).lines[1].fn.name = Demangle(Raw(nodes[i].fn))
    OBVIOUS
  <2>1. QED
    BY CpuFrameIs
<1>5. Upward(path, n, seen, up) /\ \A leaf : NodePath(nodes, leaf) = path[n][leaf]
  BY <1>1 DEF PathOf
<1> HIDE DEF own, up, seen, F, n
<1>6. \A m \in 0..n : c[m] \in Seq(F)
  BY <1>2, <1>3, ChainIs
<1>7. c[0] = <<>> /\ \A m \in 1..n : c[m] = <<own[m]>> \o c[up[m]]
  <2>1. \A m \in 0..n : c[m] = IF m = 0 THEN <<>> ELSE <<own[m]>> \o c[up[m]]
    BY <1>3, Zenon DEF Chain
  <2>2. 0 \in 0..n /\ \A m \in 1..n : m \in 0..n /\ m # 0
    BY <1>2
  <2>3. QED
    BY <2>1, <2>2, Zenon
<1>8. \A d, m \in 0..n : path[d][m] = IF d = 0 \/ m = 0 THEN <<>> ELSE <<seen[m]>> \o path[d - 1][up[m]]
  BY <1>5 DEF Upward
<1> DEFINE S == {k \in Nat : \A m, d \in 0..n : m <= k /\ m <= d => NamesIn(c[m]) = path[d][m]}
<1>9. NamesIn(<<>>) = <<>>
  OBVIOUS
<1>10. ASSUME NEW f \in F, NEW s \in Seq(F) PROVE NamesIn(<<f>> \o s) = <<f.lines[1].fn.name>> \o NamesIn(s)
  <2> DEFINE name == [g \in F |-> g.lines[1].fn.name]
             t == <<f>> \o s
  <2>1. /\ t \in Seq(F) /\ Len(t) = Len(s) + 1 /\ t[1] = f /\ Len(s) \in Nat
        /\ \A i \in 1..Len(s) : t[i + 1] = s[i]
    OBVIOUS
  <2> DEFINE x == NamesIn(t)
             y == NamesIn(s)
             P == Range(name)
  <2>2. \A g \in F : name[g] \in P
    BY DEF Range
  <2>3. DOMAIN y = 1..Len(s) /\ \A i \in 1..Len(s) : y[i] = name[s[i]] /\ s[i] \in F
    OBVIOUS
  <2>4. DOMAIN x = 1..(Len(s) + 1) /\ \A i \in 1..(Len(s) + 1) : x[i] = t[i].lines[1].fn.name
    BY <2>1
  <2>5. name[f] = f.lines[1].fn.name
    OBVIOUS
  <2>6. y = [i \in 1..Len(s) |-> y[i]] /\ x = [i \in 1..(Len(s) + 1) |-> x[i]]
    BY <2>3, <2>4
  <2> DEFINE k == Len(s)
             z == <<name[f]>> \o y
  <2>7. \A i \in 1..k : y[i] = s[i].lines[1].fn.name
    OBVIOUS
  <2> HIDE DEF x, y, P, t, name, k
  <2>8. y \in Seq(P)
    <3>1. y \in [1..k -> P]
      BY <2>2, <2>3, <2>6 DEF k
    <3>2. QED
      BY <2>1, <3>1 DEF k
  <2>9. z \in Seq(P) /\ Len(z) = k + 1 /\ z[1] = name[f] /\ \A i \in 1..k : z[i + 1] = y[i]
    <3>1. Len(y) = k
      BY <2>1, <2>3, <2>8 DEF k
    <3>2. QED
      BY <2>2, <2>8, <3>1
  <2>10. \A i \in 1..(k + 1) : x[i] = z[i]
    <3> HIDE DEF z
    <3>1. x[1] = z[1]
      BY <2>1, <2>4, <2>5, <2>9 DEF k
    <3>2. \A i \in 1..k : x[i + 1] = z[i + 1]
      <4> SUFFICES ASSUME NEW i \in 1..k PROVE x[i + 1] = z[i + 1]
        OBVIOUS
      <4>1. i + 1 \in 1..(k + 1)
        BY <2>1 DEF k
      <4>2. x[i + 1] = t[i + 1].lines[1].fn.name /\ t[i + 1] = s[i]
        BY <2>1, <2>4, <4>1 DEF k
      <4>3. z[i + 1] = s[i].lines[1].fn.name
        BY <2>7, <2>9
      <4>4. QED
        BY <4>2, <4>3
    <3>3. \A i \in 1..(k + 1) : i = 1 \/ \E j \in 1..k : i = j + 1
      <4> SUFFICES ASSUME NEW i \in 1..(k + 1), i # 1 PROVE \E j \in 1..k : i = j + 1
        OBVIOUS
      <4>1. i - 1 \in 1..k /\ i = (i - 1) + 1
        BY <2>1 DEF k
      <4>2. QED
        BY <4>1
    <3>4. QED
      BY <3>1, <3>2, <3>3
  <2> HIDE DEF z
  <2>11. x = z
    <3>1. z = [i \in 1..(k + 1) |-> z[i]]
      BY <2>1, <2>9 DEF k
    <3>2. QED
      BY <2>6, <2>10, <3>1 DEF k
  <2>12. QED
    BY <2>5, <2>11 DEF x, y, z, t
<1> HIDE DEF NamesIn
<1>11. 0 \in S
  <2> SUFFICES ASSUME NEW m \in 0..n, NEW d \in 0..n, m <= 0 PROVE NamesIn(c[m]) = path[d][m]
    OBVIOUS
  <2>1. m = 0
    BY <1>2
  <2>2. QED
    BY <1>7, <1>8, <1>9, <2>1
<1>12. ASSUME NEW k \in Nat, k \in S PROVE k + 1 \in S
  <2> SUFFICES ASSUME NEW m \in 0..n, NEW d \in 0..n, m <= k + 1, m <= d PROVE NamesIn(c[m]) = path[d][m]
    OBVIOUS
  <2>1. CASE m = 0
    BY <1>7, <1>8, <1>9, <2>1
  <2>2. CASE m # 0
    <3>1. m \in 1..n /\ up[m] \in 0..(m - 1)
      BY <1>2, <2>2
    <3>2. up[m] \in 0..n /\ d - 1 \in 0..n /\ up[m] <= k /\ up[m] <= d - 1 /\ d # 0
      BY <1>2, <3>1
    <3>3. NamesIn(c[up[m]]) = path[d - 1][up[m]]
      BY <1>12, <3>2
    <3>4. own[m] \in F /\ c[up[m]] \in Seq(F) /\ own[m].lines[1].fn.name = seen[m]
      BY <1>2, <1>4, <1>6, <3>1, <3>2
    <3>5. NamesIn(<<own[m]>> \o c[up[m]]) = <<seen[m]>> \o NamesIn(c[up[m]])
      BY <1>10, <3>4
    <3>6. c[m] = <<own[m]>> \o c[up[m]]
      BY <1>7, <3>1
    <3>7. path[d][m] = <<seen[m]>> \o path[d - 1][up[m]]
      BY <1>8, <2>2, <3>2
    <3>8. QED
      BY <3>3, <3>5, <3>6, <3>7
  <2>3. QED
    BY <2>1, <2>2
<1>13. n \in S
  <2> HIDE DEF S
  <2> QED
    BY <1>2, <1>11, <1>12, Induction
<1>14. SUFFICES ASSUME NEW m \in 0..n
                PROVE  SeenAs(c[m], F, IF m = 0 THEN <<>> ELSE NodePath(nodes, m))
  BY DEF n, F
<1>15. n \in 0..n /\ m <= n
  BY <1>2
<1>16. NamesIn(c[m]) = path[n][m]
  BY <1>13, <1>15
<1>17. path[n][m] = IF m = 0 THEN <<>> ELSE NodePath(nodes, m)
  BY <1>5, <1>8, <1>15
<1>18. QED
  BY <1>6, <1>16, <1>17 DEF SeenAs, NamesIn

-----------------------------------------------------------------------------
(* What is below a node.                                                   *)

\* A node and the nodes above it.
Above(nodes, above) ==
    LET n == Len(nodes) IN
    /\ above \in [0..n -> SUBSET Nat] /\ above[0] = {}
    /\ \A m \in 1..n : above[m] = {m} \cup above[nodes[m].parent]

LEMMA AboveExists ==
    ASSUME NEW N, NEW nodes \in Seq(N), Tree(nodes)
    PROVE  \E above : Above(nodes, above)
<1> DEFINE n == Len(nodes)
           own == [i \in 1..n |-> i]
           up == [i \in 1..n |-> nodes[i].parent]
<1>1. n \in Nat /\ own \in [1..n -> Nat] /\ \A s \in 1..n : up[s] \in 0..(s - 1)
  BY DEF Tree
<1> DEFINE O == Nat
<1>2. \A i \in 1..n : own[i] = i /\ up[i] = nodes[i].parent
  OBVIOUS
<1> HIDE DEF n, own, up
<1>3. PICK c \in [0..n -> Seq(O)] : Chain(c, n, own, up)
  BY <1>1, ChainExists
<1>4. \A m \in 0..n : c[m] = IF m = 0 THEN <<>> ELSE <<own[m]>> \o c[up[m]]
  BY <1>3, Zenon DEF Chain
<1>5. ASSUME NEW k \in O, NEW s \in Seq(O) PROVE Range(<<k>> \o s) = {k} \cup Range(s)
  <2> DEFINE t == <<k>> \o s
             l == Len(s)
  <2>1. /\ l \in Nat /\ Len(t) = l + 1 /\ t \in Seq(O) /\ t[1] = k /\ \A i \in 1..l : t[i + 1] = s[i]
        /\ DOMAIN s = 1..l /\ DOMAIN t = 1..(l + 1)
    OBVIOUS
  <2> HIDE DEF t, l
  <2>2. \A i \in 1..(l + 1) : i = 1 \/ \E j \in 1..l : i = j + 1
    <3> SUFFICES ASSUME NEW i \in 1..(l + 1), i # 1 PROVE \E j \in 1..l : i = j + 1
      OBVIOUS
    <3>1. i - 1 \in 1..l /\ i = (i - 1) + 1
      BY <2>1
    <3>2. QED
      BY <3>1
  <2>3. 1 \in 1..(l + 1) /\ \A j \in 1..l : j + 1 \in 1..(l + 1)
    BY <2>1
  <2>4. ASSUME NEW x \in Range(t) PROVE x \in {k} \cup Range(s)
    <3>1. PICK i \in 1..(l + 1) : x = t[i]
      BY <2>1 DEF Range
    <3>2. CASE i = 1
      BY <2>1, <3>1, <3>2
    <3>3. CASE i # 1
      <4>1. PICK j \in 1..l : i = j + 1
        BY <2>2, <3>3
      <4>2. x = s[j] /\ j \in DOMAIN s
        BY <2>1, <3>1, <4>1
      <4>3. QED
        BY <4>2 DEF Range
    <3>4. QED
      BY <3>2, <3>3
  <2>5. \A x \in {k} \cup Range(s) : x \in Range(t)
    <3>1. k \in Range(t)
      BY <2>1, <2>3 DEF Range
    <3>2. ASSUME NEW x \in Range(s) PROVE x \in Range(t)
      <4>1. PICK j \in 1..l : x = s[j]
        BY <2>1 DEF Range
      <4>2. t[j + 1] = x /\ j + 1 \in DOMAIN t
        BY <2>1, <2>3, <4>1
      <4>3. QED
        BY <4>2 DEF Range
    <3>3. QED
      BY <3>1, <3>2
  <2>6. QED
    BY <2>4, <2>5 DEF t
<1> DEFINE above == [m \in 0..n |-> Range(c[m])]
<1>6. \A m \in 0..n : Range(c[m]) \in SUBSET Nat
  BY DEF Range
<1>7. Range(<<>>) = {}
  BY DEF Range
<1>8. 0 \in 0..n /\ \A m \in 1..n : m \in 0..n /\ m # 0 /\ up[m] \in 0..n /\ own[m] \in O
  BY <1>1, <1>2
<1>9. above[0] = {}
  BY <1>4, <1>7, <1>8
<1>10. ASSUME NEW m \in 1..n PROVE above[m] = {m} \cup above[nodes[m].parent]
  <2>1. c[m] = <<own[m]>> \o c[up[m]]
    BY <1>4, <1>8
  <2>2. Range(c[m]) = {own[m]} \cup Range(c[up[m]])
    BY <1>5, <1>8, <2>1
  <2>3. QED
    BY <1>2, <1>8, <2>2
<1>11. above \in [0..n -> SUBSET Nat]
  BY <1>6
<1> HIDE DEF above
<1>12. QED
  BY <1>9, <1>10, <1>11 DEF Above, n

\* The nodes below a node, itself one of them.
Below(nodes, above, k) == {m \in 1..Len(nodes) : k \in above[m]}

KidsOf(nodes, k) == {m \in 1..Len(nodes) : nodes[m].parent = k}

\* What is below a node is the node and what is below its children, no two of
\* which share a node; and every node is below the first of a tree with one head.
Splits(nodes, above, k) ==
    /\ Below(nodes, above, k) = {k} \cup UNION {Below(nodes, above, j) : j \in KidsOf(nodes, k)}
    /\ \A j \in KidsOf(nodes, k) : j > k /\ k \notin Below(nodes, above, j)
    /\ \A i, j \in KidsOf(nodes, k) : i # j => Below(nodes, above, i) \cap Below(nodes, above, j) = {}

LEMMA BelowSplits ==
    ASSUME NEW N, NEW nodes \in Seq(N), Tree(nodes), NEW above, Above(nodes, above), NEW k \in 1..Len(nodes)
    PROVE  Splits(nodes, above, k)
<1> DEFINE n == Len(nodes)
           up == [i \in 1..n |-> nodes[i].parent]
           K == KidsOf(nodes, k)
<1>1. n \in Nat /\ \A m \in 1..n : up[m] \in 0..(m - 1)
  BY DEF Tree
<1>2. \A m \in 1..n : above[m] = {m} \cup above[up[m]]
  BY DEF Above
<1>3. above[0] = {}
  BY DEF Above
<1>4. K = {m \in 1..n : up[m] = k}
  BY DEF KidsOf
<1> HIDE DEF up, n, K
<1>5. k \in 1..n
  BY DEF n
<1>6. \A m \in 1..n : \A a \in above[m] : a <= m /\ a \in Nat
  <2> DEFINE S == {d \in Nat : \A m \in 0..n : m <= d => \A a \in above[m] : a <= m /\ a \in Nat}
  <2>1. 0 \in S
    BY <1>1, <1>3
  <2>2. ASSUME NEW d \in Nat, d \in S PROVE d + 1 \in S
    <3> SUFFICES ASSUME NEW m \in 0..n, m <= d + 1, NEW a \in above[m] PROVE a <= m /\ a \in Nat
      OBVIOUS
    <3>1. CASE m = 0
      BY <1>3, <3>1
    <3>2. CASE m # 0
      <4>1. m \in 1..n /\ up[m] \in 0..(m - 1)
        BY <1>1, <3>2
      <4>2. up[m] \in 0..n /\ up[m] <= d /\ up[m] < m /\ m \in Nat
        BY <1>1, <4>1
      <4>3. a = m \/ a \in above[up[m]]
        BY <1>2, <4>1
      <4>4. a \in above[up[m]] => a <= up[m] /\ a \in Nat
        BY <2>2, <4>2
      <4>5. QED
        BY <4>2, <4>3, <4>4
    <3>3. QED
      BY <3>1, <3>2
  <2>3. n \in S
    <3> HIDE DEF S
    <3> QED
      BY <1>1, <2>1, <2>2, Induction
  <2>4. QED
    BY <1>1, <2>3
<1>7. \A j \in K : j \in 1..n /\ up[j] = k /\ j > k
  <2> SUFFICES ASSUME NEW j \in K PROVE j \in 1..n /\ up[j] = k /\ j > k
    OBVIOUS
  <2>1. j \in 1..n /\ up[j] = k
    BY <1>4
  <2>2. QED
    BY <1>1, <1>5, <2>1
<1> DEFINE D == {d \in Nat : \A m \in 1..n : m <= d =>
                     /\ k \in above[m] /\ m # k => \E j \in K : j \in above[m]
                     /\ \A j \in K : j \in above[m] => k \in above[m]
                     /\ \A i, j \in K : i \in above[m] /\ j \in above[m] => i = j}
<1>8. 0 \in D
  OBVIOUS
<1>9. ASSUME NEW d \in Nat, d \in D PROVE d + 1 \in D
  <2> SUFFICES ASSUME NEW m \in 1..n, m <= d + 1
               PROVE  /\ k \in above[m] /\ m # k => \E j \in K : j \in above[m]
                      /\ \A j \in K : j \in above[m] => k \in above[m]
                      /\ \A i, j \in K : i \in above[m] /\ j \in above[m] => i = j
    OBVIOUS
  <2> DEFINE u == up[m]
  <2>1. above[m] = {m} \cup above[u] /\ u \in 0..(m - 1)
    BY <1>1, <1>2
  <2> HIDE DEF u
  <2>2. u = 0 \/ (u \in 1..n /\ u <= d)
    BY <1>1, <2>1
  <2>3. CASE u = 0
    <3>1. above[m] = {m}
      BY <1>3, <2>1, <2>3
    <3>2. m \notin K
      BY <1>5, <1>7, <2>3 DEF u
    <3>3. QED
      BY <3>1, <3>2
  <2>4. CASE u \in 1..n /\ u <= d
    <3>1. /\ k \in above[u] /\ u # k => \E j \in K : j \in above[u]
          /\ \A j \in K : j \in above[u] => k \in above[u]
          /\ \A i, j \in K : i \in above[u] /\ j \in above[u] => i = j
      BY <1>9, <2>4
    <3>2. k \in above[k]
      BY <1>2, <1>5
    <3>3. k \in above[m] /\ m # k => \E j \in K : j \in above[m]
      <4>1. CASE u = k
        BY <1>4, <2>1, <4>1 DEF u
      <4>2. CASE u # k
        BY <2>1, <3>1, <4>2
      <4>3. QED
        BY <4>1, <4>2
    <3>4. \A j \in K : j \in above[m] => k \in above[m]
      <4> SUFFICES ASSUME NEW j \in K, j \in above[m] PROVE k \in above[m]
        OBVIOUS
      <4>1. CASE j = m
        BY <1>7, <2>1, <3>2, <4>1 DEF u
      <4>2. CASE j # m
        BY <2>1, <3>1, <4>2
      <4>3. QED
        BY <4>1, <4>2
    <3>5. \A i, j \in K : i \in above[m] /\ j \in above[m] => i = j
      <4>1. \A j \in K : j \notin above[k]
        BY <1>5, <1>6, <1>7
      <4>2. m \in K => u = k
        BY <1>7 DEF u
      <4> SUFFICES ASSUME NEW i \in K, NEW j \in K, i \in above[m], j \in above[m] PROVE i = j
        OBVIOUS
      <4>3. (i = m \/ i \in above[u]) /\ (j = m \/ j \in above[u])
        BY <2>1
      <4>4. QED
        BY <3>1, <4>1, <4>2, <4>3
    <3>6. QED
      BY <3>3, <3>4, <3>5
  <2>5. QED
    BY <2>2, <2>3, <2>4
<1>10. n \in D
  <2> HIDE DEF D
  <2> QED
    BY <1>1, <1>8, <1>9, Induction
<1>11. \A m \in 1..n : /\ k \in above[m] /\ m # k => \E j \in K : j \in above[m]
                       /\ \A j \in K : j \in above[m] => k \in above[m]
                       /\ \A i, j \in K : i \in above[m] /\ j \in above[m] => i = j
  BY <1>1, <1>10
<1> HIDE DEF D
<1> DEFINE B(a) == Below(nodes, above, a)
<1>12. \A a, m : m \in B(a) <=> m \in 1..n /\ a \in above[m]
  BY DEF Below, n
<1> HIDE DEF B
<1>13. k \in B(k)
  BY <1>2, <1>5, <1>12
<1>14. \A m : m \in B(k) <=> m = k \/ \E j \in K : m \in B(j)
  BY <1>11, <1>12, <1>13
<1>15. \A j \in K : k \notin B(j)
  <2> SUFFICES ASSUME NEW j \in K, j \in above[k] PROVE FALSE
    BY <1>12
  <2>1. QED
    BY <1>5, <1>6, <1>7
<1>16. \A i, j \in K : i # j => B(i) \cap B(j) = {}
  BY <1>11, <1>12
<1>17. B(k) = {k} \cup UNION {B(j) : j \in K}
  BY <1>14
<1>18. QED
  BY <1>7, <1>15, <1>16, <1>17 DEF Splits, B, K

\* Every node is below the first of a tree with one head.
LEMMA BelowAll ==
    ASSUME NEW N, NEW nodes \in Seq(N), Tree(nodes), Rooted(nodes), NEW above, Above(nodes, above)
    PROVE  Below(nodes, above, 1) = 1..Len(nodes)
<1> DEFINE n == Len(nodes)
           D == {d \in Nat : \A m \in 1..n : m <= d => 1 \in above[m]}
<1>1. n \in Nat /\ \A m \in 1..n : nodes[m].parent \in 0..(m - 1)
  BY DEF Tree
<1>2. \A m \in 1..n : above[m] = {m} \cup above[nodes[m].parent]
  BY DEF Above
<1>3. \A m \in 1..n : m # 1 => nodes[m].parent # 0
  BY DEF Rooted
<1> HIDE DEF n
<1>4. 0 \in D
  OBVIOUS
<1>5. ASSUME NEW d \in Nat, d \in D PROVE d + 1 \in D
  <2> SUFFICES ASSUME NEW m \in 1..n, m <= d + 1 PROVE 1 \in above[m]
    OBVIOUS
  <2>1. CASE m = 1
    BY <1>2, <2>1
  <2>2. CASE m # 1
    <3> DEFINE u == nodes[m].parent
    <3>1. u \in 0..(m - 1) /\ u # 0 /\ above[m] = {m} \cup above[u]
      BY <1>1, <1>2, <1>3, <2>2
    <3> HIDE DEF u
    <3>2. u \in 1..n /\ u <= d
      BY <1>1, <3>1
    <3>3. QED
      BY <1>5, <3>1, <3>2
  <2>3. QED
    BY <2>1, <2>2
<1>6. n \in D
  <2> HIDE DEF D
  <2> QED
    BY <1>1, <1>4, <1>5, Induction
<1>7. \A m \in 1..n : 1 \in above[m]
  BY <1>1, <1>6
<1>8. QED
  BY <1>7 DEF Below, n

-----------------------------------------------------------------------------
(* A recursion down a tree.                                                *)

\* What is there of a node and then of its children, in their order.
Down(v, m, S, own, mine, kids) ==
    [path \in S |->
        mine[m][<<own[m]>> \o path] \o
        FlattenSeq([k \in DOMAIN kids[m] |-> v[kids[m][k]][<<own[m]>> \o path]])]

Downward(w, n, S, own, mine, kids) == w = [m \in 1..n |-> Down(w, m, S, own, mine, kids)]

\* The children come after their node.
Descends(n, F, Y, own, mine, kids) ==
    /\ n \in Nat /\ own \in [1..n -> F] /\ mine \in [1..n -> [Seq(F) -> Seq(Y)]]
    /\ kids \in [1..n -> Seq(1..n)]
    /\ \A m \in 1..n : \A k \in DOMAIN kids[m] : kids[m][k] > m

\* The lists of a node are read off those of the nodes after it.
LEMMA DownIs ==
    ASSUME NEW n, NEW F, NEW Y, NEW own, NEW mine, NEW kids, Descends(n, F, Y, own, mine, kids),
           NEW m \in 1..n, NEW v, \A j \in 1..n : j > m => v[j] \in [Seq(F) -> Seq(Y)]
    PROVE  /\ Down(v, m, Seq(F), own, mine, kids) \in [Seq(F) -> Seq(Y)]
           /\ \A u : (\A j \in 1..n : j > m => u[j] = v[j])
                => Down(u, m, Seq(F), own, mine, kids) = Down(v, m, Seq(F), own, mine, kids)
<1> DEFINE D == DOMAIN kids[m]
           here(path) == <<own[m]>> \o path
           below(x, path) == [k \in D |-> x[kids[m][k]][here(path)]]
<1>1. /\ n \in Nat /\ own[m] \in F /\ mine[m] \in [Seq(F) -> Seq(Y)] /\ kids[m] \in Seq(1..n)
      /\ \A k \in D : kids[m][k] > m
  BY DEF Descends
<1>2. \A k \in D : kids[m][k] \in 1..n /\ kids[m][k] > m
  BY <1>1
<1>3. \A path \in Seq(F) : here(path) \in Seq(F)
  BY <1>1
<1>4. D = 1..Len(kids[m]) /\ Len(kids[m]) \in Nat
  BY <1>1
<1>5. ASSUME NEW path \in Seq(F) PROVE mine[m][here(path)] \o FlattenSeq(below(v, path)) \in Seq(Y)
  <2>1. mine[m][here(path)] \in Seq(Y)
    BY <1>1, <1>3
  <2>2. \A k \in D : v[kids[m][k]][here(path)] \in Seq(Y)
    BY <1>2, <1>3
  <2> DEFINE b == below(v, path)
  <2>3. b \in [1..Len(kids[m]) -> Seq(Y)]
    BY <1>4, <2>2
  <2> HIDE DEF b
  <2>4. b \in Seq(Seq(Y))
    BY <1>4, <2>3
  <2>5. FlattenSeq(b) \in Seq(Y)
    BY <2>4, FlattenType
  <2>6. QED
    BY <2>1, <2>5 DEF b
<1>6. \A x : Down(x, m, Seq(F), own, mine, kids)
               = [path \in Seq(F) |-> mine[m][here(path)] \o FlattenSeq(below(x, path))]
  BY Zenon DEF Down
<1>7. ASSUME NEW u, \A j \in 1..n : j > m => u[j] = v[j], NEW path PROVE below(u, path) = below(v, path)
  <2>1. \A k \in D : u[kids[m][k]] = v[kids[m][k]]
    BY <1>2, <1>7
  <2> HIDE DEF D, here
  <2>2. QED
    BY <2>1
<1> HIDE DEF below, here
<1>8. Down(v, m, Seq(F), own, mine, kids) \in [Seq(F) -> Seq(Y)]
  <2> DEFINE e(path) == mine[m][here(path)] \o FlattenSeq(below(v, path))
  <2>1. Down(v, m, Seq(F), own, mine, kids) = [path \in Seq(F) |-> e(path)]
    BY <1>6
  <2>2. \A path \in Seq(F) : e(path) \in Seq(Y)
    BY <1>5
  <2> HIDE DEF e
  <2>3. QED
    BY <2>1, <2>2
<1>9. ASSUME NEW u, \A j \in 1..n : j > m => u[j] = v[j]
      PROVE  Down(u, m, Seq(F), own, mine, kids) = Down(v, m, Seq(F), own, mine, kids)
  <2>1. \A path : below(u, path) = below(v, path)
    BY <1>7, <1>9
  <2>2. QED
    BY <1>6, <2>1
<1>10. QED
  BY <1>8, <1>9

\* There is such a recursion.
LEMMA DownwardExists ==
    ASSUME NEW n, NEW F, NEW Y, NEW own, NEW mine, NEW kids, Descends(n, F, Y, own, mine, kids)
    PROVE  \E w : Downward(w, n, Seq(F), own, mine, kids)
<1> DEFINE V == [1..n -> [Seq(F) -> Seq(Y)]]
           Of1(v, m) == Down(v, m, Seq(F), own, mine, kids)
           base == [m \in 1..n |-> [path \in Seq(F) |-> <<>>]]
           Step(v) == [m \in 1..n |-> Of1(v, m)]
           step == [p \in (1..n) \X V |-> Step(p[2])]
<1>1. n \in Nat
  BY DEF Descends
<1>2. base \in V
  OBVIOUS
<1>3. ASSUME NEW v \in V, NEW m \in 1..n PROVE Of1(v, m) \in [Seq(F) -> Seq(Y)]
  <2>1. \A j \in 1..n : j > m => v[j] \in [Seq(F) -> Seq(Y)]
    OBVIOUS
  <2>2. QED
    BY <2>1, DownIs
<1>4. ASSUME NEW v \in V, NEW u, NEW m \in 1..n, \A j \in 1..n : j > m => u[j] = v[j]
      PROVE  Of1(u, m) = Of1(v, m)
  <2>1. \A j \in 1..n : j > m => v[j] \in [Seq(F) -> Seq(Y)]
    OBVIOUS
  <2> HIDE DEF V
  <2>2. QED
    BY <1>4, <2>1, DownIs
<1> HIDE DEF Of1
<1>5. \A v \in V : Step(v) \in V
  BY <1>3
<1>6. \A v : \A m \in 1..n : Step(v)[m] = Of1(v, m)
  OBVIOUS
<1>7. step \in [(1..n) \X V -> V] /\ \A k \in 1..n, v \in V : step[<<k, v>>] = Step(v)
  <2> HIDE DEF V, Step
  <2> QED
    BY <1>5
<1>8. ASSUME NEW v, v = Step(v) PROVE Downward(v, n, Seq(F), own, mine, kids)
  BY <1>8 DEF Downward, Of1
<1>9. \A v \in V : v = [m \in 1..n |-> v[m]]
  OBVIOUS
<1>14. \A v : Step(v) = [m \in 1..n |-> Of1(v, m)]
  OBVIOUS
<1> HIDE DEF V, base, step, Step
<1>10. PICK g \in [0..n -> V] : Recurs(g, base, step, n)
  BY <1>1, <1>2, <1>7, RecursionExists
<1>11. \A k \in 1..n : g[k] = Step(g[k - 1])
  <2> SUFFICES ASSUME NEW k \in 1..n PROVE g[k] = Step(g[k - 1])
    OBVIOUS
  <2>1. k - 1 \in 0..n
    BY <1>1
  <2>2. g[k - 1] \in V
    BY <2>1
  <2>3. g[k] = step[<<k, g[k - 1]>>]
    BY <1>10 DEF Recurs
  <2>4. QED
    BY <1>7, <2>2, <2>3
<1> DEFINE S == {k \in Nat : k <= n => \A m \in 1..n : m > n - k => Of1(g[k], m) = g[k][m]}
<1>12. 0 \in S
  BY <1>1
<1>13. ASSUME NEW k \in Nat, k \in S PROVE k + 1 \in S
  <2> SUFFICES ASSUME k + 1 <= n, NEW m \in 1..n, m > n - (k + 1) PROVE Of1(g[k + 1], m) = g[k + 1][m]
    OBVIOUS
  <2>1. k \in 0..n /\ k + 1 \in 0..n /\ k + 1 \in 1..n /\ (k + 1) - 1 = k /\ k <= n
    BY <1>1
  <2>2. g[k] \in V /\ g[k + 1] = Step(g[k])
    BY <1>11, <2>1
  <2>3. \A j \in 1..n : g[k + 1][j] = Of1(g[k], j)
    BY <1>6, <2>2
  <2>4. \A j \in 1..n : j > m => g[k + 1][j] = g[k][j]
    <3> SUFFICES ASSUME NEW j \in 1..n, j > m PROVE g[k + 1][j] = g[k][j]
      OBVIOUS
    <3>1. j > n - k
      BY <1>1
    <3>2. Of1(g[k], j) = g[k][j]
      BY <1>13, <2>1, <3>1
    <3>3. QED
      BY <2>3, <3>2
  <2>5. Of1(g[k + 1], m) = Of1(g[k], m)
    BY <1>4, <2>2, <2>4
  <2>6. QED
    BY <2>3, <2>5
<1>15. n \in S
  <2> HIDE DEF S
  <2> QED
    BY <1>1, <1>12, <1>13, Induction
<1>16. n \in 0..n /\ \A m \in 1..n : Of1(g[n], m) = g[n][m]
  BY <1>1, <1>15
<1>17. g[n] = Step(g[n])
  <2>1. g[n] \in V
    BY <1>16
  <2>2. QED
    BY <1>9, <1>14, <1>16, <2>1
<1>18. QED
  BY <1>8, <1>17

\* Every solution is one of sequences.
LEMMA DownwardIs ==
    ASSUME NEW n, NEW F, NEW Y, NEW own, NEW mine, NEW kids, Descends(n, F, Y, own, mine, kids),
           NEW w, Downward(w, n, Seq(F), own, mine, kids)
    PROVE  \A m \in 1..n : w[m] \in [Seq(F) -> Seq(Y)]
<1> DEFINE Typed(m) == w[m] \in [Seq(F) -> Seq(Y)]
           S == {k \in Nat : \A m \in 1..n : m > n - k => Typed(m)}
<1>1. n \in Nat
  BY DEF Descends
<1>2. \A m \in 1..n : w[m] = Down(w, m, Seq(F), own, mine, kids)
  BY Zenon DEF Downward
<1>3. ASSUME NEW m \in 1..n, \A j \in 1..n : j > m => Typed(j) PROVE Typed(m)
  BY <1>2, <1>3, DownIs
<1> HIDE DEF Typed
<1>4. 0 \in S
  BY <1>1
<1>5. ASSUME NEW k \in Nat, k \in S PROVE k + 1 \in S
  <2> SUFFICES ASSUME NEW m \in 1..n, m > n - (k + 1) PROVE Typed(m)
    OBVIOUS
  <2>1. \A j \in 1..n : j > m => Typed(j)
    BY <1>1, <1>5
  <2>2. QED
    BY <1>3, <2>1
<1>6. n \in S
  <2> HIDE DEF S
  <2> QED
    BY <1>1, <1>4, <1>5, Induction
<1>7. QED
  BY <1>1, <1>6 DEF Typed

\* The children of each node, once.
KidsAre(kids, nodes) ==
    \A m \in 1..Len(nodes) :
       /\ \A k \in DOMAIN kids[m] : kids[m][k] \in KidsOf(nodes, m)
       /\ \A j \in KidsOf(nodes, m) : \E k \in DOMAIN kids[m] : kids[m][k] = j
       /\ \A k, l \in DOMAIN kids[m] : kids[m][k] = kids[m][l] => k = l

\* When each node has what r has for it if it is one of X, the recursion lists
\* what is below a node.
LEMMA DownwardLists ==
    ASSUME NEW N, NEW nodes \in Seq(N), Tree(nodes), NEW above, Above(nodes, above),
           NEW F, NEW Y, NEW own, NEW mine, NEW kids, Descends(Len(nodes), F, Y, own, mine, kids),
           KidsAre(kids, nodes), NEW w, Downward(w, Len(nodes), Seq(F), own, mine, kids),
           NEW up, \A m \in 1..Len(nodes) : up[m] = nodes[m].parent,
           NEW c, Chain(c, Len(nodes), own, up), NEW X, NEW r,
           \A m \in 1..Len(nodes) : Lists(mine[m][c[m]], X \cap {m}, r)
    PROVE  \A m \in 1..Len(nodes) : Lists(w[m][c[up[m]]], X \cap Below(nodes, above, m), r)
<1> DEFINE n == Len(nodes)
           B(m) == Below(nodes, above, m)
           K(m) == KidsOf(nodes, m)
           Done(m) == Lists(w[m][c[up[m]]], X \cap B(m), r)
           S == {k \in Nat : \A m \in 1..n : m > n - k => Done(m)}
<1>1. /\ n \in Nat /\ own \in [1..n -> F] /\ mine \in [1..n -> [Seq(F) -> Seq(Y)]]
      /\ \A m \in 1..n : kids[m] \in Seq(1..n)
  BY DEF Descends
<1>2. \A m \in 1..n : up[m] \in 0..(m - 1) /\ up[m] \in 0..n
  <2> SUFFICES ASSUME NEW m \in 1..n PROVE up[m] \in 0..(m - 1) /\ up[m] \in 0..n
    OBVIOUS
  <2>1. nodes[m].parent \in 0..(m - 1) /\ up[m] = nodes[m].parent
    BY DEF Tree
  <2> HIDE DEF n
  <2>2. QED
    BY <1>1, <2>1
<1>3. \A m \in 1..n : w[m] = Down(w, m, Seq(F), own, mine, kids)
  BY Zenon DEF Downward
<1>4. \A m \in 1..n : w[m] \in [Seq(F) -> Seq(Y)]
  BY DownwardIs
<1>5. \A m \in 0..n : c[m] \in Seq(F)
  BY <1>1, <1>2, ChainIs
<1>6. \A m \in 1..n : c[m] = <<own[m]>> \o c[up[m]]
  <2>1. \A m \in 0..n : c[m] = IF m = 0 THEN <<>> ELSE <<own[m]>> \o c[up[m]]
    BY Zenon DEF Chain
  <2>2. \A m \in 1..n : m \in 0..n /\ m # 0
    BY <1>1
  <2>3. QED
    BY <2>1, <2>2, Zenon
<1>7. \A m \in 1..n : \A k \in DOMAIN kids[m] : kids[m][k] \in 1..n /\ up[kids[m][k]] = m
  BY DEF KidsAre, KidsOf
<1>8. \A m \in 1..n : Splits(nodes, above, m)
  BY BelowSplits
<1>9. ASSUME NEW m \in 1..n, \A j \in 1..n : j > m => Done(j) PROVE Done(m)
  <2> DEFINE s == kids[m]
             l == Len(s)
             lists == [k \in DOMAIN s |-> w[s[k]][c[m]]]
             mineAt == mine[m][c[m]]
             Z == [k \in 1..l |-> X \cap B(s[k])]
  <2>1. s \in Seq(1..n) /\ l \in Nat /\ DOMAIN s = 1..l
    BY <1>1
  <2>2. m \in 0..n /\ c[m] \in Seq(F) /\ c[up[m]] \in Seq(F)
    BY <1>1, <1>2, <1>5
  <2>3. w[m][c[up[m]]] = mineAt \o FlattenSeq(lists)
    <3>1. Down(w, m, Seq(F), own, mine, kids)[c[up[m]]]
            = mine[m][<<own[m]>> \o c[up[m]]] \o
              FlattenSeq([k \in DOMAIN kids[m] |-> w[kids[m][k]][<<own[m]>> \o c[up[m]]]])
      BY <2>2, Zenon DEF Down
    <3>2. <<own[m]>> \o c[up[m]] = c[m]
      BY <1>6
    <3>3. w[m] = Down(w, m, Seq(F), own, mine, kids)
      BY <1>3
    <3>4. QED
      BY <3>1, <3>2, <3>3, Zenon
  <2>4. \A k \in 1..l : s[k] \in 1..n /\ s[k] \in K(m) /\ s[k] > m /\ up[s[k]] = m
    <3>1. \A k \in 1..l : s[k] \in K(m)
      BY <2>1 DEF KidsAre
    <3>2. \A j \in K(m) : j > m
      BY <1>8 DEF Splits
    <3>3. QED
      BY <1>7, <2>1, <3>1, <3>2
  <2> HIDE DEF Done
  <2>5. \A k \in 1..l : Done(s[k])
    BY <1>9, <2>4
  <2>6. \A k \in 1..l : Lists(w[s[k]][c[m]], X \cap B(s[k]), r)
    BY <2>4, <2>5 DEF Done
  <2>7. lists \in Seq(Seq(Y)) /\ Len(lists) = l
    <3>1. \A k \in 1..l : w[s[k]][c[m]] \in Seq(Y)
      BY <1>4, <2>2, <2>4
    <3>2. lists \in [1..l -> Seq(Y)]
      BY <2>1, <3>1
    <3>3. l \in Nat
      BY <2>1
    <3> HIDE DEF lists, s, l
    <3>4. lists \in Seq(Seq(Y))
      BY <3>2, <3>3
    <3>5. Len(lists) = l
      BY <3>2, <3>3, <3>4
    <3>6. QED
      BY <3>4, <3>5
  <2>8. \A k \in 1..l : lists[k] = w[s[k]][c[m]] /\ Z[k] = X \cap B(s[k])
    BY <2>1
  <2>9. mineAt \in Seq(Y)
    BY <1>1, <2>2
  <2>10. Lists(mineAt, X \cap {m}, r)
    OBVIOUS
  <2> HIDE DEF lists, Z, mineAt, s, l
  <2>11. /\ B(m) = {m} \cup UNION {B(j) : j \in K(m)}
         /\ \A j \in K(m) : m \notin B(j)
         /\ \A i, j \in K(m) : i # j => B(i) \cap B(j) = {}
    BY <1>8 DEF Splits
  <2>12. /\ \A j \in K(m) : \E k \in 1..l : s[k] = j
         /\ \A k, i \in 1..l : s[k] = s[i] => k = i
    BY <2>1 DEF KidsAre, s
  <2> HIDE DEF B, K
  <2>13. \A k, i \in 1..l : k # i => Z[k] \cap Z[i] = {}
    <3> SUFFICES ASSUME NEW k \in 1..l, NEW i \in 1..l, k # i PROVE Z[k] \cap Z[i] = {}
      OBVIOUS
    <3>1. B(s[k]) \cap B(s[i]) = {}
      BY <2>4, <2>11, <2>12
    <3>2. QED
      BY <2>8, <3>1
  <2>14. \A k \in 1..l : Lists(lists[k], Z[k], r)
    BY <2>6, <2>8
  <2> DEFINE U == UNION {Z[k] : k \in 1..l}
  <2>15. Lists(FlattenSeq(lists), U, r)
    <3>1. lists \in Seq(Seq(Y)) /\ Len(lists) = l
      BY <2>7
    <3>2. \A k \in 1..Len(lists) : Lists(lists[k], Z[k], r)
      BY <2>14, <3>1
    <3>3. \A k, i \in 1..Len(lists) : k # i => Z[k] \cap Z[i] = {}
      BY <2>13, <3>1
    <3>4. Lists(FlattenSeq(lists), UNION {Z[k] : k \in 1..Len(lists)}, r)
      BY <3>1, <3>2, <3>3, ListsJoined
    <3>5. QED
      BY <3>1, <3>4
  <2>16. FlattenSeq(lists) \in Seq(Y)
    BY <2>7, FlattenType
  <2>17. (X \cap {m}) \cap U = {}
    BY <2>4, <2>8, <2>11
  <2>18. (X \cap {m}) \cup U = X \cap B(m)
    <3>1. \A x \in U : x \in X /\ x \in B(m)
      BY <2>4, <2>8, <2>11
    <3>2. ASSUME NEW x \in X, x \in B(m), x # m PROVE x \in U
      <4>1. PICK j \in K(m) : x \in B(j)
        BY <2>11, <3>2
      <4>2. PICK k \in 1..l : s[k] = j
        BY <2>12
      <4>3. x \in Z[k]
        BY <2>8, <4>1, <4>2
      <4>4. QED
        BY <4>3
    <3>3. m \in B(m)
      BY <2>11
    <3> HIDE DEF U
    <3>4. QED
      BY <3>1, <3>2, <3>3
  <2> HIDE DEF U
  <2>19. Lists(mineAt \o FlattenSeq(lists), (X \cap {m}) \cup U, r)
    BY <2>9, <2>10, <2>15, <2>16, <2>17, ListsBoth
  <2>20. QED
    BY <2>3, <2>18, <2>19 DEF Done
<1> HIDE DEF Done
<1>10. 0 \in S
  BY <1>1
<1>11. ASSUME NEW k \in Nat, k \in S PROVE k + 1 \in S
  <2> SUFFICES ASSUME NEW m \in 1..n, m > n - (k + 1) PROVE Done(m)
    OBVIOUS
  <2>1. \A j \in 1..n : j > m => Done(j)
    BY <1>1, <1>11
  <2>2. QED
    BY <1>9, <2>1
<1>12. n \in S
  <2> HIDE DEF S
  <2> QED
    BY <1>1, <1>10, <1>11, Induction
<1>13. \A m \in 1..n : Done(m)
  BY <1>1, <1>12
<1>14. QED
  BY <1>13 DEF Done

-----------------------------------------------------------------------------
(* V8's heap.                                                              *)

LEMMA HeapFrameIs == ASSUME NEW node PROVE HeapFrame(node) = CpuFrame(node)
BY DEF HeapFrame, CpuFrame

\* The walk is a recursion down the tree.
WalkOf(profile, w) ==
    LET all == profile.nodes
        n == Len(all)
        F == CpuFrames(all)
    IN  /\ Downward(w, n, Seq(F), [i \in 1..n |-> CpuFrame(all[i])],
                    [i \in 1..n |-> [path \in Seq(F) |-> Own(profile, all[i], path)]],
                    [i \in 1..n |-> Kids(profile, all[i])])
        /\ Walk(profile) = w[1][<<>>]

LEMMA WalkIs ==
    ASSUME NEW profile, NEW N, profile.nodes \in Seq(N), NEW Y,
           Descends(Len(profile.nodes), CpuFrames(profile.nodes), Y,
                    [i \in 1..Len(profile.nodes) |-> CpuFrame(profile.nodes[i])],
                    [i \in 1..Len(profile.nodes) |->
                        [path \in Seq(CpuFrames(profile.nodes)) |-> Own(profile, profile.nodes[i], path)]],
                    [i \in 1..Len(profile.nodes) |-> Kids(profile, profile.nodes[i])])
    PROVE  \E w : WalkOf(profile, w)
<1> DEFINE all == profile.nodes
           n == Len(all)
           F == CpuFrames(all)
           own == [i \in 1..n |-> CpuFrame(all[i])]
           mine == [i \in 1..n |-> [path \in Seq(F) |-> Own(profile, all[i], path)]]
           kids == [i \in 1..n |-> Kids(profile, all[i])]
           Frames == {HeapFrame(all[m]) : m \in DOMAIN all}
           Here(m, path) == <<HeapFrame(all[m])>> \o path
           At1(v, m) == [path \in Seq(Frames) |->
                            Own(profile, all[m], Here(m, path)) \o
                            FlattenSeq([k \in DOMAIN Kids(profile, all[m]) |->
                                           v[Kids(profile, all[m])[k]][Here(m, path)]])]
           Is1(v) == v = [m \in DOMAIN all |-> At1(v, m)]
           walk == CHOOSE v : Is1(v)
<1>1. Walk(profile) = walk[1][<<>>]
  BY DEF Walk
<1>2. n \in Nat /\ DOMAIN all = 1..n /\ Descends(n, F, Y, own, mine, kids)
  OBVIOUS
<1>3. Frames = F
  <2>1. \A m \in 1..n : HeapFrame(all[m]) = CpuFrame(all[m])
    BY HeapFrameIs
  <2> HIDE DEF all, n
  <2>2. QED
    BY <1>2, <2>1 DEF CpuFrames, n
<1>4. ASSUME NEW v, NEW m \in 1..n PROVE At1(v, m) = Down(v, m, Seq(F), own, mine, kids)
  <2> DEFINE a == all[m]
             K == Kids(profile, a)
             f == CpuFrame(a)
  <2>1. own[m] = f /\ mine[m] = [path \in Seq(F) |-> Own(profile, a, path)] /\ kids[m] = K
    OBVIOUS
  <2>2. HeapFrame(a) = f /\ f \in F
    BY HeapFrameIs DEF CpuFrames
  <2> HIDE DEF f, K, own, mine, kids, F
  <2>3. At1(v, m) = [path \in Seq(F) |-> Own(profile, a, <<f>> \o path) \o
                         FlattenSeq([k \in DOMAIN K |-> v[K[k]][<<f>> \o path]])]
    BY <1>3, <2>2, Zenon DEF K
  <2>4. Down(v, m, Seq(F), own, mine, kids)
          = [path \in Seq(F) |-> mine[m][<<f>> \o path] \o
                FlattenSeq([k \in DOMAIN K |-> v[K[k]][<<f>> \o path]])]
    BY <2>1, Zenon DEF Down
  <2>5. ASSUME NEW path \in Seq(F) PROVE mine[m][<<f>> \o path] = Own(profile, a, <<f>> \o path)
    <3> DEFINE h == <<f>> \o path
    <3>1. h \in Seq(F)
      BY <2>2
    <3> HIDE DEF h, a
    <3>2. mine[m][h] = Own(profile, a, h)
      BY <2>1, <3>1
    <3>3. QED
      BY <3>2 DEF h
  <2> HIDE DEF At1, a
  <2>6. QED
    BY <2>3, <2>4, <2>5
<1> HIDE DEF At1, Frames, own, mine, kids
<1>5. ASSUME NEW v PROVE Is1(v) <=> Downward(v, n, Seq(F), own, mine, kids)
  <2>1. [m \in DOMAIN all |-> At1(v, m)] = [m \in 1..n |-> Down(v, m, Seq(F), own, mine, kids)]
    BY <1>2, <1>4
  <2>2. QED
    BY <2>1 DEF Downward
<1>6. \E v : Downward(v, n, Seq(F), own, mine, kids)
  <2> HIDE DEF n, F
  <2> QED
    BY <1>2, DownwardExists
<1> HIDE DEF Is1
<1>7. Is1(walk)
  BY <1>5, <1>6
<1> HIDE DEF walk
<1>8. Downward(walk, n, Seq(F), own, mine, kids)
  BY <1>5, <1>7
<1>9. WalkOf(profile, walk)
  BY <1>1, <1>8 DEF WalkOf, own, mine, kids
<1>10. QED
  BY <1>9

\* The nodes of a heap, numbered, each after its parent and with its bytes; and
\* how many objects each has.
HeapTree(profile, objects) ==
    LET all == profile.nodes IN
    /\ all \in Seq(Range(all)) /\ Tree(all)
    /\ \A i \in 1..Len(all) :
          /\ all[i].id = i /\ all[i].size \in Int
          /\ objects[i] \in Int /\ ObjectsOf(profile, i) = objects[i]

HeapOwn(profile) == [i \in 1..Len(profile.nodes) |-> CpuFrame(profile.nodes[i])]
HeapMine(profile) ==
    [i \in 1..Len(profile.nodes) |->
        [path \in Seq(CpuFrames(profile.nodes)) |-> Own(profile, profile.nodes[i], path)]]
HeapKids(profile) == [i \in 1..Len(profile.nodes) |-> Kids(profile, profile.nodes[i])]

\* What a node has of its own.
LEMMA OwnIs ==
    ASSUME NEW profile, NEW objects, HeapTree(profile, objects), NEW m \in 1..Len(profile.nodes), NEW path
    PROVE  Own(profile, profile.nodes[m], path) =
             IF profile.nodes[m].size > 0
             THEN <<[frames |-> path, value |-> <<objects[m], profile.nodes[m].size>>]>> ELSE <<>>
<1>1. profile.nodes[m].id = m /\ ObjectsOf(profile, m) = objects[m]
  BY DEF HeapTree
<1>2. QED
  BY <1>1, Zenon DEF Own

\* The children of the nodes are in their order.
LEMMA HeapKidsAre ==
    ASSUME NEW profile, NEW objects, HeapTree(profile, objects)
    PROVE  /\ HeapKids(profile) \in [1..Len(profile.nodes) -> Seq(1..Len(profile.nodes))]
           /\ KidsAre(HeapKids(profile), profile.nodes)
<1> DEFINE all == profile.nodes
           n == Len(all)
           kids == HeapKids(profile)
<1>1. n \in Nat /\ DOMAIN all = 1..n /\ \A i \in 1..n : all[i].id = i
  <2>1. all \in Seq(Range(all)) /\ \A i \in 1..n : all[i].id = i
    BY DEF HeapTree
  <2> HIDE DEF all
  <2>2. QED
    BY <2>1
<1>2. ASSUME NEW m \in 1..n
      PROVE  LET K == KidsOf(all, m) IN kids[m] = InOrder(K) /\ K \in SUBSET (1..n) /\ IsFiniteSet(K)
  <2> DEFINE K == KidsOf(all, m)
  <2>1. K \in SUBSET (1..n) /\ IsFiniteSet(K)
    <3>1. K \in SUBSET (1..n) /\ IsFiniteSet(1..n)
      BY <1>1, FS_Interval DEF KidsOf
    <3>2. QED
      BY <3>1, FS_Subset
  <2>2. kids[m] = Kids(profile, all[m])
    BY DEF HeapKids
  <2>3. {c \in DOMAIN all : all[c].parent = all[m].id} = K
    BY <1>1 DEF KidsOf
  <2>4. Kids(profile, all[m]) = InOrder(K)
    BY <2>3 DEF Kids
  <2>5. QED
    BY <2>1, <2>2, <2>4
<1>3. ASSUME NEW m \in 1..n
      PROVE  /\ kids[m] \in Seq(1..n)
             /\ \A k \in DOMAIN kids[m] : kids[m][k] \in KidsOf(all, m)
             /\ \A j \in KidsOf(all, m) : \E k \in DOMAIN kids[m] : kids[m][k] = j
             /\ \A k, l \in DOMAIN kids[m] : kids[m][k] = kids[m][l] => k = l
  <2> DEFINE K == KidsOf(all, m)
             s == kids[m]
             c == Cardinality(K)
  <2>1. s = InOrder(K) /\ K \in SUBSET (1..n) /\ IsFiniteSet(K)
    BY <1>2
  <2> HIDE DEF K, s
  <2>2. K \in SUBSET Int
    BY <1>1, <2>1
  <2>3. Ascends(s, c, K)
    BY <2>1, <2>2, InOrderIs
  <2>4. c \in Nat
    BY <2>1, FS_CardinalityType
  <2> HIDE DEF c
  <2>5. /\ s \in [1..c -> K] /\ \A x \in K : \E k \in 1..c : s[k] = x
        /\ \A i, j \in 1..c : s[i] = s[j] => i = j
    BY <2>3 DEF Ascends, Orders
  <2>6. s \in [1..c -> 1..n]
    BY <2>1, <2>5
  <2>7. s \in Seq(1..n)
    BY <2>4, <2>6
  <2>8. DOMAIN s = 1..c
    BY <2>5
  <2>9. QED
    BY <2>5, <2>7, <2>8 DEF K, s
<1>4. kids \in [1..n -> Seq(1..n)]
  <2>1. kids = [m \in 1..n |-> kids[m]]
    BY DEF HeapKids
  <2> HIDE DEF kids
  <2>2. QED
    BY <1>3, <2>1
<1>5. QED
  BY <1>3, <1>4 DEF KidsAre

\* The heap is walked down from a node to those after it.
LEMMA HeapDescends ==
    ASSUME NEW profile, NEW objects, HeapTree(profile, objects)
    PROVE  Descends(Len(profile.nodes), CpuFrames(profile.nodes), ItemsOf(CpuFrames(profile.nodes), Pair),
                    HeapOwn(profile), HeapMine(profile), HeapKids(profile))
<1> DEFINE all == profile.nodes
           n == Len(all)
           F == CpuFrames(all)
           Y == ItemsOf(F, Pair)
           kids == HeapKids(profile)
<1>1. /\ all \in Seq(Range(all)) /\ Tree(all)
      /\ \A i \in 1..n : all[i].size \in Int /\ objects[i] \in Int
  BY DEF HeapTree
<1>2. n \in Nat
  <2> HIDE DEF all
  <2> QED
    BY <1>1
<1>3. HeapOwn(profile) \in [1..n -> F]
  <2>1. \A i \in 1..n : CpuFrame(all[i]) \in F
    BY DEF CpuFrames
  <2> HIDE DEF F
  <2>2. QED
    BY <2>1 DEF HeapOwn
<1>4. HeapMine(profile) \in [1..n -> [Seq(F) -> Seq(Y)]]
  <2>1. ASSUME NEW i \in 1..n, NEW path \in Seq(F) PROVE Own(profile, all[i], path) \in Seq(Y)
    <3> DEFINE v == <<objects[i], all[i].size>>
               x == [frames |-> path, value |-> v]
    <3>1. v \in Pair
      BY <1>1, PairIs
    <3> HIDE DEF v
    <3>2. x \in Y
      BY <3>1 DEF ItemsOf
    <3>3. Own(profile, all[i], path) = IF all[i].size > 0 THEN <<x>> ELSE <<>>
      BY OwnIs DEF v
    <3> HIDE DEF x, Y
    <3>4. <<x>> \in Seq(Y) /\ <<>> \in Seq(Y)
      BY <3>2
    <3>5. QED
      BY <3>3, <3>4
  <2> HIDE DEF Y
  <2>2. QED
    BY <2>1 DEF HeapMine
<1>5. kids \in [1..n -> Seq(1..n)] /\ KidsAre(kids, all)
  BY HeapKidsAre
<1>6. ASSUME NEW m \in 1..n, NEW k \in DOMAIN kids[m] PROVE kids[m][k] > m
  <2> DEFINE j == kids[m][k]
  <2>1. j \in KidsOf(all, m)
    BY <1>5 DEF KidsAre
  <2> HIDE DEF j
  <2>2. j \in 1..n /\ all[j].parent = m
    BY <2>1 DEF KidsOf
  <2>3. all[j].parent \in 0..(j - 1)
    BY <1>1, <2>2 DEF Tree
  <2>4. j > m
    BY <1>2, <2>2, <2>3
  <2>5. QED
    BY <2>4 DEF j
<1>7. QED
  BY <1>2, <1>3, <1>4, <1>5, <1>6 DEF Descends

Sized(nodes) == {m \in 1..Len(nodes) : nodes[m].size > 0}

HeapItems(profile, objects, c) ==
    [m \in 1..Len(profile.nodes) |->
        [frames |-> c[m], value |-> <<objects[m], profile.nodes[m].size>>]]

\* The walk lists the nodes that have bytes.
LEMMA WalkLists ==
    ASSUME NEW profile, NEW objects, HeapTree(profile, objects), Rooted(profile.nodes),
           profile.nodes # <<>>, NEW c, Framed(profile.nodes, c)
    PROVE  /\ Walk(profile) \in Seq(ItemsOf(CpuFrames(profile.nodes), Pair))
           /\ Lists(Walk(profile), Sized(profile.nodes), HeapItems(profile, objects, c))
<1> DEFINE all == profile.nodes
           n == Len(all)
           F == CpuFrames(all)
           Y == ItemsOf(F, Pair)
           own == HeapOwn(profile)
           mine == HeapMine(profile)
           kids == HeapKids(profile)
           up == [i \in 1..n |-> all[i].parent]
           X == Sized(all)
           r == HeapItems(profile, objects, c)
<1>1. all \in Seq(Range(all)) /\ Tree(all)
  BY DEF HeapTree
<1>2. n \in Nat /\ 1 \in 1..n
  <2>1. all # <<>>
    OBVIOUS
  <2> HIDE DEF all
  <2>2. n \in Nat /\ n # 0
    BY <1>1, <2>1
  <2>3. QED
    BY <2>2
<1>3. Descends(n, F, Y, own, mine, kids) /\ KidsAre(kids, all)
  BY HeapDescends, HeapKidsAre
<1>4. PICK w : WalkOf(profile, w)
  <2>1. Descends(n, F, Y, own, mine, kids)
    BY <1>3
  <2>2. QED
    BY <1>1, <2>1, WalkIs DEF HeapOwn, HeapMine, HeapKids
<1>5. Downward(w, n, Seq(F), own, mine, kids) /\ Walk(profile) = w[1][<<>>]
  BY <1>4 DEF WalkOf, HeapOwn, HeapMine, HeapKids
<1>6. Chain(c, n, own, up)
  BY DEF Framed, HeapOwn
<1>7. PICK above : Above(all, above)
  BY <1>1, AboveExists
<1>8. own \in [1..n -> F] /\ \A m \in 1..n : up[m] = all[m].parent /\ up[m] \in 0..(m - 1)
  BY <1>1, <1>3 DEF Descends, Tree
<1>9. \A m \in 0..n : c[m] \in Seq(F)
  <2> HIDE DEF n, F, own, up
  <2> QED
    BY <1>2, <1>6, <1>8, ChainIs
<1>10. ASSUME NEW m \in 1..n PROVE Lists(mine[m][c[m]], X \cap {m}, r)
  <2> DEFINE x == r[m]
  <2>1. c[m] \in Seq(F)
    <3>1. m \in 0..n
      BY <1>2
    <3>2. QED
      BY <1>9, <3>1
  <2>2. mine[m][c[m]] = Own(profile, all[m], c[m])
    BY <2>1 DEF HeapMine
  <2>3. x = [frames |-> c[m], value |-> <<objects[m], all[m].size>>]
    BY DEF HeapItems
  <2>4. Own(profile, all[m], c[m])
          = IF all[m].size > 0 THEN <<[frames |-> c[m], value |-> <<objects[m], all[m].size>>]>> ELSE <<>>
    BY OwnIs
  <2>5. CASE all[m].size > 0
    <3>1. mine[m][c[m]] = <<x>>
      BY <2>2, <2>3, <2>4, <2>5, Zenon
    <3>2. X \cap {m} = {m}
      BY <2>5 DEF Sized
    <3>3. Lists(<<r[m]>>, {m}, r)
      BY ListsOne
    <3>4. QED
      BY <3>1, <3>2, <3>3
  <2>6. CASE ~(all[m].size > 0)
    <3>1. mine[m][c[m]] = <<>>
      BY <2>2, <2>4, <2>6, Zenon
    <3>2. X \cap {m} = {}
      BY <2>6 DEF Sized
    <3>3. QED
      BY <3>1, <3>2, ListsNone
  <2>7. QED
    BY <2>5, <2>6
<1>11. c[0] = <<>>
  <2>1. \A m \in 0..n : c[m] = IF m = 0 THEN <<>> ELSE <<own[m]>> \o c[up[m]]
    BY <1>6, Zenon DEF Chain
  <2>2. 0 \in 0..n
    BY <1>2
  <2>3. QED
    BY <2>1, <2>2, Zenon
<1> HIDE DEF own, mine, kids, up, X, r, F, Y
<1>12. \A m \in 1..n : Lists(w[m][c[up[m]]], X \cap Below(all, above, m), r)
  <2> HIDE DEF all
  <2> QED
    BY <1>1, <1>3, <1>5, <1>6, <1>7, <1>8, <1>10, DownwardLists
<1>13. up[1] = 0
  BY <1>2, <1>8
<1>14. X \cap Below(all, above, 1) = X
  <2>1. Below(all, above, 1) = 1..n
    BY <1>1, <1>7, BelowAll
  <2>2. QED
    BY <2>1 DEF X, Sized
<1>15. Lists(w[1][<<>>], X, r)
  BY <1>2, <1>11, <1>12, <1>13, <1>14
<1>16. w[1][<<>>] \in Seq(Y)
  <2>1. w[1] \in [Seq(F) -> Seq(Y)]
    BY <1>2, <1>3, <1>5, DownwardIs
  <2>2. <<>> \in Seq(F)
    OBVIOUS
  <2>3. QED
    BY <2>1, <2>2
<1>17. QED
  BY <1>5, <1>15, <1>16 DEF X, r, Y, F

\* What is seen of a converted heap.
LEMMA HeapConverts ==
    ASSUME NEW profile, NEW objects, HeapTree(profile, objects), Rooted(profile.nodes), profile.nodes # <<>>
    PROVE  ByStack(BuildHeap(profile)) =
             Tally([m \in Sized(profile.nodes) |->
                [stack |-> NodePath(profile.nodes, m),
                 value |-> <<objects[m], profile.nodes[m].size>>]])
<1> DEFINE all == profile.nodes
           n == Len(all)
           F == CpuFrames(all)
           X == Sized(all)
           items == Walk(profile)
           d == Credits(items)
           V(m) == <<objects[m], all[m].size>>
           e == [m \in X |-> [stack |-> NodePath(all, m), value |-> V(m)]]
           own == [i \in 1..n |-> CpuFrame(all[i])]
           up == [i \in 1..n |-> all[i].parent]
<1>1. /\ all \in Seq(Range(all)) /\ Tree(all)
      /\ \A i \in 1..n : all[i].id = i /\ V(i) \in Pair
  <2>1. all \in Seq(Range(all)) /\ Tree(all)
    BY DEF HeapTree
  <2>2. ASSUME NEW i \in 1..n PROVE all[i].id = i /\ V(i) \in Pair
    <3>1. all[i].id = i /\ all[i].size \in Int /\ objects[i] \in Int
      BY DEF HeapTree
    <3>2. QED
      BY <3>1, PairIs
  <2>3. QED
    BY <2>1, <2>2
<1> HIDE DEF V
<1>2. n \in Nat
  <2> HIDE DEF all
  <2> QED
    BY <1>1
<1>3. PICK c : Framed(all, c)
  <2>1. own \in [1..n -> F]
    BY DEF CpuFrames
  <2>2. \A i \in 1..n : up[i] \in 0..(i - 1)
    BY <1>1 DEF Tree
  <2> HIDE DEF own, up, n, F
  <2>3. \E c \in [0..n -> Seq(F)] : Chain(c, n, own, up)
    BY <1>2, <2>1, <2>2, ChainExists
  <2>4. QED
    BY <2>3 DEF Framed, own, up, n
<1>4. items \in Seq(ItemsOf(F, Pair)) /\ Lists(items, X, HeapItems(profile, objects, c))
  BY <1>3, WalkLists
<1>5. PICK h : ListedBy(h, items, X, HeapItems(profile, objects, c))
  BY <1>4 DEF Lists
<1>6. /\ Coherent(F, CpuLines(all), CpuFns(all))
      /\ \A f \in F : Len(f.lines) = 1 /\ f.lines \in Seq(Range(f.lines))
  BY <1>1, <1>2, CpuCoherent
<1>7. ByStack(BuildHeap(profile)) = Tally(d)
  <2> HIDE DEF items, F, d, all
  <2> DEFINE types == <<<<"alloc_objects", "count">>, <<"alloc_space", "bytes">>>>
  <2>1. BuildHeap(profile) = Profile(types, {1}, items)
    BY DEF BuildHeap, items
  <2> HIDE DEF types
  <2>2. ByStack(Profile(types, {1}, items)) = Tally(Credits(items))
    BY <1>4, <1>6, ProfileReads
  <2>3. QED
    BY <2>1, <2>2 DEF d
<1>8. ASSUME NEW m \in 1..n PROVE c[m] \in Seq(F) /\ StackNames(c[m]) = NodePath(all, m)
  <2>1. m \in 0..n /\ m # 0
    BY <1>2
  <2>2. SeenAs(c[m], F, NodePath(all, m))
    <3>1. SeenAs(c[m], F, IF m = 0 THEN <<>> ELSE NodePath(all, m))
      BY <1>1, <1>3, <2>1, FramesName
    <3>2. QED
      BY <2>1, <3>1
  <2> DEFINE s == c[m]
  <2> HIDE DEF s, F
  <2>3. s \in Seq(F) /\ [j \in DOMAIN s |-> s[j].lines[1].fn.name] = NodePath(all, m)
    BY <2>2 DEF SeenAs, s
  <2>4. StackNames(s) = [j \in DOMAIN s |-> s[j].lines[1].fn.name]
    BY <1>6, <2>3, SingleNames
  <2>5. QED
    BY <2>3, <2>4 DEF s
<1> DEFINE J == 1..Len(items)
<1>9. /\ h \in [J -> X] /\ \A x \in X : \E j \in J : h[j] = x
      /\ \A i, j \in J : h[i] = h[j] => i = j
      /\ \A j \in J : items[j] = HeapItems(profile, objects, c)[h[j]]
  BY <1>5 DEF ListedBy
<1>10. X \in SUBSET (1..n)
  BY DEF Sized
<1>11. ASSUME NEW j \in J
       PROVE  items[j].frames = c[h[j]] /\ items[j].value = V(h[j]) /\ h[j] \in 1..n
  <2>1. h[j] \in 1..n
    BY <1>9, <1>10
  <2>2. HeapItems(profile, objects, c)[h[j]] = [frames |-> c[h[j]], value |-> V(h[j])]
    BY <2>1 DEF HeapItems, V
  <2>3. items[j] = [frames |-> c[h[j]], value |-> V(h[j])]
    BY <1>9, <2>2
  <2>4. QED
    BY <2>1, <2>3
<1> HIDE DEF items
<1>12. DOMAIN items = J /\ Len(items) \in Nat
  BY <1>4
<1>13. DOMAIN d = J /\ \A j \in J : d[j].stack = StackNames(items[j].frames) /\ d[j].value = items[j].value
  BY <1>12 DEF Credits
<1>14. DOMAIN e = X /\ \A x \in X : e[x].stack = NodePath(all, x) /\ e[x].value = V(x)
  OBVIOUS
<1> HIDE DEF d, e, X, J
<1>15. \A j \in J : d[j].stack = e[h[j]].stack /\ d[j].value = e[h[j]].value /\ d[j].value \in Pair
  <2> SUFFICES ASSUME NEW j \in J
               PROVE  d[j].stack = e[h[j]].stack /\ d[j].value = e[h[j]].value /\ d[j].value \in Pair
    OBVIOUS
  <2> DEFINE x == h[j]
  <2>1. x \in X /\ x \in 1..n /\ items[j].frames = c[x] /\ items[j].value = V(x)
    BY <1>9, <1>11
  <2> HIDE DEF x
  <2>2. d[j].stack = StackNames(c[x]) /\ d[j].value = V(x)
    BY <1>13, <2>1
  <2>3. StackNames(c[x]) = NodePath(all, x) /\ V(x) \in Pair
    BY <1>1, <1>8, <2>1
  <2>4. e[x].stack = NodePath(all, x) /\ e[x].value = V(x)
    BY <1>14, <2>1
  <2>5. QED
    BY <2>2, <2>3, <2>4 DEF x
<1>16. EntriesOn(d, J)
  <2>1. IsFiniteSet(J)
    BY <1>12, FS_Interval DEF J
  <2>2. QED
    BY <1>13, <1>15, <2>1 DEF EntriesOn, Pair
<1>17. EntriesOn(e, X)
  <2>1. IsFiniteSet(1..n)
    BY <1>2, FS_Interval
  <2>2. IsFiniteSet(X)
    BY <1>10, <2>1, FS_Subset
  <2>3. \A x \in X : e[x].value \in Pair
    BY <1>1, <1>10, <1>14
  <2>4. QED
    BY <1>14, <2>2, <2>3 DEF EntriesOn, Pair
<1>18. Tally(e) = Tally(d)
  BY <1>9, <1>15, <1>16, <1>17, TallyMatched
<1>19. QED
  BY <1>7, <1>18 DEF e, V, X

Objects(k) ==
    IF Of("sample") = <<>> THEN 1
    ELSE Cardinality({j \in DOMAIN input : input[j].t = "sample" /\ input[j].id = k})

\* The list of samples has the entries that the input has.
LEMMA ObjectsAre ==
    ASSUME NEW E, input \in Seq(E), NEW k
    PROVE  ObjectsOf(HeapInput, k) = Objects(k) /\ Objects(k) \in Int
<1> DEFINE o == Of("sample")
           S == At("sample")
           m == Cardinality(S)
           at == InOrder(S)
           ids == Field("sample", "id")
           A == {i \in DOMAIN ids : ids[i] = k}
           B == {j \in DOMAIN input : input[j].t = "sample" /\ input[j].id = k}
           f == [i \in A |-> at[i]]
<1>1. /\ S \in SUBSET (1..Len(input)) /\ IsFiniteSet(S) /\ Ascends(at, m, S)
      /\ o = [n \in 1..m |-> input[at[n]]]
  BY OfIs
<1>2. ids = [i \in DOMAIN o |-> o[i]["id"]]
  BY DEF Field
<1>3. ObjectsOf(HeapInput, k) = IF ids = <<>> THEN 1 ELSE Cardinality(A)
  BY DEF ObjectsOf, HeapInput
<1>4. Objects(k) = IF o = <<>> THEN 1 ELSE Cardinality(B)
  BY DEF Objects
<1>5. \A j : j \in B <=> j \in S /\ input[j].id = k
  BY DEF At
<1> HIDE DEF o, S, ids, m, at, B
<1>6. /\ m \in Nat /\ at \in [1..m -> S] /\ \A x \in S : \E i \in 1..m : at[i] = x
      /\ \A i, j \in 1..m : at[i] = at[j] => i = j
  <2>1. m \in Nat
    BY <1>1, FS_CardinalityType DEF m
  <2>2. QED
    BY <1>1, <2>1 DEF Ascends, Orders
<1>7. DOMAIN o = 1..m /\ DOMAIN ids = 1..m /\ \A i \in 1..m : ids[i] = input[at[i]].id
  BY <1>1, <1>2
<1>8. ids = <<>> <=> o = <<>>
  <2>1. o = [i \in 1..m |-> o[i]] /\ ids = [i \in 1..m |-> ids[i]]
    BY <1>1, <1>2, <1>7
  <2>2. CASE m = 0
    <3>1. 1..m = {}
      BY <2>2
    <3>2. o = <<>> /\ ids = <<>>
      BY <2>1, <3>1
    <3>3. QED
      BY <3>2
  <2>3. CASE m # 0
    <3>1. 1 \in 1..m
      BY <1>6, <2>3
    <3>2. 1 \notin DOMAIN <<>>
      OBVIOUS
    <3>3. 1 \in DOMAIN o /\ 1 \in DOMAIN ids
      BY <1>7, <3>1
    <3>4. o # <<>> /\ ids # <<>>
      BY <3>2, <3>3, Zenon
    <3>5. QED
      BY <3>4
  <2>4. QED
    BY <2>2, <2>3
<1>9. A = {i \in 1..m : input[at[i]].id = k}
  BY <1>7
<1> HIDE DEF A
<1>10. f \in Bijection(A, B)
  <2>1. \A i \in A : i \in 1..m /\ at[i] \in B
    BY <1>5, <1>6, <1>9
  <2>2. ASSUME NEW x \in B PROVE \E i \in A : at[i] = x
    <3>1. PICK i \in 1..m : at[i] = x
      BY <1>5, <1>6
    <3>2. i \in A
      BY <1>5, <1>9, <3>1
    <3>3. QED
      BY <3>1, <3>2
  <2>3. \A i, j \in A : at[i] = at[j] => i = j
    BY <1>6, <2>1
  <2>4. QED
    BY <2>1, <2>2, <2>3 DEF Bijection, Injection, Surjection, IsInjective
<1>11. IsFiniteSet(A) /\ IsFiniteSet(B)
  <2>1. IsFiniteSet(1..m) /\ A \in SUBSET (1..m) /\ B \in SUBSET S
    BY <1>5, <1>6, <1>9, FS_Interval
  <2>2. QED
    BY <1>1, <2>1, FS_Subset
<1>12. Cardinality(A) = Cardinality(B) /\ Cardinality(B) \in Nat
  <2>1. ExistsBijection(A, B)
    BY <1>10 DEF ExistsBijection
  <2>2. QED
    BY <1>11, <2>1, FS_Bijection, FS_CardinalityType
<1>13. QED
  BY <1>3, <1>4, <1>8, <1>12

\* HeapBytesKept follows from what the input is.
LEMMA HeapBytesAreKept ==
    ASSUME IngestInv
    PROVE  HeapBytesKept
<1> DEFINE all == HeapInput.nodes
           sized == {m \in DOMAIN all : all[m].size > 0}
           hits == [m \in sized |->
                      [stack |-> NodePath(all, m),
                       value |-> <<IF Of("sample") = <<>> THEN 1
                                   ELSE Cardinality({j \in DOMAIN input :
                                            input[j].t = "sample" /\ input[j].id = m}),
                                   all[m].size>>]]
<1> SUFFICES ASSUME Is("heap") PROVE ByStack(Result) = Tally(hits)
  BY DEF HeapBytesKept
<1> DEFINE E == Elements["heap"]
           nodes == Of("node")
           n == Len(nodes)
           profile == HeapInput
           objects == [m \in 1..n |-> Objects(m)]
<1>1. kind = "heap" /\ input \in Seq(E) /\ Planted /\ "heap" \in DOMAIN Elements
  BY DEF Is, IngestInv, InputInv
<1>2. Result = BuildHeap(profile) /\ nodes # <<>>
  BY <1>1 DEF IngestInv, OutInv, Is, Result, Converted, Convertible
<1>3. nodes \in Seq(E) /\ Tree(nodes) /\ Rooted(nodes)
  BY <1>1, OfIs, PlantedIs
<1>4. \A i \in 1..n : nodes[i].size \in Int
  <2> DEFINE m == Cardinality(At("node"))
             at == InOrder(At("node"))
  <2>1. /\ n = m /\ nodes = [i \in 1..m |-> input[at[i]]] /\ Ascends(at, m, At("node"))
        /\ At("node") \in SUBSET (1..Len(input))
    BY <1>1, OfIs
  <2> HIDE DEF m, at, n
  <2> SUFFICES ASSUME NEW i \in 1..m PROVE nodes[i].size \in Int
    BY <2>1
  <2>2. at[i] \in At("node")
    BY <2>1 DEF Ascends, Orders
  <2>3. nodes[i] = input[at[i]] /\ input[at[i]].t = "node" /\ input[at[i]] \in E
    <3> DEFINE j == at[i]
    <3>1. j \in 1..Len(input) /\ j \in At("node")
      BY <2>1, <2>2
    <3>2. nodes[i] = input[j]
      BY <2>1
    <3> HIDE DEF j, nodes
    <3>3. input[j].t = "node" /\ input[j] \in E
      BY <1>1, <3>1 DEF At
    <3>4. QED
      BY <3>2, <3>3 DEF j
  <2>4. HeapElement(input[at[i]])
    BY <1>1, <2>3, IngestAssumption
  <2>5. QED
    BY <2>3, <2>4 DEF HeapElement
<1>5. all = Numbered(nodes)
  BY DEF HeapInput
<1> HIDE DEF nodes, n
<1>6. /\ n \in Nat /\ n # 0 /\ DOMAIN nodes = 1..n
  BY <1>2, <1>3 DEF n
<1>7. /\ all \in Seq(Range(all)) /\ Len(all) = n
      /\ \A i \in 1..n : all[i].id = i /\ all[i].fn = nodes[i].fn /\ all[i].parent = nodes[i].parent
  BY <1>3, <1>5, NumberedIs DEF n
<1>8. \A i \in 1..n : all[i].size = nodes[i].size
  BY <1>5, <1>6 DEF Numbered
<1> HIDE DEF all, profile
<1>9. all = profile.nodes
  BY DEF all, profile
<1>10. Tree(all) /\ Rooted(all) /\ all # <<>> /\ DOMAIN all = 1..n
  <2>1. 2..n \in SUBSET (1..n)
    BY <1>6
  <2>2. Tree(all)
    BY <1>3, <1>7 DEF Tree, n
  <2>3. Rooted(all)
    BY <1>3, <1>7, <2>1 DEF Rooted, n
  <2>4. QED
    BY <1>6, <1>7, <2>2, <2>3
<1>11. \A i \in 1..n : objects[i] = Objects(i) /\ objects[i] \in Int /\ ObjectsOf(profile, i) = objects[i]
  <2> SUFFICES ASSUME NEW i \in 1..n
               PROVE  objects[i] = Objects(i) /\ objects[i] \in Int /\ ObjectsOf(profile, i) = objects[i]
    OBVIOUS
  <2>1. objects[i] = Objects(i)
    OBVIOUS
  <2>2. ObjectsOf(profile, i) = Objects(i) /\ Objects(i) \in Int
    BY <1>1, ObjectsAre DEF profile
  <2>3. QED
    BY <2>1, <2>2
<1> HIDE DEF objects
<1>12. HeapTree(profile, objects)
  BY <1>4, <1>7, <1>8, <1>9, <1>10, <1>11 DEF HeapTree
<1> DEFINE V(m) == <<Objects(m), all[m].size>>
<1>13. ByStack(BuildHeap(profile)) =
         Tally([m \in Sized(all) |-> [stack |-> NodePath(all, m), value |-> <<objects[m], all[m].size>>]])
  BY <1>9, <1>10, <1>12, HeapConverts
<1>14. hits = [m \in sized |-> [stack |-> NodePath(all, m), value |-> V(m)]]
  BY DEF Objects
<1>15. sized = Sized(all) /\ sized \in SUBSET (1..n)
  BY <1>7, <1>10 DEF Sized
<1>16. \A m \in Sized(all) : <<objects[m], all[m].size>> = V(m)
  BY <1>11, <1>15
<1> HIDE DEF hits, sized, V
<1>17. [m \in Sized(all) |-> [stack |-> NodePath(all, m), value |-> <<objects[m], all[m].size>>]] = hits
  BY <1>14, <1>15, <1>16
<1>18. QED
  BY <1>2, <1>13, <1>17

\* V8's heap: every node's own bytes are credited to the path to it, with its
\* objects, whatever the tree and the list of samples are.
THEOREM HeapBytesAlwaysKept == Spec => []HeapBytesKept
<1>1. IngestInv => HeapBytesKept
  BY HeapBytesAreKept
<1>2. QED
  BY <1>1, CapturesWellFormed, PTL
=============================================================================
