-------------------------- MODULE CatalogSync_proofs --------------------------
(***************************************************************************)
(* Theorems about the catalogue synchronisation: no two materials share a  *)
(* number; what others commit after the script last read a pair survives   *)
(* it; and an undisturbed run reports what the dry run predicted and leaves*)
(* every row of the file with its prices.                                  *)
(*                                                                         *)
(* Two invariants carry them.  Wellformed, whatever others do: the         *)
(* transaction's catalogue is the committed one grown at its end, a pair   *)
(* changed by others since the script read it, or of a material the file   *)
(* does not name, is in it as committed, and no closure is pending for it. *)
(* Faithful, undisturbed: the script is at the point of the file where the *)
(* dry run, counted up to there, says it is (Exact), or was there when it  *)
(* looked at the column whose price version_price is writing (Writing).    *)
(*                                                                         *)
(* The file is a sequence filtered from a sheet by a recursive function;   *)
(* what is true of every row of it follows from the least row that would   *)
(* be the first exception (LeastNat).                                      *)
(***************************************************************************)
EXTENDS CatalogSync, FiniteSetTheorems, TLAPS

-----------------------------------------------------------------------------
(* A set of naturals has a least element; what holds for every number that *)
(* has it for all smaller ones follows from this.                          *)
LEMMA LeastNat ==
  ASSUME NEW T \in SUBSET Nat, T # {}
  PROVE  \E x \in T : \A y \in T : x <= y
<1> DEFINE I == {0 .. x : x \in T}
<1>1. I \subseteq FiniteSubsetsOf(Nat) /\ I # {}
  <2>1. ASSUME NEW x \in T PROVE 0 .. x \in FiniteSubsetsOf(Nat)
    BY FS_Interval DEF FiniteSubsetsOf
  <2> QED BY <2>1
<1>2. PICK i \in I : \A j \in I : <<j, i>> \notin StrictSubsetOrdering(Nat)
  <2> HIDE DEF I
  <2> QED BY <1>1, FS_StrictSubsetOrderingWellFounded, WFMin
<1>3. PICK x \in T : i = 0 .. x
  OBVIOUS
<1>4. ASSUME NEW y \in T, y < x PROVE FALSE
  <2>1. 0 .. y \subseteq 0 .. x
    BY <1>4
  <2>2. x \in 0 .. x /\ x \notin 0 .. y
    BY <1>4
  <2>3. 0 .. y \in SUBSET Nat /\ 0 .. x \in SUBSET Nat
    OBVIOUS
  <2>4. <<0 .. y, 0 .. x>> \in StrictSubsetOrdering(Nat)
    BY <2>1, <2>2, <2>3 DEF StrictSubsetOrdering
  <2> QED BY <1>2, <1>3, <2>4
<1> QED BY <1>4

(* f starts with c and goes on by D.                                       *)
Follows(f, n, V, c, D) ==
  f \in [0 .. n -> V] /\ f[0] = c /\ \A i \in 1 .. n : f[i] = D[<<i, f[i - 1]>>]

(* A function can be built value by value.                                 *)
LEMMA StepByStep ==
  ASSUME NEW n \in Nat, NEW V, NEW c \in V, NEW D \in [(1 .. n) \X V -> V]
  PROVE  \E f : Follows(f, n, V, c, D)
<1> DEFINE Built(m, f) == f \in [0 .. m -> V] /\ f[0] = c /\ \A i \in 1 .. m : f[i] = D[<<i, f[i - 1]>>]
           bad == {m \in 0 .. n : ~ \E f : Built(m, f)}
<1>1. SUFFICES ASSUME bad # {} PROVE FALSE
  <2>1. n \in 0 .. n OBVIOUS
  <2>2. bad = {} => \E f : Built(n, f) BY <2>1
  <2> QED BY <2>2 DEF Follows
<1>2. PICK m \in bad : \A y \in bad : m <= y
  <2>1. bad \in SUBSET Nat
    OBVIOUS
  <2> HIDE DEF bad
  <2> QED BY <1>1, <2>1, LeastNat
<1>3. m # 0
  <2>1. Built(0, [i \in 0 .. 0 |-> c])
    OBVIOUS
  <2> QED BY <2>1
<1>4. PICK f : Built(m - 1, f)
  <2>1. m - 1 \in 0 .. n /\ ~(m <= m - 1)
    BY <1>2, <1>3
  <2>2. m - 1 \notin bad
    BY <1>2, <2>1
  <2> QED BY <2>1, <2>2
<1>5. PICK g : g = [i \in 0 .. m |-> IF i < m THEN f[i] ELSE D[<<m, f[m - 1]>>]]
  OBVIOUS
<1>6. m \in 1 .. n /\ f[m - 1] \in V
  BY <1>3, <1>4
<1>7. Built(m, g)
  <2>1. D[<<m, f[m - 1]>>] \in V
    BY <1>6
  <2>2. g \in [0 .. m -> V] /\ g[0] = c
    BY <1>4, <1>5, <1>6, <2>1
  <2>3. ASSUME NEW i \in 1 .. m PROVE g[i] = D[<<i, g[i - 1]>>]
    <3>1. g[i - 1] = f[i - 1]
      BY <1>5, <1>6
    <3>2. CASE i < m
      <4>1. i \in 1 .. m - 1 BY <1>6, <3>2
      <4>2. f[i] = D[<<i, f[i - 1]>>] BY <1>4, <4>1
      <4>3. i \in 0 .. m /\ g[i] = f[i] BY <1>5, <3>2
      <4> QED BY <3>1, <4>2, <4>3
    <3>3. CASE i = m
      <4>1. m \in 0 .. m /\ ~(m < m) BY <1>6
      <4>2. g[m] = D[<<m, f[m - 1]>>] BY <1>5, <4>1
      <4> QED BY <3>1, <3>3, <4>2
    <3> QED BY <1>6, <3>2, <3>3
  <2> QED BY <2>2, <2>3
<1> QED BY <1>7

(* A set of numbers up to n has a greatest element, which Max chooses.     *)
LEMMA MaxOfSet ==
  ASSUME NEW n \in Nat, NEW T \in SUBSET (1 .. n), T # {}
  PROVE  Max(T) \in T /\ \A y \in T : y <= Max(T)
<1> DEFINE below == {n - y : y \in T}
<1>0. \A y \in T : y \in 1 .. n /\ n - y \in Nat
  OBVIOUS
<1>1. below \in SUBSET Nat /\ below # {}
  BY <1>0
<1>2. PICK z \in below : \A y \in below : z <= y
  <2> HIDE DEF below
  <2> QED BY <1>1, LeastNat
<1>3. PICK x \in T : z = n - x
  OBVIOUS
<1>4. ASSUME NEW y \in T PROVE y <= x
  <2>1. n - x <= n - y
    BY <1>2, <1>3
  <2> QED BY <2>1
<1> QED BY <1>4 DEF Max

LEMMA AppendOne ==
  ASSUME NEW X, NEW s \in Seq(X), NEW x \in X
  PROVE  /\ Append(s, x) \in Seq(X)
         /\ Len(s) \in Nat /\ Len(Append(s, x)) = Len(s) + 1
         /\ DOMAIN s = 1 .. Len(s) /\ DOMAIN Append(s, x) = 1 .. Len(s) + 1
         /\ \A i \in 1 .. Len(s) : Append(s, x)[i] = s[i]
         /\ Append(s, x)[Len(s) + 1] = x
OBVIOUS

-----------------------------------------------------------------------------
(* The file, as parse_price_matrix returns it.                             *)
IsFile(rows) ==
  /\ Len(rows) \in Nat /\ DOMAIN rows = 1 .. Len(rows)
  /\ \A k \in DOMAIN rows : rows[k].desc \in Texts /\ rows[k].cells \in [Columns -> Nat \cup {NULL, BAD}]

LEMMA ParsedIsFile ==
  ASSUME NEW rows \in Sheets
  PROVE  IsFile(Parsed(rows))
<1> DEFINE n == Len(rows)
           row(i) == [desc |-> rows[i].desc, group |-> Carried(rows)[i], cells |-> rows[i].cells]
           skip(i) == rows[i].desc = NULL \/ rows[i].divider
           W == {row(i) : i \in {j \in 1 .. n : ~skip(j)}}
           R(f, i) == IF i = 0 THEN <<>> ELSE IF skip(i) THEN f[i - 1] ELSE Append(f[i - 1], row(i))
           Upto(f) == f = [i \in 0 .. n |-> R(f, i)]
           upto == CHOOSE f : Upto(f)
           D == [d \in (1 .. n) \X Seq(W) |-> IF skip(d[1]) THEN d[2] ELSE Append(d[2], row(d[1]))]
<1>1. n \in Nat /\ DOMAIN rows = 1 .. n /\ \A i \in 1 .. n : rows[i] \in SheetRow
  BY SyncAssumption
<1>2. Parsed(rows) = upto[n]
  BY DEF Parsed
<1>3. D \in [(1 .. n) \X Seq(W) -> Seq(W)]
  <2>1. ASSUME NEW i \in 1 .. n, NEW v \in Seq(W), ~skip(i) PROVE Append(v, row(i)) \in Seq(W)
    <3>1. row(i) \in W
      BY <2>1
    <3> HIDE DEF W, row
    <3> QED BY <3>1, AppendOne
  <2> HIDE DEF W, row, skip
  <2> QED BY <2>1
<1>4. PICK f : Follows(f, n, Seq(W), <<>>, D)
  <2>1. <<>> \in Seq(W)
    OBVIOUS
  <2> HIDE DEF n, D, W
  <2> QED BY <1>1, <1>3, <2>1, StepByStep
<1>5. Upto(f)
  <2>1. ASSUME NEW i \in 0 .. n PROVE f[i] = R(f, i)
    <3>1. CASE i = 0
      BY <1>4, <3>1 DEF Follows
    <3>2. CASE i # 0
      <4>1. i \in 1 .. n /\ i - 1 \in 0 .. n
        BY <1>1, <3>2
      <4>2. f[i] = D[<<i, f[i - 1]>>] /\ f[i - 1] \in Seq(W)
        <5> HIDE DEF D, W
        <5> QED BY <1>4, <4>1 DEF Follows
      <4>3. D[<<i, f[i - 1]>>] = IF skip(i) THEN f[i - 1] ELSE Append(f[i - 1], row(i))
        <5> HIDE DEF W, row, skip
        <5> QED BY <4>1, <4>2
      <4> QED BY <3>2, <4>2, <4>3
    <3> QED BY <3>1, <3>2
  <2>2. f = [i \in 0 .. n |-> f[i]]
    BY <1>4 DEF Follows
  <2> HIDE DEF R, n
  <2> QED BY <2>1, <2>2
<1>6. Upto(upto)
  <2> HIDE DEF Upto
  <2> QED BY <1>5
<1>7. ASSUME NEW i \in 0 .. n PROVE upto[i] \in Seq(W)
  <2> DEFINE bad == {j \in 0 .. n : upto[j] \notin Seq(W)}
  <2>0. \A j \in 0 .. n : upto[j] = R(upto, j)
    <3> HIDE DEF R, n, upto
    <3> QED BY <1>6
  <2> HIDE DEF upto, W, row, skip
  <2>1. SUFFICES ASSUME bad # {} PROVE FALSE
    OBVIOUS
  <2>2. PICK m \in bad : \A y \in bad : m <= y
    <3>1. bad \in SUBSET Nat
      OBVIOUS
    <3> HIDE DEF bad
    <3> QED BY <2>1, <3>1, LeastNat
  <2>3. m # 0
    <3>1. 0 \in 0 .. n /\ <<>> \in Seq(W)
      BY <1>1
    <3>2. upto[0] = <<>>
      BY <2>0, <3>1
    <3>3. upto[m] \notin Seq(W)
      BY <2>2
    <3> QED BY <3>1, <3>2, <3>3
  <2>4. m \in 1 .. n /\ m - 1 \in 0 .. n
    BY <1>1, <2>2, <2>3
  <2>5. upto[m - 1] \in Seq(W)
    BY <1>1, <2>2, <2>4
  <2>6. upto[m] = IF skip(m) THEN upto[m - 1] ELSE Append(upto[m - 1], row(m))
    BY <2>0, <2>3, <2>4
  <2>7. ~skip(m) => row(m) \in W
    BY <2>4 DEF W
  <2>8. upto[m] \in Seq(W)
    BY <2>5, <2>6, <2>7, AppendOne
  <2> QED BY <2>2, <2>8
<1>8. upto[n] \in Seq(W)
  <2>1. n \in 0 .. n
    BY <1>1
  <2> HIDE DEF upto, W, n
  <2> QED BY <1>7, <2>1
<1>9. ASSUME NEW r \in W PROVE r.desc \in Texts /\ r.cells \in [Columns -> Nat \cup {NULL, BAD}]
  <2>1. PICK i \in 1 .. n : ~skip(i) /\ r = row(i)
    OBVIOUS
  <2>2. rows[i] \in SheetRow
    BY <1>1
  <2> QED BY <2>1, <2>2 DEF SheetRow
<1> HIDE DEF upto, W
<1> QED BY <1>2, <1>8, <1>9 DEF IsFile

LEMMA FilePriceType ==
  ASSUME NEW rows, IsFile(rows), NEW d, NEW s \in Columns
  PROVE  FilePrice(rows, d, s) \in Nat \cup {NULL}
<1> DEFINE readable == {k \in DOMAIN rows : rows[k].desc = d /\ rows[k].cells[s] \in Nat}
<1>1. CASE readable = {}
  BY <1>1 DEF FilePrice
<1>2. CASE readable # {}
  <2>1. Max(readable) \in readable
    BY <1>2, MaxOfSet DEF IsFile
  <2>2. rows[Max(readable)].cells[s] \in Nat
    BY <2>1
  <2> QED BY <1>2, <2>2 DEF FilePrice
<1> QED BY <1>1, <1>2

Material == [name : Texts, number : Nat]

LEMMA MatchFound ==
  ASSUME NEW mats \in Seq(Material), NEW d
  PROVE  /\ Match(mats, d) \in 0 .. Len(mats)
         /\ Match(mats, d) # 0 => NameOf(mats[Match(mats, d)].name) = NameOf(d)
         /\ \A i \in 1 .. Len(mats) : NameOf(mats[i].name) = NameOf(d) => Match(mats, d) # 0 /\ i <= Match(mats, d)
<1> DEFINE same == {i \in DOMAIN mats : NameOf(mats[i].name) = NameOf(d)}
<1>0. Len(mats) \in Nat /\ DOMAIN mats = 1 .. Len(mats)
  OBVIOUS
<1>1. CASE same = {}
  BY <1>0, <1>1 DEF Match
<1>2. CASE same # {}
  <2>1. Max(same) \in same /\ \A y \in same : y <= Max(same)
    BY <1>0, <1>2, MaxOfSet
  <2>2. Match(mats, d) = Max(same)
    BY <1>2 DEF Match
  <2>3. Max(same) \in 1 .. Len(mats) /\ NameOf(mats[Max(same)].name) = NameOf(d)
    BY <1>0, <2>1
  <2>4. \A i \in 1 .. Len(mats) : NameOf(mats[i].name) = NameOf(d) => i <= Max(same)
    BY <1>0, <2>1
  <2> HIDE DEF Material, same
  <2> QED BY <1>0, <2>2, <2>3, <2>4
<1> QED BY <1>1, <1>2

-----------------------------------------------------------------------------
(* The catalogue: what a flush, a new material and a price change.         *)
CatTyped(c) == c \in Catalogue /\ Len(c.active) = Len(c.mats)

(* The closure of a row is pending.                                        *)
Closing(c, p, m, s) == c.active[m][s] # NULL /\ <<m, s, c.active[m][s].by>> \in p

LEMMA CatParts ==
  ASSUME NEW c, CatTyped(c)
  PROVE  /\ c = [mats |-> c.mats, active |-> c.active, next |-> c.next, known |-> c.known]
         /\ c.mats \in Seq(Material) /\ c.active \in Seq([Columns -> PriceRow \cup {NULL}])
         /\ Len(c.mats) \in Nat /\ DOMAIN c.mats = 1 .. Len(c.mats)
         /\ DOMAIN c.active = 1 .. Len(c.mats) /\ c.next \in Nat /\ c.known \subseteq Columns
         /\ \A m \in 1 .. Len(c.mats) : c.mats[m] \in Material
         /\ \A m \in 1 .. Len(c.mats) : c.active[m] \in [Columns -> PriceRow \cup {NULL}]
<1>1. /\ c = [mats |-> c.mats, active |-> c.active, next |-> c.next, known |-> c.known]
      /\ c.mats \in Seq(Material) /\ c.active \in Seq([Columns -> PriceRow \cup {NULL}])
      /\ c.next \in Nat /\ c.known \subseteq Columns /\ Len(c.active) = Len(c.mats)
  BY DEF CatTyped, Catalogue, Material
<1> HIDE DEF Material, PriceRow
<1> QED BY <1>1

LEMMA FlushedCat ==
  ASSUME NEW c, CatTyped(c), NEW p
  PROVE  /\ CatTyped(Flushed(c, p))
         /\ Flushed(c, p).mats = c.mats /\ Flushed(c, p).next = c.next /\ Flushed(c, p).known = c.known
         /\ \A m \in 1 .. Len(c.mats), s \in Columns :
              Flushed(c, p).active[m][s] = IF Closing(c, p, m, s) THEN NULL ELSE c.active[m][s]
<1> DEFINE n == Len(c.mats)
           new == [m \in DOMAIN c.active |-> [s \in Columns |->
                     IF c.active[m][s] # NULL /\ <<m, s, c.active[m][s].by>> \in p THEN NULL ELSE c.active[m][s]]]
<1>1. /\ c = [mats |-> c.mats, active |-> c.active, next |-> c.next, known |-> c.known]
      /\ c.mats \in Seq(Material) /\ c.next \in Nat /\ c.known \subseteq Columns
      /\ n \in Nat /\ DOMAIN c.active = 1 .. n
      /\ \A m \in 1 .. n : c.active[m] \in [Columns -> PriceRow \cup {NULL}]
  BY CatParts
<1>2. Flushed(c, p) = [c EXCEPT !.active = new]
  BY DEF Flushed
<1>3. \A m \in 1 .. n, s \in Columns : new[m][s] = IF Closing(c, p, m, s) THEN NULL ELSE c.active[m][s]
  BY <1>1 DEF Closing
<1>4. DOMAIN new = 1 .. n /\ \A m \in 1 .. n : new[m] \in [Columns -> PriceRow \cup {NULL}]
  BY <1>1
<1>5. new = [m \in 1 .. n |-> new[m]]
  BY <1>1
<1> HIDE DEF new
<1>6. new \in Seq([Columns -> PriceRow \cup {NULL}]) /\ Len(new) = n
  BY <1>1, <1>4, <1>5
<1>7. Flushed(c, p) = [mats |-> c.mats, active |-> new, next |-> c.next, known |-> c.known]
  BY <1>1, <1>2
<1>8. CatTyped(Flushed(c, p))
  BY <1>1, <1>6, <1>7 DEF CatTyped, Catalogue, Material
<1> QED BY <1>3, <1>7, <1>8

LEMMA GrownCat ==
  ASSUME NEW c, CatTyped(c), NEW d \in Texts
  PROVE  /\ CatTyped(WithMaterial(c, d))
         /\ WithMaterial(c, d).mats = Append(c.mats, [name |-> d, number |-> c.next])
         /\ Len(WithMaterial(c, d).mats) = Len(c.mats) + 1
         /\ WithMaterial(c, d).next = c.next + 1
         /\ \A m \in 1 .. Len(c.mats) : /\ WithMaterial(c, d).mats[m] = c.mats[m]
                                        /\ WithMaterial(c, d).active[m] = c.active[m]
         /\ WithMaterial(c, d).mats[Len(c.mats) + 1] = [name |-> d, number |-> c.next]
         /\ \A s \in Columns : WithMaterial(c, d).active[Len(c.mats) + 1][s] = NULL
         /\ Numbered(c) => Numbered(WithMaterial(c, d))
<1>1. PICK x, y : x = [name |-> d, number |-> c.next] /\ y = [s \in Columns |-> NULL]
  OBVIOUS
<1>2. /\ c = [mats |-> c.mats, active |-> c.active, next |-> c.next, known |-> c.known]
      /\ c.mats \in Seq(Material) /\ c.active \in Seq([Columns -> PriceRow \cup {NULL}])
      /\ c.next \in Nat /\ c.known \subseteq Columns /\ Len(c.mats) \in Nat
      /\ Len(c.active) = Len(c.mats)
  BY CatParts DEF CatTyped
<1>3. WithMaterial(c, d) = [mats |-> Append(c.mats, x), active |-> Append(c.active, y),
                            next |-> c.next + 1, known |-> c.known]
  <2>1. PICK ms, ac : ms = Append(c.mats, x) /\ ac = Append(c.active, y)
    OBVIOUS
  <2>2. WithMaterial(c, d) = [c EXCEPT !.next = c.next + 1, !.mats = ms, !.active = ac]
    BY <1>1, <2>1 DEF WithMaterial
  <2>3. [c EXCEPT !.next = c.next + 1, !.mats = ms, !.active = ac]
          = [mats |-> ms, active |-> ac, next |-> c.next + 1, known |-> c.known]
    <3>1. PICK c1 : c1 = [c EXCEPT !.next = c.next + 1]
      OBVIOUS
    <3>2. c1 = [mats |-> c.mats, active |-> c.active, next |-> c.next + 1, known |-> c.known]
      BY <1>2, <3>1
    <3>3. PICK c2 : c2 = [c1 EXCEPT !.mats = ms]
      OBVIOUS
    <3>4. c2 = [mats |-> ms, active |-> c.active, next |-> c.next + 1, known |-> c.known]
      BY <3>2, <3>3
    <3>5. [c2 EXCEPT !.active = ac] = [mats |-> ms, active |-> ac, next |-> c.next + 1, known |-> c.known]
      BY <3>4
    <3> QED BY <3>1, <3>3, <3>5
  <2> QED BY <2>1, <2>2, <2>3
<1>4. x \in Material /\ y \in [Columns -> PriceRow \cup {NULL}]
  BY <1>1, <1>2 DEF Material
<1>5. PICK ms, ac : ms = Append(c.mats, x) /\ ac = Append(c.active, y)
  OBVIOUS
<1>6. /\ ms \in Seq(Material) /\ Len(ms) = Len(c.mats) + 1
      /\ \A i \in 1 .. Len(c.mats) : ms[i] = c.mats[i]
      /\ ms[Len(c.mats) + 1] = x
  BY <1>2, <1>4, <1>5, AppendOne
<1>7. /\ ac \in Seq([Columns -> PriceRow \cup {NULL}]) /\ Len(ac) = Len(c.mats) + 1
      /\ \A i \in 1 .. Len(c.mats) : ac[i] = c.active[i]
      /\ ac[Len(c.mats) + 1] = y
  BY <1>2, <1>4, <1>5, AppendOne
<1>8. PICK w : w = WithMaterial(c, d)
  OBVIOUS
<1>9. w = [mats |-> ms, active |-> ac, next |-> c.next + 1, known |-> c.known]
  BY <1>3, <1>5, <1>8
<1>10. CatTyped(w)
  BY <1>2, <1>6, <1>7, <1>9 DEF CatTyped, Catalogue, Material
<1>11. Numbered(c) => Numbered(w)
  <2> SUFFICES ASSUME Numbered(c), NEW i \in 1 .. Len(w.mats), NEW j \in 1 .. Len(w.mats)
               PROVE  /\ w.mats[i].number < w.next
                      /\ w.mats[i].number = w.mats[j].number => i = j
    BY DEF Numbered
  <2>1. w.mats = ms /\ w.next = c.next + 1 /\ x.number = c.next
    BY <1>1, <1>9
  <2>2. \A k \in 1 .. Len(w.mats) : k \in 1 .. Len(c.mats) \/ k = Len(c.mats) + 1
    BY <1>2, <1>6, <2>1
  <2>3. \A k \in 1 .. Len(c.mats) : c.mats[k].number \in Nat /\ c.mats[k].number < c.next
    BY CatParts DEF Numbered, Material
  <2>4. CASE i \in 1 .. Len(c.mats) /\ j \in 1 .. Len(c.mats)
    <3>1. w.mats[i] = c.mats[i] /\ w.mats[j] = c.mats[j]
      BY <1>6, <2>1, <2>4
    <3>2. c.mats[i].number = c.mats[j].number => i = j
      BY <2>4 DEF Numbered
    <3>3. c.mats[i].number < c.next + 1
      BY <1>2, <2>3, <2>4
    <3> QED BY <2>1, <3>1, <3>2, <3>3
  <2>5. CASE i = Len(c.mats) + 1
    <3>1. w.mats[i].number = c.next
      BY <1>6, <2>1, <2>5
    <3>2. ASSUME j \in 1 .. Len(c.mats) PROVE w.mats[j].number # c.next
      <4>1. w.mats[j] = c.mats[j]
        BY <1>6, <2>1, <3>2
      <4> QED BY <1>2, <2>3, <3>2, <4>1
    <3> QED BY <1>2, <2>1, <2>2, <2>5, <3>1, <3>2
  <2>6. CASE i \in 1 .. Len(c.mats) /\ j = Len(c.mats) + 1
    BY <1>2, <1>6, <2>1, <2>3, <2>6
  <2> QED BY <2>2, <2>4, <2>5, <2>6
<1> QED BY <1>1, <1>5, <1>6, <1>7, <1>8, <1>9, <1>10, <1>11

Priced(c, m, s, row) == [c EXCEPT !.active[m][s] = row]

LEMMA PricedCat ==
  ASSUME NEW c, CatTyped(c), NEW m \in 1 .. Len(c.mats), NEW s \in Columns, NEW row \in PriceRow \cup {NULL},
         NEW w, w = Priced(c, m, s, row)
  PROVE  /\ CatTyped(w)
         /\ w.mats = c.mats /\ w.next = c.next /\ w.known = c.known
         /\ w.active[m][s] = row
         /\ \A k \in 1 .. Len(c.mats), u \in Columns : k # m \/ u # s => w.active[k][u] = c.active[k][u]
<1>1. /\ c = [mats |-> c.mats, active |-> c.active, next |-> c.next, known |-> c.known]
      /\ c.mats \in Seq(Material) /\ c.active \in Seq([Columns -> PriceRow \cup {NULL}])
      /\ c.next \in Nat /\ c.known \subseteq Columns /\ Len(c.mats) \in Nat
      /\ Len(c.active) = Len(c.mats) /\ DOMAIN c.active = 1 .. Len(c.mats)
      /\ \A k \in 1 .. Len(c.mats) : c.active[k] \in [Columns -> PriceRow \cup {NULL}]
  BY CatParts DEF CatTyped
<1>2. PICK new : new = [c.active EXCEPT ![m] = [c.active[m] EXCEPT ![s] = row]]
  OBVIOUS
<1>3. w = [mats |-> c.mats, active |-> new, next |-> c.next, known |-> c.known]
  BY <1>1, <1>2 DEF Priced
<1>4. PICK line : line = [c.active[m] EXCEPT ![s] = row]
  OBVIOUS
<1>5. /\ line \in [Columns -> PriceRow \cup {NULL}] /\ line[s] = row
      /\ \A u \in Columns : u # s => line[u] = c.active[m][u]
  BY <1>1, <1>4
<1>6. new = [c.active EXCEPT ![m] = line]
  BY <1>2, <1>4
<1>7. /\ new \in Seq([Columns -> PriceRow \cup {NULL}]) /\ Len(new) = Len(c.mats)
      /\ new[m] = line /\ \A k \in 1 .. Len(c.mats) : k # m => new[k] = c.active[k]
  <2> HIDE DEF PriceRow
  <2> QED BY <1>1, <1>5, <1>6
<1>8. ASSUME NEW v, v = [mats |-> c.mats, active |-> new, next |-> c.next, known |-> c.known]
      PROVE  CatTyped(v)
  BY <1>1, <1>7, <1>8 DEF CatTyped, Catalogue, Material
<1>9. w.mats = c.mats /\ w.next = c.next /\ w.known = c.known /\ w.active = new
  BY <1>3
<1>10. \A k \in 1 .. Len(c.mats), u \in Columns : k # m \/ u # s => new[k][u] = c.active[k][u]
  BY <1>5, <1>7
<1> QED BY <1>3, <1>5, <1>7, <1>8, <1>9, <1>10

-----------------------------------------------------------------------------
(* The script's progress.                                                  *)
Report(c, m, u, s) == [changes |-> c, materials |-> m, unresolved |-> u, suppliers |-> s]

Progress(t) ==
  /\ DOMAIN t = {"step", "row", "todo", "target", "seen", "pending", "held", "report"}
  /\ t.row \in Nat \ {0} /\ t.todo \subseteq Columns
  /\ t.report = Report(t.report.changes, t.report.materials, t.report.unresolved, t.report.suppliers)

Has(t, step, row, todo, target, seen, pending, held, report) ==
  /\ t.step = step /\ t.row = row /\ t.todo = todo /\ t.target = target
  /\ t.seen = seen /\ t.pending = pending /\ t.held = held /\ t.report = report

LEMMA OnwardFields ==
  ASSUME NEW t, Progress(t)
  PROVE  /\ Progress(Onward(t))
         /\ t.todo # {} => Onward(t) = t
         /\ t.todo = {} => Has(Onward(t), "row", t.row + 1, t.todo, t.target, t.seen, t.pending, t.held, t.report)
<1>1. PICK u : u = NextRow(t)
  OBVIOUS
<1>2. Has(u, "row", t.row + 1, t.todo, t.target, t.seen, t.pending, t.held, t.report) /\ DOMAIN u = DOMAIN t
  BY <1>1 DEF NextRow, Progress, Has
<1>3. Progress(u)
  BY <1>2 DEF Progress, Has
<1> QED BY <1>1, <1>2, <1>3 DEF Onward

LEMMA StartFields ==
  ASSUME sync = Idle, Start
  PROVE  /\ Progress(sync')
         /\ Has(sync', "row", 1, {}, 0, Len(db.mats), {}, {}, Report({}, {}, {}, Columns \ db.known))
<1>1. PICK r, t : /\ r = [EmptyReport EXCEPT !.suppliers = Columns \ db.known]
                  /\ t = [Idle EXCEPT !.step = "row", !.seen = Len(db.mats), !.report = r]
  OBVIOUS
<1>2. r = Report({}, {}, {}, Columns \ db.known)
  BY <1>1 DEF EmptyReport, Report
<1>3. Has(t, "row", 1, {}, 0, Len(db.mats), {}, {}, r) /\ DOMAIN t = DOMAIN Idle
  BY <1>1 DEF Idle, Has
<1>4. DOMAIN Idle = {"step", "row", "todo", "target", "seen", "pending", "held", "report"}
  BY DEF Idle
<1>5. sync' = t
  BY <1>1 DEF Start, Idle
<1>6. Progress(t)
  BY <1>2, <1>3, <1>4 DEF Progress, Has, Report
<1> QED BY <1>2, <1>3, <1>5, <1>6

(* The material a row stands for, among those the script has read.         *)
Sought == Match(SubSeq(work.mats, 1, sync.seen), Rows[sync.row].desc)

LEMMA MatchedFields ==
  ASSUME Progress(sync), RowMatched
  PROVE  \E t : /\ sync' = Onward(t) /\ Progress(t)
                /\ Has(t, "cells", sync.row, Columns, Sought, sync.seen, sync.pending, sync.held, sync.report)
<1>1. PICK t : t = [sync EXCEPT !.step = "cells", !.target = Sought, !.todo = Columns]
  OBVIOUS
<1>2. /\ Has(t, "cells", sync.row, Columns, Sought, sync.seen, sync.pending, sync.held, sync.report)
      /\ DOMAIN t = DOMAIN sync
  BY <1>1 DEF Progress, Has
<1>3. sync' = Onward(t)
  BY <1>1 DEF RowMatched, Sought
<1> QED BY <1>2, <1>3 DEF Progress, Has

LEMMA UnresolvedFields ==
  ASSUME Progress(sync), RowUnresolved
  PROVE  /\ Progress(sync')
         /\ LET r == sync.report
            IN Has(sync', "row", sync.row + 1, sync.todo, sync.target, sync.seen, sync.pending, sync.held,
                   Report(r.changes, r.materials, r.unresolved \cup {sync.row}, r.suppliers))
<1>1. PICK r : r = [sync.report EXCEPT !.unresolved = sync.report.unresolved \cup {sync.row}]
  OBVIOUS
<1>2. r = Report(sync.report.changes, sync.report.materials, sync.report.unresolved \cup {sync.row},
                 sync.report.suppliers)
  BY <1>1 DEF Progress, Report
<1>3. PICK t, u : t = [sync EXCEPT !.report = r] /\ u = NextRow(t)
  OBVIOUS
<1>4. /\ Has(t, sync.step, sync.row, sync.todo, sync.target, sync.seen, sync.pending, sync.held, r)
      /\ DOMAIN t = DOMAIN sync
  BY <1>3 DEF Progress, Has
<1>5. /\ Has(u, "row", sync.row + 1, sync.todo, sync.target, sync.seen, sync.pending, sync.held, r)
      /\ DOMAIN u = DOMAIN sync
  BY <1>3, <1>4 DEF Progress, Has, NextRow
<1>6. sync' = u
  BY <1>1, <1>3 DEF RowUnresolved
<1>7. Progress(u)
  BY <1>2, <1>5 DEF Progress, Has, Report
<1> QED BY <1>2, <1>5, <1>6, <1>7

LEMMA CreatesFields ==
  ASSUME Progress(sync), RowCreates
  PROVE  \E t : /\ sync' = Onward(t) /\ Progress(t)
                /\ LET r == sync.report
                   IN Has(t, "cells", sync.row, Columns, Len(work'.mats), sync.seen, {},
                          sync.held \cup {CAT} \cup Locked(work, sync.pending),
                          Report(r.changes, r.materials \cup {work.next}, r.unresolved, r.suppliers))
<1>1. PICK r : r = [sync.report EXCEPT !.materials = sync.report.materials \cup {work.next}]
  OBVIOUS
<1>2. r = Report(sync.report.changes, sync.report.materials \cup {work.next}, sync.report.unresolved,
                 sync.report.suppliers)
  BY <1>1 DEF Progress, Report
<1>3. PICK h : h = sync.held \cup {CAT} \cup Locked(work, sync.pending)
  OBVIOUS
<1>4. PICK t : t = [sync EXCEPT !.step = "cells", !.target = Len(work'.mats), !.todo = Columns,
                                !.pending = {}, !.held = h, !.report = r]
  OBVIOUS
<1>5. /\ Has(t, "cells", sync.row, Columns, Len(work'.mats), sync.seen, {}, h, r)
      /\ DOMAIN t = DOMAIN sync
  BY <1>4 DEF Progress, Has
<1>6. sync' = Onward(t)
  BY <1>1, <1>3, <1>4 DEF RowCreates
<1>7. Progress(t)
  BY <1>2, <1>5 DEF Progress, Has, Report
<1> QED BY <1>2, <1>3, <1>5, <1>6, <1>7

LEMMA DatedIs ==
  ASSUME NEW c, NEW p, NEW m, NEW s
  PROVE  Dated(c, p, m, s) = IF c.active[m][s] = NULL THEN p ELSE p \cup {<<m, s, c.active[m][s].by>>}
<1>1. PICK row : row = c.active[m][s]
  OBVIOUS
<1>2. {<<m, s, x.by>> : x \in {row} \ {NULL}} = IF row = NULL THEN {} ELSE {<<m, s, row.by>>}
  OBVIOUS
<1> QED BY <1>1, <1>2 DEF Dated

(* The look: what is then pending and reported.                            *)
LEMMA CellFields ==
  ASSUME Progress(sync), NEW s \in Columns, Cell(s), NEW t, t = Looked(s)
  PROVE  /\ Progress(t)
         /\ LET m == sync.target
                r == sync.report
            IN Has(t, "cells", sync.row, sync.todo \ {s}, m, sync.seen,
                   IF Asked(s) = "close" THEN Dated(work, sync.pending, m, s) ELSE sync.pending, sync.held,
                   Report(IF Asked(s) = "none" THEN r.changes
                          ELSE r.changes \cup {Change(work.mats[m].number, s, OldPrice(s), NewPrice(s))},
                          r.materials, r.unresolved, r.suppliers))
<1> DEFINE m == sync.target
           change == Change(work.mats[m].number, s, OldPrice(s), NewPrice(s))
<1>1. PICK p, c : /\ p = IF Asked(s) = "close" THEN Dated(work, sync.pending, m, s) ELSE sync.pending
                  /\ c = IF Asked(s) = "none" THEN sync.report.changes ELSE sync.report.changes \cup {change}
  OBVIOUS
<1>2. PICK r : r = [sync.report EXCEPT !.changes = c]
  OBVIOUS
<1>3. r = Report(c, sync.report.materials, sync.report.unresolved, sync.report.suppliers)
  BY <1>2 DEF Progress, Report
<1>4. PICK u : u = [sync EXCEPT !.todo = sync.todo \ {s}, !.pending = p, !.report = r]
  OBVIOUS
<1>5. /\ Has(u, sync.step, sync.row, sync.todo \ {s}, m, sync.seen, p, sync.held, r)
      /\ DOMAIN u = DOMAIN sync
  BY <1>4 DEF Progress, Has
<1>6. t = u
  <2>1. Looked(s) = [sync EXCEPT !.todo = sync.todo \ {s}, !.pending = p, !.report.changes = c]
    BY <1>1 DEF Looked
  <2>2. [sync EXCEPT !.todo = sync.todo \ {s}, !.pending = p, !.report.changes = c] = u
    <3>1. PICK x : x = [sync EXCEPT !.todo = sync.todo \ {s}, !.pending = p]
      OBVIOUS
    <3>2. x.report = sync.report
      BY <3>1 DEF Progress
    <3>3. [sync EXCEPT !.todo = sync.todo \ {s}, !.pending = p, !.report.changes = c] = [x EXCEPT !.report = [x.report EXCEPT !.changes = c]]
      BY <3>1
    <3> QED BY <1>2, <1>4, <3>1, <3>2, <3>3
  <2> QED BY <2>1, <2>2
<1>7. sync.step = "cells"
  BY DEF Cell
<1>8. Progress(t)
  BY <1>3, <1>5, <1>6 DEF Progress, Has, Report
<1> HIDE DEF change
<1>9. Has(t, "cells", sync.row, sync.todo \ {s}, m, sync.seen,
          IF Asked(s) = "close" THEN Dated(work, sync.pending, m, s) ELSE sync.pending, sync.held,
          Report(IF Asked(s) = "none" THEN sync.report.changes ELSE sync.report.changes \cup {change},
                 sync.report.materials, sync.report.unresolved, sync.report.suppliers))
  BY <1>1, <1>3, <1>5, <1>6, <1>7
<1> QED BY <1>8, <1>9 DEF change

(* version_price's own reading, and its flush.                             *)
LEMMA ReadFields ==
  ASSUME Progress(sync), ReadActive
  PROVE  /\ Progress(sync')
         /\ Has(sync', sync.step, sync.row, sync.todo, sync.target, sync.seen,
                Dated(work, sync.pending, sync.target, now.column), sync.held, sync.report)
<1>1. PICK p, t : p = Dated(work, sync.pending, sync.target, now.column) /\ t = [sync EXCEPT !.pending = p]
  OBVIOUS
<1>2. sync' = t
  BY <1>1 DEF ReadActive
<1>3. Has(t, sync.step, sync.row, sync.todo, sync.target, sync.seen, p, sync.held, sync.report) /\ DOMAIN t = DOMAIN sync
  BY <1>1 DEF Progress, Has
<1>4. Progress(t)
  BY <1>3 DEF Progress, Has
<1> QED BY <1>1, <1>2, <1>3, <1>4

LEMMA WriteFields ==
  ASSUME Progress(sync), WritePrice
  PROVE  \E t : /\ sync' = Onward(t) /\ Progress(t)
                /\ Has(t, sync.step, sync.row, sync.todo, sync.target, sync.seen, {},
                       sync.held \cup {<<sync.target, now.column>>} \cup Locked(work, sync.pending), sync.report)
<1>1. PICK h, t : /\ h = sync.held \cup {<<sync.target, now.column>>} \cup Locked(work, sync.pending)
                  /\ t = [sync EXCEPT !.pending = {}, !.held = h]
  OBVIOUS
<1>2. sync' = Onward(t)
  BY <1>1 DEF WritePrice
<1>3. Has(t, sync.step, sync.row, sync.todo, sync.target, sync.seen, {}, h, sync.report) /\ DOMAIN t = DOMAIN sync
  BY <1>1 DEF Progress, Has
<1>4. Progress(t)
  BY <1>3 DEF Progress, Has
<1> QED BY <1>1, <1>2, <1>3, <1>4

-----------------------------------------------------------------------------
(* What the transaction knows of the committed catalogue, whatever others  *)
(* do: d is committed, w the transaction's view, t the script's progress,  *)
(* new the pairs changed since the script read them, n the others' commits.*)
Named(rows, name) == \E k \in DOMAIN rows : NameOf(rows[k].desc) = NameOf(name)

Grows(d, w, t) ==
  /\ t.seen \in 0 .. Len(d.mats)
  /\ Len(d.mats) <= Len(w.mats)
  /\ \A i \in 1 .. Len(d.mats) : w.mats[i] = d.mats[i]
  /\ CAT \notin t.held => w.mats = d.mats /\ w.next = d.next

AtTarget(rows, w, t) ==
  t.step = "cells" =>
    /\ t.row \in DOMAIN rows /\ t.target \in 1 .. Len(w.mats)
    /\ NameOf(rows[t.row].desc) = NameOf(w.mats[t.target].name)

PendingKnown(rows, w, t, n) ==
  \A p \in t.pending : /\ p = <<p[1], p[2], p[3]>> /\ p[1] \in 1 .. Len(w.mats) /\ p[2] \in Columns
                       /\ p[3] \in 0 .. n /\ Named(rows, w.mats[p[1]].name)

RowsKnown(w, n) ==
  \A m \in 1 .. Len(w.mats), s \in Columns : w.active[m][s] # NULL => w.active[m][s].by \in 0 .. n

(* A pair the script has not changed since others have, or that the file   *)
(* says nothing of.                                                        *)
LeftAlone(rows, d, w, t, new) ==
  \A m \in 1 .. Len(d.mats), s \in Columns :
    <<m, s>> \in new \/ ~Named(rows, d.mats[m].name) =>
      w.active[m][s] = d.active[m][s] /\ ~Closing(w, t.pending, m, s)

Linked(rows, d, w, t, new, n) ==
  Grows(d, w, t) /\ AtTarget(rows, w, t) /\ PendingKnown(rows, w, t, n) /\ RowsKnown(w, n)
    /\ LeftAlone(rows, d, w, t, new)

LEMMA LinkedOnward ==
  ASSUME NEW rows, NEW d, NEW w, NEW t, NEW new, NEW n, Progress(t), Linked(rows, d, w, t, new, n)
  PROVE  Linked(rows, d, w, Onward(t), new, n)
<1>1. CASE t.todo # {}
  BY <1>1, OnwardFields
<1>2. CASE t.todo = {}
  <2>1. PICK u : u = Onward(t)
    OBVIOUS
  <2>2. Has(u, "row", t.row + 1, t.todo, t.target, t.seen, t.pending, t.held, t.report)
    BY <1>2, <2>1, OnwardFields
  <2>3. Linked(rows, d, w, u, new, n)
    BY <2>2 DEF Has, Linked, Grows, AtTarget, PendingKnown, LeftAlone
  <2> QED BY <2>1, <2>3
<1> QED BY <1>1, <1>2

Resolved(d) == [d EXCEPT !.known = d.known \cup Columns]

LEMMA LinkedStart ==
  ASSUME NEW rows, NEW d, NEW w, NEW t, CatTyped(d), RowsKnown(d, 0),
         w = Resolved(d),
         Has(t, "row", 1, {}, 0, Len(d.mats), {}, {}, t.report)
  PROVE  CatTyped(w) /\ w.mats = d.mats /\ w.next = d.next /\ w.active = d.active
         /\ Linked(rows, d, w, t, {}, 0)
<1>1. /\ d = [mats |-> d.mats, active |-> d.active, next |-> d.next, known |-> d.known]
      /\ Len(d.mats) \in Nat /\ d.known \subseteq Columns
  BY CatParts
<1>2. w = [mats |-> d.mats, active |-> d.active, next |-> d.next, known |-> d.known \cup Columns]
  BY <1>1 DEF Resolved
<1>3. CatTyped(w)
  BY <1>1, <1>2 DEF CatTyped, Catalogue
<1>4. w.mats = d.mats /\ w.next = d.next /\ w.active = d.active
  BY <1>2
<1>5. Linked(rows, d, w, t, {}, 0)
  BY <1>1, <1>4 DEF Linked, Grows, AtTarget, PendingKnown, RowsKnown, LeftAlone, Has, Closing
<1> QED BY <1>3, <1>4, <1>5

(* Row and target.                                                         *)
LEMMA LinkedMatched ==
  ASSUME NEW rows, NEW d, NEW w, NEW t, NEW u, NEW new, NEW n, CatTyped(w), CatTyped(d),
         Linked(rows, d, w, t, new, n), t.row \in DOMAIN rows,
         NEW m, m = Match(SubSeq(w.mats, 1, t.seen), rows[t.row].desc), m # 0,
         Has(u, "cells", t.row, Columns, m, t.seen, t.pending, t.held, t.report)
  PROVE  Linked(rows, d, w, u, new, n)
<1>1. Len(d.mats) \in Nat /\ Len(w.mats) \in Nat /\ w.mats \in Seq(Material)
  BY CatParts
<1>2. PICK ms : ms = SubSeq(w.mats, 1, t.seen)
  OBVIOUS
<1>3. t.seen \in 0 .. Len(w.mats)
  BY <1>1 DEF Linked, Grows
<1>4. ms \in Seq(Material) /\ Len(ms) = t.seen /\ \A i \in 1 .. t.seen : ms[i] = w.mats[i]
  <2> HIDE DEF Material
  <2> QED BY <1>1, <1>2, <1>3
<1>5. m \in 1 .. t.seen /\ NameOf(ms[m].name) = NameOf(rows[t.row].desc)
  <2>1. PICK x : x = rows[t.row].desc
    OBVIOUS
  <2>2. m = Match(ms, x)
    BY <1>2, <2>1
  <2>3. m \in 0 .. Len(ms) /\ NameOf(ms[m].name) = NameOf(x)
    BY <1>4, <2>2, MatchFound
  <2> QED BY <1>3, <1>4, <2>1, <2>3
<1>6. m \in 1 .. Len(w.mats) /\ w.mats[m] = ms[m]
  BY <1>1, <1>3, <1>4, <1>5
<1>7. AtTarget(rows, w, u)
  BY <1>5, <1>6 DEF AtTarget, Has
<1> QED BY <1>7 DEF Linked, Grows, PendingKnown, LeftAlone, Has

LEMMA LinkedUnresolved ==
  ASSUME NEW rows, NEW d, NEW w, NEW t, NEW u, NEW new, NEW n, NEW r,
         Linked(rows, d, w, t, new, n),
         Has(u, "row", t.row + 1, t.todo, t.target, t.seen, t.pending, t.held, r)
  PROVE  Linked(rows, d, w, u, new, n)
BY DEF Linked, Grows, AtTarget, PendingKnown, LeftAlone, Has

(* A new material: a flush, then a row of its own in every table.          *)
LEMMA LinkedCreates ==
  ASSUME NEW rows, NEW d, NEW w, NEW w2, NEW t, NEW u, NEW new, NEW n, NEW h, NEW r,
         CatTyped(w), CatTyped(d), Numbered(w), IsFile(rows), t.row \in DOMAIN rows,
         Linked(rows, d, w, t, new, n),
         w2 = WithMaterial(Flushed(w, t.pending), rows[t.row].desc),
         Has(u, "cells", t.row, Columns, Len(w2.mats), t.seen, {}, h, r), CAT \in h
  PROVE  CatTyped(w2) /\ Numbered(w2) /\ Linked(rows, d, w2, u, new, n)
<1>1. PICK f : f = Flushed(w, t.pending)
  OBVIOUS
<1>2. rows[t.row].desc \in Texts
  BY DEF IsFile
<1>3. /\ CatTyped(f) /\ f.mats = w.mats /\ f.next = w.next
      /\ \A m \in 1 .. Len(w.mats), s \in Columns :
           f.active[m][s] = IF Closing(w, t.pending, m, s) THEN NULL ELSE w.active[m][s]
  BY <1>1, FlushedCat
<1>4. Numbered(f)
  BY <1>3 DEF Numbered
<1>5. /\ CatTyped(w2) /\ Numbered(w2) /\ Len(w2.mats) = Len(w.mats) + 1
      /\ \A m \in 1 .. Len(w.mats) : w2.mats[m] = w.mats[m] /\ w2.active[m] = f.active[m]
      /\ w2.mats[Len(w.mats) + 1].name = rows[t.row].desc
      /\ \A s \in Columns : w2.active[Len(w.mats) + 1][s] = NULL
  <2>1. PICK x : x = rows[t.row].desc
    OBVIOUS
  <2>2. w2 = WithMaterial(f, x) /\ x \in Texts
    BY <1>1, <1>2, <2>1
  <2>3. /\ CatTyped(w2) /\ Numbered(w2) /\ Len(w2.mats) = Len(w.mats) + 1
        /\ \A m \in 1 .. Len(w.mats) : w2.mats[m] = w.mats[m] /\ w2.active[m] = f.active[m]
        /\ w2.mats[Len(w.mats) + 1] = [name |-> x, number |-> f.next]
        /\ \A s \in Columns : w2.active[Len(w.mats) + 1][s] = NULL
    <3>1. /\ CatTyped(WithMaterial(f, x)) /\ Numbered(WithMaterial(f, x))
          /\ Len(WithMaterial(f, x).mats) = Len(f.mats) + 1
          /\ \A m \in 1 .. Len(f.mats) : /\ WithMaterial(f, x).mats[m] = f.mats[m]
                                         /\ WithMaterial(f, x).active[m] = f.active[m]
          /\ WithMaterial(f, x).mats[Len(f.mats) + 1] = [name |-> x, number |-> f.next]
          /\ \A s \in Columns : WithMaterial(f, x).active[Len(f.mats) + 1][s] = NULL
      <4>1. CatTyped(f) /\ Numbered(f) /\ x \in Texts BY <1>3, <1>4, <2>2
      <4> QED BY <4>1, GrownCat
    <3>2. f.mats = w.mats BY <1>3
    <3> QED BY <2>2, <3>1, <3>2
  <2>4. w2.mats[Len(w.mats) + 1].name = x
    BY <2>3
  <2> QED BY <2>1, <2>3, <2>4
<1>6. Len(w.mats) \in Nat /\ Len(d.mats) \in Nat
  BY CatParts
<1>7. \A m \in 1 .. Len(w2.mats) : m \in 1 .. Len(w.mats) \/ m = Len(w.mats) + 1
  BY <1>5, <1>6
<1>8. Grows(d, w2, u)
  <2>1. /\ t.seen \in 0 .. Len(d.mats) /\ Len(d.mats) <= Len(w.mats)
        /\ \A i \in 1 .. Len(d.mats) : w.mats[i] = d.mats[i]
    BY DEF Linked, Grows
  <2>2. u.seen = t.seen /\ CAT \in u.held
    BY DEF Has
  <2>3. \A i \in 1 .. Len(d.mats) : i \in 1 .. Len(w.mats)
    BY <1>6, <2>1
  <2>4. \A i \in 1 .. Len(d.mats) : w2.mats[i] = d.mats[i]
    BY <1>5, <2>1, <2>3
  <2>5. Len(d.mats) <= Len(w2.mats)
    BY <1>5, <1>6, <2>1
  <2> QED BY <2>1, <2>2, <2>4, <2>5 DEF Grows
<1>9. AtTarget(rows, w2, u)
  BY <1>5, <1>6 DEF AtTarget, Has
<1>10. RowsKnown(w2, n)
  <2>1. ASSUME NEW m \in 1 .. Len(w2.mats), NEW s \in Columns, w2.active[m][s] # NULL
        PROVE  w2.active[m][s].by \in 0 .. n
    <3>1. m \in 1 .. Len(w.mats)
      BY <1>5, <1>7, <2>1
    <3>2. w2.active[m][s] = w.active[m][s]
      BY <1>3, <1>5, <2>1, <3>1
    <3> QED BY <2>1, <3>1, <3>2 DEF Linked, RowsKnown
  <2> QED BY <2>1 DEF RowsKnown
<1>11. LeftAlone(rows, d, w2, u, new)
  <2> SUFFICES ASSUME NEW m \in 1 .. Len(d.mats), NEW s \in Columns,
                      <<m, s>> \in new \/ ~Named(rows, d.mats[m].name)
               PROVE  w2.active[m][s] = d.active[m][s] /\ ~Closing(w2, {}, m, s)
    BY DEF LeftAlone, Has
  <2>1. w.active[m][s] = d.active[m][s] /\ ~Closing(w, t.pending, m, s)
    BY DEF Linked, LeftAlone
  <2>2. m \in 1 .. Len(w.mats)
    BY <1>6 DEF Linked, Grows
  <2> QED BY <1>3, <1>5, <2>1, <2>2 DEF Closing
<1> QED BY <1>5, <1>8, <1>9, <1>10, <1>11 DEF Linked, PendingKnown, Has

(* A closure is noted only, and concerns the row's own material.           *)
LEMMA LinkedNoted ==
  ASSUME NEW rows, NEW d, NEW w, NEW t, NEW u, NEW new, NEW n, NEW s \in Columns, NEW pending, NEW todo, NEW r,
         CatTyped(w), CatTyped(d), n \in Nat, Linked(rows, d, w, t, new, n), t.step = "cells",
         pending = t.pending \/ pending = Dated(w, t.pending, t.target, s),
         Has(u, "cells", t.row, todo, t.target, t.seen, pending, t.held, r)
  PROVE  Linked(rows, d, w, u, new \ {<<t.target, s>>}, n)
<1>1. PICK m, b : m = t.target /\ b = w.active[m][s].by
  OBVIOUS
<1>2. m \in 1 .. Len(w.mats) /\ Named(rows, w.mats[m].name)
  BY <1>1 DEF Linked, AtTarget, Named
<1>3. w.active[m][s] # NULL => b \in 0 .. n
  BY <1>1, <1>2 DEF Linked, RowsKnown
<1>0. \/ pending = t.pending
      \/ w.active[m][s] # NULL /\ pending = t.pending \cup {<<m, s, b>>}
  BY <1>1, DatedIs
<1>4. PendingKnown(rows, w, u, n)
  <2> SUFFICES ASSUME NEW p \in u.pending
               PROVE  /\ p = <<p[1], p[2], p[3]>> /\ p[1] \in 1 .. Len(w.mats) /\ p[2] \in Columns
                      /\ p[3] \in 0 .. n /\ Named(rows, w.mats[p[1]].name)
    BY DEF PendingKnown
  <2>1. CASE p \in t.pending
    BY <2>1 DEF Linked, PendingKnown
  <2>2. CASE p \notin t.pending
    <3>1. p = <<m, s, b>> /\ w.active[m][s] # NULL
      BY <1>0, <2>2 DEF Has
    <3> QED BY <1>2, <1>3, <3>1
  <2> QED BY <2>1, <2>2
<1>5. LeftAlone(rows, d, w, u, new \ {<<m, s>>})
  <2> SUFFICES ASSUME NEW k \in 1 .. Len(d.mats), NEW v \in Columns,
                      <<k, v>> \in new \ {<<m, s>>} \/ ~Named(rows, d.mats[k].name)
               PROVE  w.active[k][v] = d.active[k][v] /\ ~Closing(w, u.pending, k, v)
    BY DEF LeftAlone
  <2>1. w.active[k][v] = d.active[k][v] /\ ~Closing(w, t.pending, k, v)
    BY DEF Linked, LeftAlone
  <2>2. d.mats[k] = w.mats[k]
    BY DEF Linked, Grows
  <2>3. <<k, v>> # <<m, s>>
    BY <1>2, <2>2
  <2>4. ~Closing(w, u.pending, k, v)
    BY <1>0, <2>1, <2>3 DEF Closing, Has
  <2> QED BY <2>1, <2>4
<1> QED BY <1>1, <1>4, <1>5 DEF Linked, Grows, AtTarget, Has

(* A write flushes what was noted before it.                               *)
Wrote(w, t, new, w2, u, new2) ==
  \E s \in Columns, price \in Nat : \E held, r :
    /\ w2 = Priced(Flushed(w, t.pending), t.target, s, [price |-> price, by |-> 0])
    /\ new2 = new \ {<<t.target, s>>} /\ t.held \subseteq held
    /\ Has(u, "cells", t.row, t.todo, t.target, t.seen, {}, held, r)

LEMMA LinkedWritten ==
  ASSUME NEW rows, NEW d, NEW w, NEW w2, NEW t, NEW u, NEW new, NEW new2, NEW n,
         CatTyped(w), CatTyped(d), n \in Nat, Linked(rows, d, w, t, new, n), t.step = "cells",
         Wrote(w, t, new, w2, u, new2)
  PROVE  /\ CatTyped(w2) /\ w2.mats = w.mats /\ w2.next = w.next
         /\ Linked(rows, d, w2, u, new2, n)
<1>0. PICK s \in Columns, price \in Nat : \E held, r :
        /\ w2 = Priced(Flushed(w, t.pending), t.target, s, [price |-> price, by |-> 0])
        /\ new2 = new \ {<<t.target, s>>} /\ t.held \subseteq held
        /\ Has(u, "cells", t.row, t.todo, t.target, t.seen, {}, held, r)
  BY DEF Wrote
<1>. PICK held, r, row :
        /\ w2 = Priced(Flushed(w, t.pending), t.target, s, row) /\ row = [price |-> price, by |-> 0]
        /\ new2 = new \ {<<t.target, s>>} /\ t.held \subseteq held
        /\ Has(u, "cells", t.row, t.todo, t.target, t.seen, {}, held, r)
  BY <1>0
<1>1. PICK m, f : m = t.target /\ f = Flushed(w, t.pending) /\ new2 = new \ {<<m, s>>}
  OBVIOUS
<1>2. m \in 1 .. Len(w.mats) /\ Named(rows, w.mats[m].name)
  BY <1>1 DEF Linked, AtTarget, Named
<1>3. /\ CatTyped(f) /\ f.mats = w.mats /\ f.next = w.next
      /\ \A k \in 1 .. Len(w.mats), v \in Columns :
           f.active[k][v] = IF Closing(w, t.pending, k, v) THEN NULL ELSE w.active[k][v]
  BY <1>1, FlushedCat
<1>4. row \in PriceRow \cup {NULL}
  BY <1>1 DEF PriceRow
<1>5. w2 = Priced(f, m, s, row)
  BY <1>1
<1>6. /\ CatTyped(w2) /\ w2.mats = w.mats /\ w2.next = w.next /\ w2.active[m][s] = row
      /\ \A k \in 1 .. Len(w.mats), v \in Columns : k # m \/ v # s => w2.active[k][v] = f.active[k][v]
  BY <1>2, <1>3, <1>4, <1>5, PricedCat
<1>7. RowsKnown(w2, n)
  <2> SUFFICES ASSUME NEW k \in 1 .. Len(w.mats), NEW v \in Columns, w2.active[k][v] # NULL
               PROVE  w2.active[k][v].by \in 0 .. n
    BY <1>6 DEF RowsKnown
  <2>1. CASE k = m /\ v = s
    BY <1>1, <1>6, <2>1
  <2>2. CASE k # m \/ v # s
    BY <1>3, <1>6, <2>2 DEF Linked, RowsKnown
  <2> QED BY <2>1, <2>2
<1>8. LeftAlone(rows, d, w2, u, new2)
  <2> SUFFICES ASSUME NEW k \in 1 .. Len(d.mats), NEW v \in Columns,
                      <<k, v>> \in new2 \/ ~Named(rows, d.mats[k].name)
               PROVE  w2.active[k][v] = d.active[k][v] /\ ~Closing(w2, u.pending, k, v)
    BY DEF LeftAlone
  <2>1. w.active[k][v] = d.active[k][v] /\ ~Closing(w, t.pending, k, v)
    BY <1>1 DEF Linked, LeftAlone
  <2>2. d.mats[k] = w.mats[k] /\ k \in 1 .. Len(w.mats)
    <3>1. Len(d.mats) \in Nat /\ Len(w.mats) \in Nat
      BY CatParts
    <3> QED BY <3>1 DEF Linked, Grows
  <2>3. k # m \/ v # s
    BY <1>1, <1>2, <2>2
  <2>4. w2.active[k][v] = d.active[k][v]
    BY <1>3, <1>6, <2>1, <2>2, <2>3
  <2> QED BY <2>4 DEF Closing, Has
<1>9. Grows(d, w2, u) /\ AtTarget(rows, w2, u)
  BY <1>6 DEF Linked, Grows, AtTarget, Has
<1> QED BY <1>1, <1>6, <1>7, <1>8, <1>9 DEF Linked, PendingKnown, Has

(* Others change a price: no pending closure is of the new row.            *)
PriceSet(d, w, new, n, d2, w2, new2, n2) ==
  \E m \in 1 .. Len(d.mats), s \in Columns, row \in PriceRow \cup {NULL} :
    /\ d2 = Priced(d, m, s, row) /\ w2 = Priced(w, m, s, row)
    /\ n2 = n + 1 /\ (row # NULL => row.by = n2) /\ new2 = new \cup {<<m, s>>}

LEMMA LinkedPrice ==
  ASSUME NEW rows, NEW d, NEW d2, NEW w, NEW w2, NEW t, NEW new, NEW new2, NEW n, NEW n2, n \in Nat,
         CatTyped(w), CatTyped(d), Linked(rows, d, w, t, new, n),
         PriceSet(d, w, new, n, d2, w2, new2, n2)
  PROVE  /\ CatTyped(d2) /\ d2.mats = d.mats /\ d2.next = d.next
         /\ CatTyped(w2) /\ w2.mats = w.mats /\ w2.next = w.next
         /\ Linked(rows, d2, w2, t, new2, n2)
<1>. PICK m \in 1 .. Len(d.mats), s \in Columns, row \in PriceRow \cup {NULL} :
        /\ d2 = Priced(d, m, s, row) /\ w2 = Priced(w, m, s, row)
        /\ n2 = n + 1 /\ (row # NULL => row.by = n2) /\ new2 = new \cup {<<m, s>>}
  BY DEF PriceSet
<1>1. Len(d.mats) \in Nat /\ Len(w.mats) \in Nat /\ Len(d.mats) <= Len(w.mats)
  BY CatParts DEF Linked, Grows
<1>2. m \in 1 .. Len(w.mats)
  BY <1>1
<1>3. /\ CatTyped(d2) /\ d2.mats = d.mats /\ d2.next = d.next /\ d2.active[m][s] = row
      /\ \A k \in 1 .. Len(d.mats), v \in Columns : k # m \/ v # s => d2.active[k][v] = d.active[k][v]
  BY PricedCat
<1>4. /\ CatTyped(w2) /\ w2.mats = w.mats /\ w2.next = w.next /\ w2.active[m][s] = row
      /\ \A k \in 1 .. Len(w.mats), v \in Columns : k # m \/ v # s => w2.active[k][v] = w.active[k][v]
  BY <1>2, PricedCat
<1>5. Grows(d2, w2, t) /\ AtTarget(rows, w2, t)
  BY <1>3, <1>4 DEF Linked, Grows, AtTarget
<1>6. PendingKnown(rows, w2, t, n2)
  <2>1. \A i \in 0 .. n : i \in 0 .. n2
    OBVIOUS
  <2> QED BY <1>4, <2>1 DEF Linked, PendingKnown
<1>7. RowsKnown(w2, n2)
  <2> SUFFICES ASSUME NEW k \in 1 .. Len(w.mats), NEW v \in Columns, w2.active[k][v] # NULL
               PROVE  w2.active[k][v].by \in 0 .. n2
    BY <1>4 DEF RowsKnown
  <2>1. CASE k = m /\ v = s
    BY <1>4, <2>1
  <2>2. CASE k # m \/ v # s
    <3>1. w2.active[k][v].by \in 0 .. n
      BY <1>4, <2>2 DEF Linked, RowsKnown
    <3> QED BY <3>1
  <2> QED BY <2>1, <2>2
<1>8. LeftAlone(rows, d2, w2, t, new2)
  <2> SUFFICES ASSUME NEW k \in 1 .. Len(d.mats), NEW v \in Columns,
                      <<k, v>> \in new2 \/ ~Named(rows, d.mats[k].name)
               PROVE  w2.active[k][v] = d2.active[k][v] /\ ~Closing(w2, t.pending, k, v)
    BY <1>3 DEF LeftAlone
  <2>0. k \in 1 .. Len(w.mats)
    BY <1>1
  <2>1. CASE k = m /\ v = s
    <3>1. row # NULL => <<m, s, row.by>> \notin t.pending
      <4>1. \A p \in t.pending : p[3] \in 0 .. n
        BY DEF Linked, PendingKnown
      <4> QED BY <4>1
    <3> QED BY <1>3, <1>4, <2>1, <3>1 DEF Closing
  <2>2. CASE k # m \/ v # s
    <3>1. w.active[k][v] = d.active[k][v] /\ ~Closing(w, t.pending, k, v)
      BY <2>2 DEF Linked, LeftAlone
    <3> QED BY <1>3, <1>4, <2>0, <2>2, <3>1 DEF Closing
  <2> QED BY <2>1, <2>2
<1> QED BY <1>3, <1>4, <1>5, <1>6, <1>7, <1>8 DEF Linked

(* Others add a material, which the script has none of before.             *)
LEMMA LinkedMaterial ==
  ASSUME NEW rows, NEW d, NEW d2, NEW w, NEW w2, NEW t, NEW new, NEW n \in Nat, NEW name \in Texts,
         CatTyped(w), CatTyped(d), Linked(rows, d, w, t, new, n), CAT \notin t.held,
         new \subseteq (1 .. Len(d.mats)) \X Columns,
         d2 = WithMaterial(d, name), w2 = WithMaterial(w, name)
  PROVE  Linked(rows, d2, w2, t, new, n + 1)
<1>1. /\ Len(d.mats) \in Nat /\ w.mats = d.mats /\ w.next = d.next
  BY CatParts DEF Linked, Grows
<1>2. /\ CatTyped(d2) /\ d2.mats = Append(d.mats, [name |-> name, number |-> d.next])
      /\ Len(d2.mats) = Len(d.mats) + 1 /\ d2.next = d.next + 1
      /\ \A m \in 1 .. Len(d.mats) : d2.mats[m] = d.mats[m] /\ d2.active[m] = d.active[m]
      /\ \A s \in Columns : d2.active[Len(d.mats) + 1][s] = NULL
  BY GrownCat
<1>3. /\ CatTyped(w2) /\ w2.mats = Append(w.mats, [name |-> name, number |-> w.next])
      /\ w2.next = w.next + 1
      /\ \A m \in 1 .. Len(w.mats) : w2.mats[m] = w.mats[m] /\ w2.active[m] = w.active[m]
      /\ \A s \in Columns : w2.active[Len(w.mats) + 1][s] = NULL
  BY GrownCat
<1>4. w2.mats = d2.mats /\ w2.next = d2.next
  BY <1>1, <1>2, <1>3
<1>5. \A m \in 1 .. Len(d2.mats) : m \in 1 .. Len(d.mats) \/ m = Len(d.mats) + 1
  BY <1>1, <1>2
<1>6. Grows(d2, w2, t)
  BY <1>1, <1>2, <1>4 DEF Linked, Grows
<1>7. 1 .. Len(w.mats) \subseteq 1 .. Len(w2.mats)
  BY <1>1, <1>2, <1>4
<1>8. AtTarget(rows, w2, t)
  BY <1>3, <1>7 DEF Linked, AtTarget
<1>9. PendingKnown(rows, w2, t, n + 1)
  <2>1. \A i \in 0 .. n : i \in 0 .. n + 1
    OBVIOUS
  <2> QED BY <1>3, <1>7, <2>1 DEF Linked, PendingKnown
<1>10. RowsKnown(w2, n + 1)
  <2>1. \A i \in 0 .. n : i \in 0 .. n + 1
    OBVIOUS
  <2>2. ASSUME NEW m \in 1 .. Len(w2.mats), NEW s \in Columns, w2.active[m][s] # NULL
        PROVE  w2.active[m][s].by \in 0 .. n
    <3>1. m \in 1 .. Len(w.mats)
      BY <1>1, <1>3, <1>4, <1>5, <2>2
    <3> QED BY <1>3, <2>2, <3>1 DEF Linked, RowsKnown
  <2> QED BY <2>1, <2>2 DEF RowsKnown
<1>11. LeftAlone(rows, d2, w2, t, new)
  <2> SUFFICES ASSUME NEW k \in 1 .. Len(d2.mats), NEW v \in Columns,
                      <<k, v>> \in new \/ ~Named(rows, d2.mats[k].name)
               PROVE  w2.active[k][v] = d2.active[k][v] /\ ~Closing(w2, t.pending, k, v)
    BY DEF LeftAlone
  <2>1. CASE k \in 1 .. Len(d.mats)
    <3>1. w.active[k][v] = d.active[k][v] /\ ~Closing(w, t.pending, k, v)
      BY <1>2, <2>1 DEF Linked, LeftAlone
    <3> QED BY <1>1, <1>2, <1>3, <2>1, <3>1 DEF Closing
  <2>2. CASE k = Len(d.mats) + 1
    BY <1>1, <1>2, <1>3, <2>2 DEF Closing
  <2> QED BY <1>5, <2>1, <2>2
<1> QED BY <1>6, <1>8, <1>9, <1>10, <1>11 DEF Linked

-----------------------------------------------------------------------------
(* The inductive invariant, whatever others do.                            *)
Catalogues ==
  /\ CatTyped(db) /\ Numbered(db) /\ CatTyped(work) /\ Numbered(work)
  /\ newer \subseteq (1 .. Len(db.mats)) \X Columns

(* version_price is at work only within a row, on a price of the file.     *)
Busy == now # NULL => /\ sync.step = "cells" /\ now \in Write /\ now.column \in Columns
                      /\ NewPrice(now.column) \in Nat

Wellformed ==
  /\ Busy
  /\ sheet \in Sheets /\ outside \in Nat /\ Progress(sync) /\ Catalogues
  /\ sync.step = "idle" => sync = Idle /\ work = db /\ db \in Bases /\ newer = {} /\ outside = 0
  /\ sync.step \in {"row", "cells"} => Linked(Rows, db, work, sync, newer, outside)

LEMMA BaseIsCatalogue ==
  ASSUME NEW b \in Bases
  PROVE  CatTyped(b) /\ Numbered(b) /\ RowsKnown(b, 0)
<1>1. CatTyped(b)
  BY SyncAssumption DEF CatTyped
<1>2. Len(b.mats) \in Nat /\ DOMAIN b.mats = 1 .. Len(b.mats) /\ DOMAIN b.active = 1 .. Len(b.mats)
  BY <1>1, CatParts
<1>3. Numbered(b)
  BY SyncAssumption
<1>4. RowsKnown(b, 0)
  BY <1>2, SyncAssumption DEF RowsKnown
<1> QED BY <1>1, <1>3, <1>4

LEMMA IdleIsProgress == Progress(Idle) /\ Idle.step = "idle"
BY DEF Idle, Progress, Report, EmptyReport

LEMMA InitWellformed == Init => Wellformed
<1> SUFFICES ASSUME Init PROVE Wellformed
  OBVIOUS
<1>1. sync = Idle /\ now = NULL /\ work = db /\ db \in Bases /\ newer = {} /\ outside = 0 /\ sheet \in Sheets
  BY DEF Init
<1>2. Progress(sync) /\ sync.step = "idle"
  BY <1>1, IdleIsProgress
<1>3. CatTyped(db) /\ Numbered(db)
  BY <1>1, BaseIsCatalogue
<1> QED BY <1>1, <1>2, <1>3 DEF Wellformed, Catalogues, Busy

LEMMA RowsFile == Wellformed => IsFile(Rows)
BY ParsedIsFile DEF Wellformed, Rows

LEMMA StartKeeps == Wellformed /\ Start => Wellformed'
<1> SUFFICES ASSUME Wellformed, Start PROVE Wellformed'
  OBVIOUS
<1>1. /\ sync = Idle /\ db \in Bases /\ newer = {} /\ outside = 0 /\ CatTyped(db) /\ Numbered(db)
      /\ work' = Resolved(db)
      /\ db' = db /\ newer' = newer /\ outside' = outside /\ sheet' = sheet /\ now' = NULL
  BY IdleIsProgress DEF Wellformed, Catalogues, Start, Resolved, Busy
<1>2. /\ Progress(sync')
      /\ Has(sync', "row", 1, {}, 0, Len(db.mats), {}, {}, Report({}, {}, {}, Columns \ db.known))
  BY <1>1, StartFields
<1>3. PICK t : t = sync'
  OBVIOUS
<1>4. Has(t, "row", 1, {}, 0, Len(db.mats), {}, {}, t.report)
  BY <1>2, <1>3 DEF Has
<1>5. PICK w : w = work'
  OBVIOUS
<1>6. /\ CatTyped(w) /\ w.mats = db.mats /\ w.next = db.next /\ w.active = db.active
      /\ Linked(Rows, db, w, t, {}, 0)
  BY <1>1, <1>4, <1>5, BaseIsCatalogue, LinkedStart
<1>7. Numbered(w)
  BY <1>1, <1>6 DEF Numbered
<1>8. Rows' = Rows
  BY <1>1 DEF Rows
<1>9. t.step = "row"
  BY <1>4 DEF Has
<1> QED BY <1>1, <1>2, <1>3, <1>5, <1>6, <1>7, <1>8, <1>9 DEF Wellformed, Catalogues, Busy

(* At a row, the row is one of the file's.                                 *)
LEMMA AtRow ==
  ASSUME Wellformed, sync.step = "row", sync.row <= Len(Rows)
  PROVE  sync.row \in DOMAIN Rows /\ Linked(Rows, db, work, sync, newer, outside)
BY RowsFile DEF Wellformed, Progress, IsFile

LEMMA RowMatchedKeeps == Wellformed /\ RowMatched => Wellformed'
<1> SUFFICES ASSUME Wellformed, RowMatched PROVE Wellformed'
  OBVIOUS
<1>1. /\ UNCHANGED <<sheet, db, work, newer, outside>> /\ Sought # 0 /\ now' = NULL
      /\ sync.step = "row" /\ sync.row <= Len(Rows) /\ Catalogues /\ Progress(sync)
  BY DEF RowMatched, Wellformed, Sought, Busy
<1>2. sync.row \in DOMAIN Rows /\ Linked(Rows, db, work, sync, newer, outside)
  BY <1>1, AtRow
<1>3. PICK t : /\ sync' = Onward(t) /\ Progress(t)
               /\ Has(t, "cells", sync.row, Columns, Sought, sync.seen, sync.pending, sync.held, sync.report)
  BY <1>1, MatchedFields
<1>4. Linked(Rows, db, work, t, newer, outside)
  <2>1. PICK m : m = Match(SubSeq(work.mats, 1, sync.seen), Rows[sync.row].desc) /\ m = Sought
    BY DEF Sought
  <2>2. Has(t, "cells", sync.row, Columns, m, sync.seen, sync.pending, sync.held, sync.report)
    BY <1>3, <2>1
  <2>3. CatTyped(work) /\ CatTyped(db) /\ m # 0
    BY <1>1, <2>1 DEF Catalogues
  <2> QED BY <1>2, <2>1, <2>2, <2>3, LinkedMatched
<1>5. Linked(Rows, db, work, sync', newer, outside) /\ Progress(sync')
  BY <1>3, <1>4, LinkedOnward, OnwardFields
<1>6. sync'.step # "idle"
  BY <1>3, OnwardFields DEF Has
<1>7. Rows' = Rows
  BY <1>1 DEF Rows
<1> QED BY <1>1, <1>5, <1>6, <1>7 DEF Wellformed, Catalogues, Busy

LEMMA RowUnresolvedKeeps == Wellformed /\ RowUnresolved => Wellformed'
<1> SUFFICES ASSUME Wellformed, RowUnresolved PROVE Wellformed'
  OBVIOUS
<1>1. /\ UNCHANGED <<sheet, db, work, newer, outside>> /\ now' = NULL
      /\ sync.step = "row" /\ sync.row <= Len(Rows) /\ Catalogues /\ Progress(sync)
  BY DEF RowUnresolved, Wellformed, Busy
<1>2. Linked(Rows, db, work, sync, newer, outside)
  BY <1>1, AtRow
<1>3. PICK t, r : /\ t = sync' /\ Progress(t)
                  /\ Has(t, "row", sync.row + 1, sync.todo, sync.target, sync.seen, sync.pending, sync.held, r)
  BY <1>1, UnresolvedFields
<1>4. Linked(Rows, db, work, t, newer, outside)
  BY <1>2, <1>3, LinkedUnresolved
<1>5. t.step = "row"
  BY <1>3 DEF Has
<1>6. Rows' = Rows
  BY <1>1 DEF Rows
<1> QED BY <1>1, <1>3, <1>4, <1>5, <1>6 DEF Wellformed, Catalogues, Busy

LEMMA RowCreatesKeeps == Wellformed /\ RowCreates => Wellformed'
<1> SUFFICES ASSUME Wellformed, RowCreates PROVE Wellformed'
  OBVIOUS
<1>1. /\ UNCHANGED <<sheet, db, newer, outside>> /\ now' = NULL
      /\ work' = WithMaterial(Flushed(work, sync.pending), Rows[sync.row].desc)
      /\ sync.step = "row" /\ sync.row <= Len(Rows) /\ Catalogues /\ Progress(sync)
  BY DEF RowCreates, Wellformed, Busy
<1>2. sync.row \in DOMAIN Rows /\ Linked(Rows, db, work, sync, newer, outside)
  BY <1>1, AtRow
<1>3. PICK t, h, r, w : /\ sync' = Onward(t) /\ Progress(t) /\ w = work' /\ CAT \in h
                        /\ Has(t, "cells", sync.row, Columns, Len(w.mats), sync.seen, {}, h, r)
  <2>1. PICK h : h = sync.held \cup {CAT} \cup Locked(work, sync.pending)
    OBVIOUS
  <2>2. CAT \in h
    BY <2>1
  <2> QED BY <1>1, <2>1, <2>2, CreatesFields
<1>4. CatTyped(w) /\ Numbered(w) /\ Linked(Rows, db, w, t, newer, outside)
  <2>1. CatTyped(work) /\ CatTyped(db) /\ Numbered(work) /\ IsFile(Rows)
    BY <1>1, RowsFile DEF Catalogues
  <2>2. w = WithMaterial(Flushed(work, sync.pending), Rows[sync.row].desc)
    BY <1>1, <1>3
  <2> QED BY <1>2, <1>3, <2>1, <2>2, LinkedCreates
<1>5. Linked(Rows, db, w, sync', newer, outside) /\ Progress(sync')
  BY <1>3, <1>4, LinkedOnward, OnwardFields
<1>6. sync'.step # "idle"
  BY <1>3, OnwardFields DEF Has
<1>7. Rows' = Rows
  BY <1>1 DEF Rows
<1> QED BY <1>1, <1>3, <1>4, <1>5, <1>6, <1>7 DEF Wellformed, Catalogues, Busy

LEMMA CellKeeps == \A s \in Columns : Wellformed /\ Cell(s) => Wellformed'
<1> SUFFICES ASSUME Wellformed, NEW s \in Columns, Cell(s) PROVE Wellformed'
  OBVIOUS
<1>1. /\ UNCHANGED <<sheet, db, work, outside>> /\ newer' = newer \ {<<sync.target, s>>}
      /\ sync.step = "cells"
      /\ \/ /\ sync' = Looked(s) /\ now' = [column |-> s, read |-> FALSE]
            /\ Asked(s) \in {"update", "create"}
         \/ sync' = Onward(Looked(s)) /\ now' = NULL
  BY DEF Cell
<1>2. /\ Linked(Rows, db, work, sync, newer, outside)
      /\ CatTyped(work) /\ CatTyped(db) /\ outside \in Nat /\ Progress(sync)
  BY <1>1 DEF Wellformed, Catalogues
<1>3. PICK t : t = Looked(s)
  OBVIOUS
<1>4. PICK p, r : /\ Progress(t)
                  /\ Has(t, "cells", sync.row, sync.todo \ {s}, sync.target, sync.seen, p, sync.held, r)
                  /\ p = IF Asked(s) = "close" THEN Dated(work, sync.pending, sync.target, s) ELSE sync.pending
  BY <1>2, <1>3, CellFields
<1>5. PICK new : new = newer \ {<<sync.target, s>>}
  OBVIOUS
<1>6. Linked(Rows, db, work, t, new, outside)
  <2>1. p = sync.pending \/ p = Dated(work, sync.pending, sync.target, s)
    BY <1>4
  <2> QED BY <1>1, <1>2, <1>4, <1>5, <2>1, LinkedNoted
<1>7. Linked(Rows, db, work, Onward(t), new, outside) /\ Progress(Onward(t)) /\ Onward(t).step # "idle"
  BY <1>4, <1>6, LinkedOnward, OnwardFields DEF Has
<1>8. t.step = "cells"
  BY <1>4 DEF Has
<1>10. Rows' = Rows
  BY <1>1 DEF Rows
<1>9. Busy'
  <2>1. CASE sync' = t /\ now' = [column |-> s, read |-> FALSE] /\ Asked(s) \in {"update", "create"}
    <3>1. NewPrice(s) \in Nat
      <4>1. NewPrice(s) # NULL
        BY <2>1 DEF Asked, Case
      <4> QED BY <4>1, RowsFile, FilePriceType DEF NewPrice
    <3>2. sync'.row = sync.row /\ sync'.step = "cells"
      BY <1>4, <2>1 DEF Has
    <3>3. PICK x : x = [column |-> s, read |-> FALSE]
      OBVIOUS
    <3>4. x \in Write /\ x.column = s
      BY <3>3 DEF Write
    <3>5. now' = x
      BY <2>1, <3>3
    <3> QED BY <1>10, <3>1, <3>2, <3>4, <3>5 DEF Busy, NewPrice
  <2>2. CASE now' = NULL
    BY <2>2 DEF Busy
  <2> QED BY <1>1, <1>3, <2>1, <2>2
<1>11. /\ Linked(Rows, db, work, sync', new, outside) /\ Progress(sync') /\ sync'.step # "idle"
  BY <1>1, <1>3, <1>4, <1>6, <1>7, <1>8
<1> QED BY <1>1, <1>5, <1>9, <1>10, <1>11 DEF Wellformed, Catalogues

LEMMA ReadKeeps == Wellformed /\ ReadActive => Wellformed'
<1> SUFFICES ASSUME Wellformed, ReadActive PROVE Wellformed'
  OBVIOUS
<1>1. PICK s, new : s = now.column /\ new = newer \ {<<sync.target, s>>}
  OBVIOUS
<1>2. /\ UNCHANGED <<sheet, db, work, outside>> /\ newer' = new /\ now # NULL
      /\ now' = [now EXCEPT !.read = TRUE]
  BY <1>1 DEF ReadActive
<1>3. sync.step = "cells" /\ s \in Columns
  BY <1>1, <1>2 DEF Wellformed, Busy
<1>4. /\ Linked(Rows, db, work, sync, newer, outside)
      /\ CatTyped(work) /\ CatTyped(db) /\ outside \in Nat /\ Progress(sync)
  BY <1>3 DEF Wellformed, Catalogues
<1>5. PICK t, p : /\ t = sync' /\ Progress(t) /\ p = Dated(work, sync.pending, sync.target, s)
                  /\ Has(t, "cells", sync.row, sync.todo, sync.target, sync.seen, p, sync.held, sync.report)
  BY <1>1, <1>3, <1>4, ReadFields
<1>6. Linked(Rows, db, work, t, new, outside)
  BY <1>1, <1>3, <1>4, <1>5, LinkedNoted
<1>7. t.step = "cells"
  BY <1>5 DEF Has
<1>8. Rows' = Rows
  BY <1>2 DEF Rows
<1>9. Busy'
  <2>1. now' \in Write /\ now'.column = now.column
    BY <1>2 DEF Wellformed, Busy, Write
  <2>2. NewPrice(now.column) \in Nat /\ t.row = sync.row
    BY <1>2, <1>5 DEF Wellformed, Busy, Has
  <2> QED BY <1>1, <1>3, <1>5, <1>7, <1>8, <2>1, <2>2 DEF Busy, NewPrice
<1> QED BY <1>1, <1>2, <1>3, <1>5, <1>6, <1>7, <1>8, <1>9 DEF Wellformed, Catalogues

LEMMA WriteKeeps == Wellformed /\ WritePrice => Wellformed'
<1> SUFFICES ASSUME Wellformed, WritePrice PROVE Wellformed'
  OBVIOUS
<1>1. PICK s, w, new, q : /\ s = now.column /\ w = work' /\ new = newer \ {<<sync.target, s>>} /\ q = NewPrice(s)
  OBVIOUS
<1>2. /\ UNCHANGED <<sheet, db, outside>> /\ newer' = new /\ now # NULL /\ now' = NULL
      /\ w = Priced(Flushed(work, sync.pending), sync.target, s, [price |-> q, by |-> 0])
  BY <1>1 DEF WritePrice, Priced
<1>3. sync.step = "cells" /\ s \in Columns
  BY <1>1, <1>2 DEF Wellformed, Busy
<1>4. /\ Linked(Rows, db, work, sync, newer, outside)
      /\ CatTyped(work) /\ CatTyped(db) /\ Numbered(work) /\ outside \in Nat /\ Progress(sync)
  BY <1>3 DEF Wellformed, Catalogues
<1>5. PICK h, r, t :
        /\ sync' = Onward(t) /\ Progress(t) /\ sync.held \subseteq h
        /\ Has(t, "cells", sync.row, sync.todo, sync.target, sync.seen, {}, h, r)
  <2>1. PICK h : h = sync.held \cup {<<sync.target, s>>} \cup Locked(work, sync.pending)
    OBVIOUS
  <2>2. sync.held \subseteq h
    BY <2>1
  <2> QED BY <1>1, <1>3, <1>4, <2>1, <2>2, WriteFields
<1>6. q \in Nat
  BY <1>1, <1>2 DEF Wellformed, Busy
<1>7. Wrote(work, sync, newer, w, t, new)
  BY <1>1, <1>2, <1>3, <1>5, <1>6 DEF Wrote
<1>8. /\ CatTyped(w) /\ w.mats = work.mats /\ w.next = work.next
      /\ Linked(Rows, db, w, t, new, outside)
  BY <1>3, <1>4, <1>7, LinkedWritten
<1>9. Numbered(w)
  BY <1>4, <1>8 DEF Numbered
<1>10. /\ Linked(Rows, db, w, sync', new, outside) /\ Progress(sync')
  BY <1>5, <1>8, LinkedOnward, OnwardFields
<1>11. sync'.step # "idle"
  BY <1>5, OnwardFields DEF Has
<1>12. Rows' = Rows
  BY <1>2 DEF Rows
<1> QED BY <1>1, <1>2, <1>8, <1>9, <1>10, <1>11, <1>12 DEF Wellformed, Catalogues, Busy

LEMMA EndKeeps == Wellformed /\ (Commit \/ Abort) => Wellformed'
<1> SUFFICES ASSUME Wellformed, Commit \/ Abort PROVE Wellformed'
  OBVIOUS
<1>1. CASE Commit
  <2>1. PICK f, t : f = work' /\ t = sync'
    OBVIOUS
  <2>2. f = Flushed(work, sync.pending) /\ db' = f /\ UNCHANGED <<sheet, newer, outside>>
    BY <1>1, <2>1 DEF Commit
  <2>3. CatTyped(f) /\ f.mats = work.mats /\ f.next = work.next
    BY <2>2, FlushedCat DEF Wellformed, Catalogues
  <2>4. Numbered(f)
    BY <2>3 DEF Numbered, Wellformed, Catalogues
  <2>5. /\ t = [sync EXCEPT !.step = "done", !.pending = {}, !.held = {}] /\ sync.step = "row"
        /\ now' = NULL
    BY <1>1, <2>1 DEF Commit, Wellformed, Busy
  <2>6. Progress(t) /\ t.step = "done"
    BY <2>5 DEF Wellformed, Progress
  <2>7. newer \subseteq (1 .. Len(f.mats)) \X Columns
    <3>1. Len(db.mats) \in Nat /\ Len(work.mats) \in Nat /\ Len(db.mats) <= Len(work.mats)
      BY <2>5, CatParts DEF Wellformed, Catalogues, Linked, Grows
    <3> QED BY <2>3, <3>1 DEF Wellformed, Catalogues
  <2> QED BY <2>1, <2>2, <2>3, <2>4, <2>5, <2>6, <2>7 DEF Wellformed, Catalogues, Busy
<1>2. CASE Abort
  <2>1. PICK t : t = sync'
    OBVIOUS
  <2>2. work' = db /\ UNCHANGED <<sheet, db, newer, outside>> /\ t = [Idle EXCEPT !.step = "failed"] /\ now' = NULL
    BY <1>2, <2>1 DEF Abort
  <2>3. Progress(t) /\ t.step = "failed"
    BY <2>2, IdleIsProgress DEF Progress, Idle
  <2> QED BY <2>1, <2>2, <2>3 DEF Wellformed, Catalogues, Busy
<1> QED BY <1>1, <1>2

LEMMA OutsidePriceKeeps == Wellformed /\ OutsidePrice => Wellformed'
<1> SUFFICES ASSUME Wellformed, OutsidePrice PROVE Wellformed'
  OBVIOUS
<1>1. /\ sync.step \in {"row", "cells"} /\ UNCHANGED <<sheet, sync, now>> /\ outside' = outside + 1 /\ Busy
      /\ Linked(Rows, db, work, sync, newer, outside) /\ Rows' = Rows
      /\ CatTyped(work) /\ CatTyped(db) /\ Numbered(work) /\ Numbered(db) /\ outside \in Nat
  BY DEF Wellformed, Catalogues, OutsidePrice, Rows
<1>2. PICK m \in DOMAIN db.mats, s \in db.known : \E q \in Quotes \cup {NULL} :
        LET row == IF q = NULL THEN NULL ELSE [price |-> q, by |-> outside + 1]
        IN /\ <<m, s>> \notin sync.held
           /\ db' = [db EXCEPT !.active[m][s] = row]
           /\ work' = [work EXCEPT !.active[m][s] = row]
           /\ newer' = newer \cup {<<m, s>>}
  BY DEF OutsidePrice
<1>3. PICK q, row :
        /\ q \in Quotes \cup {NULL}
        /\ row = IF q = NULL THEN NULL ELSE [price |-> q, by |-> outside + 1]
        /\ db' = [db EXCEPT !.active[m][s] = row]
        /\ work' = [work EXCEPT !.active[m][s] = row]
        /\ newer' = newer \cup {<<m, s>>}
  BY <1>2
<1>4. m \in 1 .. Len(db.mats) /\ s \in Columns
  BY <1>1, CatParts
<1>5. row \in PriceRow \cup {NULL} /\ (row # NULL => row.by = outside + 1)
  BY <1>1, <1>3, SyncAssumption DEF PriceRow
<1>6. PICK d, w, new, n : d = db' /\ w = work' /\ new = newer \cup {<<m, s>>} /\ n = outside + 1
  OBVIOUS
<1>7. PriceSet(db, work, newer, outside, d, w, new, n)
  BY <1>3, <1>4, <1>5, <1>6 DEF Priced, PriceSet
<1>8. /\ CatTyped(d) /\ d.mats = db.mats /\ d.next = db.next
      /\ CatTyped(w) /\ w.mats = work.mats /\ w.next = work.next
      /\ Linked(Rows, d, w, sync, new, n)
  BY <1>1, <1>7, LinkedPrice
<1>9. Numbered(d) /\ Numbered(w)
  BY <1>1, <1>8 DEF Numbered
<1>10. Busy'
  BY <1>1 DEF Busy, NewPrice
<1> QED BY <1>1, <1>3, <1>4, <1>6, <1>8, <1>9, <1>10 DEF Wellformed, Catalogues

LEMMA OutsideMaterialKeeps == Wellformed /\ OutsideMaterial => Wellformed'
<1> SUFFICES ASSUME Wellformed, OutsideMaterial PROVE Wellformed'
  OBVIOUS
<1>1. /\ sync.step \in {"row", "cells"} /\ UNCHANGED <<sheet, sync, now, newer>> /\ outside' = outside + 1 /\ Busy
      /\ Linked(Rows, db, work, sync, newer, outside) /\ Rows' = Rows /\ CAT \notin sync.held
      /\ CatTyped(work) /\ CatTyped(db) /\ Numbered(work) /\ Numbered(db) /\ outside \in Nat
      /\ newer \subseteq (1 .. Len(db.mats)) \X Columns
  BY DEF Wellformed, Catalogues, OutsideMaterial, Rows
<1>2. PICK d, w, name : d = db' /\ w = work' /\ name = "handmade"
  OBVIOUS
<1>3. d = WithMaterial(db, name) /\ w = WithMaterial(work, name) /\ name \in Texts
  BY <1>2, SyncAssumption DEF OutsideMaterial
<1>4. Linked(Rows, d, w, sync, newer, outside + 1)
  BY <1>1, <1>3, LinkedMaterial
<1>5. CatTyped(d) /\ Numbered(d) /\ CatTyped(w) /\ Numbered(w) /\ Len(d.mats) = Len(db.mats) + 1
  BY <1>1, <1>3, GrownCat
<1>6. newer \subseteq (1 .. Len(d.mats)) \X Columns
  <2>1. Len(db.mats) \in Nat
    BY <1>1, CatParts
  <2> QED BY <1>1, <1>5, <2>1
<1>7. Busy'
  BY <1>1 DEF Busy, NewPrice
<1> QED BY <1>1, <1>2, <1>4, <1>5, <1>6, <1>7 DEF Wellformed, Catalogues

LEMMA StutterKeeps == Wellformed /\ UNCHANGED vars => Wellformed'
BY DEF vars, Wellformed, Catalogues, Rows, Busy, NewPrice

(* Wellformed holds in every state, whatever the sheet, the catalogue and  *)
(* the commits of others.                                                  *)
THEOREM StaysWellformed == Spec => []Wellformed
<1>1. Wellformed /\ [Next]_vars => Wellformed'
  BY StartKeeps, RowMatchedKeeps, RowUnresolvedKeeps, RowCreatesKeeps, CellKeeps, ReadKeeps, WriteKeeps, EndKeeps,
     OutsidePriceKeeps, OutsideMaterialKeeps, StutterKeeps DEF Next
<1> QED BY InitWellformed, <1>1, PTL DEF Spec

(* Whatever is created meanwhile, no two materials share a number, in the  *)
(* committed catalogue or in the transaction's.                            *)
THEOREM NumbersStayUnique == Spec => []NumbersUnique
<1>1. Wellformed => NumbersUnique
  <2>1. ASSUME NEW c, CatTyped(c), Numbered(c)
        PROVE  \A i, j \in DOMAIN c.mats : c.mats[i].number = c.mats[j].number => i = j
    BY <2>1, CatParts DEF Numbered
  <2> QED BY <2>1 DEF Wellformed, Catalogues, NumbersUnique
<1> QED BY StaysWellformed, <1>1, PTL

(* A pair changed by others since, or of a material the file does not name,*)
(* is for the script as committed, before a flush and after it.            *)
LEMMA FlushKeeps ==
  ASSUME Wellformed, sync.step \in {"row", "cells"}, NEW m \in DOMAIN db.mats, NEW s \in Columns,
         <<m, s>> \in newer \/ ~Named(Rows, db.mats[m].name)
  PROVE  /\ m \in 1 .. Len(db.mats) /\ m \in 1 .. Len(work.mats) /\ db.mats[m] = work.mats[m]
         /\ work.active[m][s] = db.active[m][s]
         /\ Flushed(work, sync.pending).active[m][s] = db.active[m][s]
<1>1. Linked(Rows, db, work, sync, newer, outside) /\ CatTyped(work) /\ CatTyped(db)
  BY DEF Wellformed, Catalogues
<1>2. m \in 1 .. Len(db.mats) /\ m \in 1 .. Len(work.mats)
  <2>1. Len(db.mats) \in Nat /\ Len(work.mats) \in Nat /\ DOMAIN db.mats = 1 .. Len(db.mats)
    BY <1>1, CatParts
  <2> QED BY <1>1, <2>1 DEF Linked, Grows
<1>3. work.active[m][s] = db.active[m][s] /\ ~Closing(work, sync.pending, m, s) /\ db.mats[m] = work.mats[m]
  BY <1>1, <1>2 DEF Linked, LeftAlone, Grows
<1> QED BY <1>1, <1>2, <1>3, FlushedCat

(* No step of the script closes a price committed by others after the      *)
(* script last read the pair, be it at the look or in version_price, nor   *)
(* any price of a material not in the file.                                *)
THEOREM NewerCorrect == Spec => NewerPriceSurvives
<1> DEFINE Kept == outside' = outside => \A m \in DOMAIN db.mats, s \in Columns :
                     \/ <<m, s>> \in newer /\ db.active[m][s] # NULL
                     \/ \A k \in DOMAIN Rows : NameOf(Rows[k].desc) # NameOf(db.mats[m].name)
                     => /\ work'.active[m][s] = db.active[m][s]
                        /\ db'.active[m][s] = db.active[m][s]
<1>1. Wellformed /\ [Next]_vars => [Kept]_vars
  <2> SUFFICES ASSUME Wellformed, Next, outside' = outside, NEW m \in DOMAIN db.mats, NEW s \in Columns,
                      \/ <<m, s>> \in newer /\ db.active[m][s] # NULL
                      \/ ~Named(Rows, db.mats[m].name)
               PROVE  work'.active[m][s] = db.active[m][s] /\ db'.active[m][s] = db.active[m][s]
    BY DEF Named
  <2>1. CASE Start
    <3>1. work = db /\ work' = Resolved(db) /\ db' = db
      BY <2>1, IdleIsProgress DEF Start, Resolved, Wellformed
    <3>2. CatTyped(db)
      BY DEF Wellformed, Catalogues
    <3>3. db = [mats |-> db.mats, active |-> db.active, next |-> db.next, known |-> db.known]
      BY <3>2, CatParts
    <3>4. Resolved(db).active = db.active
      BY <3>3 DEF Resolved
    <3> QED BY <3>1, <3>4
  <2>2. CASE sync.step \in {"row", "cells"} /\ work' = work /\ db' = db
    BY <2>2, FlushKeeps
  <2>3. CASE RowCreates
    <3>1. /\ db' = db /\ work' = WithMaterial(Flushed(work, sync.pending), Rows[sync.row].desc)
          /\ sync.step = "row" /\ sync.row <= Len(Rows)
      BY <2>3 DEF RowCreates
    <3>2. Rows[sync.row].desc \in Texts
      BY <3>1, AtRow, RowsFile DEF IsFile
    <3>3. CatTyped(work)
      BY DEF Wellformed, Catalogues
    <3>4. PICK f : f = Flushed(work, sync.pending)
      OBVIOUS
    <3>5. CatTyped(f) /\ f.mats = work.mats
      BY <3>3, <3>4, FlushedCat
    <3>6. m \in 1 .. Len(f.mats) /\ f.active[m][s] = db.active[m][s]
      BY <3>1, <3>4, <3>5, FlushKeeps
    <3>7. WithMaterial(f, Rows[sync.row].desc).active[m] = f.active[m]
      BY <3>2, <3>5, <3>6, GrownCat
    <3> QED BY <3>1, <3>4, <3>6, <3>7
  <2>4. CASE WritePrice
    <3>1. PICK u, f, row : /\ u = now.column /\ f = Flushed(work, sync.pending)
                           /\ row = [price |-> NewPrice(u), by |-> 0]
      OBVIOUS
    <3>2. /\ db' = db /\ now # NULL /\ f.active[sync.target][u] = NULL
          /\ work' = Priced(f, sync.target, u, row)
      BY <2>4, <3>1 DEF WritePrice, Priced
    <3>3. sync.step = "cells" /\ u \in Columns /\ NewPrice(u) \in Nat
      BY <3>1, <3>2 DEF Wellformed, Busy
    <3>4. Linked(Rows, db, work, sync, newer, outside) /\ CatTyped(work)
      BY <3>3 DEF Wellformed, Catalogues
    <3>5. sync.target \in 1 .. Len(work.mats) /\ Named(Rows, work.mats[sync.target].name)
      BY <3>3, <3>4 DEF Linked, AtTarget, Named
    <3>6. CatTyped(f) /\ f.mats = work.mats
      BY <3>1, <3>4, FlushedCat
    <3>7. /\ m \in 1 .. Len(work.mats) /\ db.mats[m] = work.mats[m]
          /\ f.active[m][s] = db.active[m][s]
      BY <3>1, <3>3, FlushKeeps
    <3>8. m # sync.target \/ s # u
      BY <3>2, <3>5, <3>7
    <3>9. row \in PriceRow \cup {NULL}
      BY <3>1, <3>3 DEF PriceRow
    <3>10. PICK w : w = Priced(f, sync.target, u, row)
      OBVIOUS
    <3>11. w.active[m][s] = f.active[m][s]
      BY <3>3, <3>5, <3>6, <3>7, <3>8, <3>9, <3>10, PricedCat
    <3> QED BY <3>2, <3>7, <3>10, <3>11
  <2>5. CASE Commit
    BY <2>5, FlushKeeps DEF Commit
  <2>6. CASE Abort
    BY <2>6 DEF Abort
  <2>7. ~OutsidePrice /\ ~OutsideMaterial
    BY DEF OutsidePrice, OutsideMaterial, Wellformed
  <2>8. \A c \in Columns : Cell(c) => sync.step \in {"row", "cells"} /\ work' = work /\ db' = db
    BY DEF Cell
  <2>9. RowMatched \/ RowUnresolved \/ ReadActive => sync.step \in {"row", "cells"} /\ work' = work /\ db' = db
    BY DEF RowMatched, RowUnresolved, ReadActive, Wellformed, Busy
  <2> QED BY <2>1, <2>2, <2>3, <2>4, <2>5, <2>6, <2>7, <2>8, <2>9 DEF Next
<1>2. NewerPriceSurvives <=> [][Kept]_vars
  BY DEF NewerPriceSurvives
<1> QED BY StaysWellformed, <1>1, <1>2, PTL DEF Spec

-----------------------------------------------------------------------------
(* The undisturbed synchronisation of a file whose descriptions differ by  *)
(* more than white space: where each row's material is and what has become *)
(* of it, told from the file and the catalogue d of the beginning.         *)
Differ(rows) == \A j, k \in DOMAIN rows : NameOf(rows[j].desc) = NameOf(rows[k].desc) => j = k

Base(rows, d, k)   == Match(d.mats, rows[k].desc)
Served(rows, d)    == {k \in DOMAIN rows : Base(rows, d, k) # 0} \cup NewRows(rows, d.mats)
Before(rows, d, k) == Cardinality({j \in NewRows(rows, d.mats) : j < k})
Place(rows, d, k)  == IF Base(rows, d, k) # 0 THEN Base(rows, d, k) ELSE Len(d.mats) + 1 + Before(rows, d, k)
Number(rows, d, k) == IF Base(rows, d, k) # 0 THEN d.mats[Base(rows, d, k)].number ELSE d.next + Before(rows, d, k)
Was(rows, d, k, s) == IF Base(rows, d, k) # 0 THEN PriceAt(d, Base(rows, d, k), s) ELSE NULL
File(rows, k, s)   == FilePrice(rows, rows[k].desc, s)

LEMMA Counting ==
  ASSUME NEW rows, NEW d, IsFile(rows)
  PROVE  /\ \A k \in Nat : Before(rows, d, k) \in Nat
         /\ \A k \in Nat : k \notin NewRows(rows, d.mats) => Before(rows, d, k + 1) = Before(rows, d, k)
         /\ \A k \in NewRows(rows, d.mats) : Before(rows, d, k + 1) = Before(rows, d, k) + 1
         /\ \A k \in NewRows(rows, d.mats), j \in Nat : k < j => Before(rows, d, k) < Before(rows, d, j)
         /\ NewRows(rows, d.mats) \subseteq 1 .. Len(rows)
         /\ Before(rows, d, 1) = 0
<1> DEFINE N == NewRows(rows, d.mats)
           To(k) == {j \in N : j < k}
<1>1. N \subseteq 1 .. Len(rows) /\ Len(rows) \in Nat
  BY DEF NewRows, IsFile
<1>2. \A k \in Nat : IsFiniteSet(To(k)) /\ Cardinality(To(k)) \in Nat
  <2> TAKE k \in Nat
  <2>1. IsFiniteSet(1 .. Len(rows))
    BY <1>1, FS_Interval
  <2>2. To(k) \subseteq 1 .. Len(rows)
    BY <1>1
  <2> QED BY <2>1, <2>2, FS_Subset, FS_CardinalityType
<1>3. \A k \in Nat : k \notin N => To(k + 1) = To(k)
  BY <1>1
<1>4. \A k \in N : Cardinality(To(k + 1)) = Cardinality(To(k)) + 1
  <2> TAKE k \in N
  <2>1. k \in Nat /\ k \notin To(k) /\ To(k + 1) = To(k) \cup {k}
    BY <1>1
  <2> HIDE DEF To
  <2> QED BY <1>2, <2>1, FS_AddElement
<1>5. ASSUME NEW k \in N, NEW j \in Nat, k < j PROVE Cardinality(To(k)) < Cardinality(To(j))
  <2>1. k \in Nat /\ k + 1 \in Nat /\ To(k + 1) \subseteq To(j)
    BY <1>1, <1>5
  <2>2. Cardinality(To(k + 1)) <= Cardinality(To(j))
    <3> HIDE DEF To
    <3> QED BY <1>2, <2>1, FS_Subset
  <2>3. Cardinality(To(k)) \in Nat /\ Cardinality(To(k + 1)) \in Nat /\ Cardinality(To(j)) \in Nat
    BY <1>2, <2>1
  <2> QED BY <1>4, <2>2, <2>3
<1>6. Cardinality(To(1)) = 0
  <2>1. To(1) = {}
    BY <1>1
  <2> QED BY <2>1, FS_EmptySet
<1> QED BY <1>1, <1>2, <1>3, <1>4, <1>5, <1>6 DEF Before

LEMMA Placing ==
  ASSUME NEW rows, NEW d, IsFile(rows), Differ(rows), CatTyped(d)
  PROVE  /\ \A k \in Served(rows, d) : k \in DOMAIN rows /\ k \in Nat
         /\ \A k \in DOMAIN rows : Base(rows, d, k) \in 0 .. Len(d.mats)
         /\ \A k \in DOMAIN rows : Base(rows, d, k) # 0 =>
              k \in Served(rows, d) /\ NameOf(d.mats[Base(rows, d, k)].name) = NameOf(rows[k].desc)
         /\ \A k \in DOMAIN rows, i \in 1 .. Len(d.mats) : NameOf(d.mats[i].name) = NameOf(rows[k].desc) =>
              Base(rows, d, k) # 0 /\ i <= Base(rows, d, k)
         /\ \A k \in Served(rows, d) : k \in NewRows(rows, d.mats) <=> Base(rows, d, k) = 0
         /\ \A k \in Served(rows, d) : Place(rows, d, k) \in Nat \ {0}
         /\ \A k \in Served(rows, d) : Place(rows, d, k) \in 1 .. Len(d.mats) <=> Base(rows, d, k) # 0
         /\ \A k \in Served(rows, d) : Base(rows, d, k) # 0 => Place(rows, d, k) = Base(rows, d, k)
         /\ \A k \in Served(rows, d) :
              Base(rows, d, k) = 0 => Place(rows, d, k) = Len(d.mats) + 1 + Before(rows, d, k)
         /\ \A j, k \in Served(rows, d) : Place(rows, d, j) = Place(rows, d, k) => j = k
<1> DEFINE B(k) == Base(rows, d, k)
           P(k) == Place(rows, d, k)
<1>1. d.mats \in Seq(Material) /\ Len(d.mats) \in Nat
  BY CatParts
<1>2. DOMAIN rows = 1 .. Len(rows) /\ Len(rows) \in Nat
  BY DEF IsFile
<1>3. \A k \in DOMAIN rows : B(k) \in 0 .. Len(d.mats)
  BY <1>1, MatchFound DEF Base
<1>4. \A k \in DOMAIN rows : B(k) # 0 => NameOf(d.mats[B(k)].name) = NameOf(rows[k].desc)
  BY <1>1, MatchFound DEF Base
<1>5. \A k \in DOMAIN rows, i \in 1 .. Len(d.mats) : NameOf(d.mats[i].name) = NameOf(rows[k].desc) =>
        B(k) # 0 /\ i <= B(k)
  BY <1>1, MatchFound DEF Base
<1>6. \A k \in Served(rows, d) : k \in DOMAIN rows /\ k \in Nat
  BY <1>2 DEF Served, NewRows
<1>7. \A k \in Served(rows, d) : k \in NewRows(rows, d.mats) <=> B(k) = 0
  BY DEF Served, NewRows, Base
<1>8. \A k \in Served(rows, d) : P(k) = IF B(k) # 0 THEN B(k) ELSE Len(d.mats) + 1 + Before(rows, d, k)
  BY DEF Place
<1>9. \A k \in Nat : Before(rows, d, k) \in Nat
  BY Counting
<1> HIDE DEF B, P
<1>10. ASSUME NEW k \in Served(rows, d)
       PROVE  /\ P(k) \in Nat \ {0}
              /\ P(k) \in 1 .. Len(d.mats) <=> B(k) # 0
              /\ B(k) = 0 => P(k) = Len(d.mats) + 1 + Before(rows, d, k)
  <2>1. k \in Nat /\ B(k) \in 0 .. Len(d.mats) /\ Before(rows, d, k) \in Nat
    BY <1>3, <1>6, <1>9
  <2>2. P(k) = IF B(k) # 0 THEN B(k) ELSE Len(d.mats) + 1 + Before(rows, d, k)
    BY <1>8
  <2> QED BY <1>1, <2>1, <2>2
<1>12. \A k \in Served(rows, d) : B(k) # 0 => P(k) = B(k)
  BY <1>8
<1>11. ASSUME NEW j \in Served(rows, d), NEW k \in Served(rows, d), P(j) = P(k) PROVE j = k
  <2>1. CASE B(j) # 0 /\ B(k) # 0
    <3>1. B(j) = B(k)
      BY <1>8, <1>11, <2>1
    <3>2. NameOf(rows[j].desc) = NameOf(rows[k].desc)
      BY <1>4, <1>6, <2>1, <3>1
    <3> QED BY <1>6, <3>2 DEF Differ
  <2>2. CASE B(j) = 0 /\ B(k) = 0
    <3>1. j \in NewRows(rows, d.mats) /\ k \in NewRows(rows, d.mats) /\ j \in Nat /\ k \in Nat
      BY <1>6, <1>7, <2>2
    <3>2. Before(rows, d, j) = Before(rows, d, k)
      <4>1. Before(rows, d, j) \in Nat /\ Before(rows, d, k) \in Nat
        BY <1>9, <3>1
      <4>2. Len(d.mats) + 1 + Before(rows, d, j) = Len(d.mats) + 1 + Before(rows, d, k)
        BY <1>10, <1>11, <2>2
      <4> QED BY <1>1, <4>1, <4>2
    <3>3. ~(j < k) /\ ~(k < j)
      BY <1>9, <3>1, <3>2, Counting
    <3> QED BY <3>1, <3>3
  <2>3. CASE (B(j) = 0) # (B(k) = 0)
    BY <1>10, <1>11, <2>3
  <2> QED BY <2>1, <2>2, <2>3
<1> QED BY <1>3, <1>4, <1>5, <1>6, <1>7, <1>10, <1>11, <1>12 DEF B, P, Served

-----------------------------------------------------------------------------
(* How far the script is: rows below Bound have their materials, and the   *)
(* pairs that are Done their prices, once what is pending is flushed.      *)
Bound(t)      == IF t.step = "cells" THEN t.row + 1 ELSE t.row
Done(t, k, s) == k < t.row \/ (t.step = "cells" /\ k = t.row /\ s \notin t.todo)

ExactMats(rows, d, w, b) ==
  /\ Len(w.mats) = Len(d.mats) + Before(rows, d, b) /\ w.next = d.next + Before(rows, d, b)
  /\ \A i \in 1 .. Len(d.mats) : w.mats[i] = d.mats[i]
  /\ \A k \in NewRows(rows, d.mats) : k < b =>
       w.mats[Place(rows, d, k)] = [name |-> rows[k].desc, number |-> Number(rows, d, k)]
  /\ \A i \in 1 .. Len(w.mats) : \/ i \in 1 .. Len(d.mats)
                                 \/ \E k \in NewRows(rows, d.mats) : k < b /\ i = Place(rows, d, k)

Told(rows, d, t) ==
  {c \in Served(rows, d) \X Columns :
     Done(t, c[1], c[2]) /\ Case(Was(rows, d, c[1], c[2]), File(rows, c[1], c[2])) # "none"}
Note(rows, d, c) == Change(Number(rows, d, c[1]), c[2], Was(rows, d, c[1], c[2]), File(rows, c[1], c[2]))

ExactReport(rows, d, r, t) ==
  /\ r.changes = {Note(rows, d, c) : c \in Told(rows, d, t)}
  /\ r.materials = {Number(rows, d, k) : k \in {j \in NewRows(rows, d.mats) : j < Bound(t)}}
  /\ r.unresolved = {k \in DOMAIN rows \ Served(rows, d) : k < Bound(t)}
  /\ r.suppliers = Columns \ d.known

After(w, p, m, s) == IF Closing(w, p, m, s) THEN NULL ELSE PriceAt(w, m, s)

ExactPrice(rows, d, w, t, k, s) ==
  IF Done(t, k, s) THEN After(w, t.pending, Place(rows, d, k), s) = File(rows, k, s)
  ELSE /\ PriceAt(w, Place(rows, d, k), s) = Was(rows, d, k, s)
       /\ ~Closing(w, t.pending, Place(rows, d, k), s)
ExactPrices(rows, d, w, t) ==
  \A k \in Served(rows, d), s \in Columns :
    Base(rows, d, k) # 0 \/ k < Bound(t) => ExactPrice(rows, d, w, t, k, s)

ExactTarget(rows, d, t) ==
  /\ t.seen = Len(d.mats) /\ t.row \in Nat \ {0}
  /\ t.step = "cells" => t.row \in Served(rows, d) /\ t.target = Place(rows, d, t.row)

Exact(rows, d, w, t) ==
  ExactTarget(rows, d, t) /\ ExactMats(rows, d, w, Bound(t)) /\ ExactReport(rows, d, t.report, t)
    /\ ExactPrices(rows, d, w, t)

(* The same up to here.                                                    *)
LEMMA ExactAlike ==
  ASSUME NEW rows, NEW d, NEW w, NEW t, NEW u, IsFile(rows), Differ(rows), CatTyped(d),
         Exact(rows, d, w, t), ExactTarget(rows, d, u),
         u.report.changes = t.report.changes, u.report.materials = t.report.materials,
         u.report.suppliers = t.report.suppliers, u.pending = t.pending,
         \A k \in Nat \ {0}, s \in Columns : k \in Served(rows, d) => (Done(u, k, s) <=> Done(t, k, s)),
         Bound(t) \in Nat,
         \/ /\ Bound(u) = Bound(t) /\ u.report.unresolved = t.report.unresolved
         \/ /\ Bound(u) = Bound(t) + 1 /\ Bound(t) \notin NewRows(rows, d.mats)
            /\ u.report.unresolved = t.report.unresolved \cup ({Bound(t)} \cap (DOMAIN rows \ Served(rows, d)))
  PROVE  Exact(rows, d, w, u)
<1> DEFINE N == NewRows(rows, d.mats)
           S == Served(rows, d)
           b == Bound(t)
<1>1. DOMAIN rows \subseteq Nat \ {0} /\ S \subseteq DOMAIN rows /\ N \subseteq Nat \ {0}
  <2>1. DOMAIN rows \subseteq Nat \ {0} /\ DOMAIN rows = 1 .. Len(rows)
    BY DEF IsFile
  <2>2. S \subseteq DOMAIN rows
    BY Placing
  <2>3. N \subseteq DOMAIN rows
    BY DEF NewRows
  <2> QED BY <2>1, <2>2, <2>3
<1>2. \A k \in N : k < Bound(u) <=> k < b
  BY <1>1
<1>3. Before(rows, d, Bound(u)) = Before(rows, d, b)
  <2>1. CASE Bound(u) = b
    BY <2>1
  <2>2. CASE Bound(u) = b + 1 /\ b \notin N
    <3>0. \A k \in Nat : k \notin N => Before(rows, d, k + 1) = Before(rows, d, k)
      BY Counting, Zenon
    <3>1. Before(rows, d, b + 1) = Before(rows, d, b)
      BY <2>2, <3>0
    <3> QED BY <2>2, <3>1
  <2> QED BY <2>1, <2>2
<1>4. ExactMats(rows, d, w, Bound(u))
  BY <1>2, <1>3 DEF Exact, ExactMats
<1>5. ExactPrices(rows, d, w, u)
  <2> SUFFICES ASSUME NEW k \in S, NEW s \in Columns, Base(rows, d, k) # 0 \/ k < Bound(u)
               PROVE  ExactPrice(rows, d, w, u, k, s)
    BY DEF ExactPrices
  <2>1. Base(rows, d, k) # 0 \/ k < b
    <3>1. Base(rows, d, k) = 0 => k \in N
      BY Placing
    <3> QED BY <1>2, <3>1
  <2>2. ExactPrice(rows, d, w, t, k, s)
    BY <2>1 DEF Exact, ExactPrices
  <2>3. Done(u, k, s) <=> Done(t, k, s)
    BY <1>1
  <2> QED BY <2>2, <2>3 DEF ExactPrice
<1>6. Told(rows, d, u) = Told(rows, d, t)
  <2>1. \A c \in S \X Columns : Done(u, c[1], c[2]) <=> Done(t, c[1], c[2])
    BY <1>1
  <2> QED BY <2>1 DEF Told
<1>7. {j \in N : j < Bound(u)} = {j \in N : j < b}
  BY <1>2
<1>8. u.report.unresolved = {k \in DOMAIN rows \ S : k < Bound(u)}
  <2>1. t.report.unresolved = {k \in DOMAIN rows \ S : k < b}
    BY DEF Exact, ExactReport
  <2>2. CASE Bound(u) = b /\ u.report.unresolved = t.report.unresolved
    BY <2>1, <2>2
  <2>3. CASE /\ Bound(u) = b + 1
             /\ u.report.unresolved = t.report.unresolved \cup ({b} \cap (DOMAIN rows \ S))
    <3>1. \A k \in DOMAIN rows \ S : k < b + 1 <=> k < b \/ k = b
      BY <1>1
    <3> HIDE DEF b, S
    <3> QED BY <2>1, <2>3, <3>1
  <2> QED BY <2>2, <2>3
<1>9. ExactReport(rows, d, u.report, u)
  BY <1>6, <1>7, <1>8 DEF Exact, ExactReport
<1> QED BY <1>4, <1>5, <1>9 DEF Exact

LEMMA ExactOnward ==
  ASSUME NEW rows, NEW d, NEW w, NEW t, IsFile(rows), Differ(rows), CatTyped(d), Progress(t),
         t.step = "cells", Exact(rows, d, w, t)
  PROVE  Exact(rows, d, w, Onward(t))
<1>1. CASE t.todo # {}
  BY <1>1, OnwardFields
<1>2. CASE t.todo = {}
  <2>1. PICK u : u = Onward(t)
    OBVIOUS
  <2>2. Has(u, "row", t.row + 1, t.todo, t.target, t.seen, t.pending, t.held, t.report)
    BY <1>2, <2>1, OnwardFields
  <2>3. t.row \in Nat \ {0} /\ t.seen = Len(d.mats)
    BY DEF Exact, ExactTarget
  <2>4. ExactTarget(rows, d, u)
    BY <2>2, <2>3 DEF Has, ExactTarget
  <2>5. Bound(u) = Bound(t) /\ Bound(t) \in Nat
    BY <2>2, <2>3 DEF Has, Bound
  <2>6. \A k \in Nat \ {0}, s \in Columns : Done(u, k, s) <=> Done(t, k, s)
    BY <1>2, <2>2, <2>3 DEF Has, Done
  <2>7. u.report = t.report /\ u.pending = t.pending
    BY <2>2 DEF Has
  <2>8. Exact(rows, d, w, u)
    BY <2>4, <2>5, <2>6, <2>7, ExactAlike
  <2> QED BY <2>1, <2>8
<1> QED BY <1>1, <1>2

LEMMA ExactStart ==
  ASSUME NEW rows, NEW d, NEW w, NEW t, IsFile(rows), Differ(rows), CatTyped(d),
         w.mats = d.mats, w.next = d.next, w.active = d.active,
         Has(t, "row", 1, {}, 0, Len(d.mats), {}, {}, Report({}, {}, {}, Columns \ d.known))
  PROVE  Exact(rows, d, w, t)
<1>1. \A k \in DOMAIN rows : k \in Nat /\ ~(k < 1)
  BY DEF IsFile
<1>2. Served(rows, d) \subseteq DOMAIN rows /\ NewRows(rows, d.mats) \subseteq DOMAIN rows
  BY DEF Served, NewRows
<1>3. Bound(t) = 1 /\ \A k \in Served(rows, d), s \in Columns : ~Done(t, k, s)
  BY <1>1, <1>2 DEF Has, Bound, Done
<1>4. ExactMats(rows, d, w, 1)
  <2>1. Before(rows, d, 1) = 0 /\ Len(d.mats) \in Nat /\ d.next \in Nat
    BY Counting, CatParts
  <2> QED BY <1>1, <1>2, <2>1 DEF ExactMats
<1>5. ExactReport(rows, d, t.report, t)
  <2>1. t.report = Report({}, {}, {}, Columns \ d.known)
    BY DEF Has
  <2>2. Told(rows, d, t) = {}
    BY <1>3 DEF Told
  <2>3. {j \in NewRows(rows, d.mats) : j < Bound(t)} = {} /\ {k \in DOMAIN rows \ Served(rows, d) : k < Bound(t)} = {}
    BY <1>1, <1>2, <1>3
  <2> QED BY <2>1, <2>2, <2>3 DEF ExactReport, Report
<1>6. ExactPrices(rows, d, w, t)
  <2> SUFFICES ASSUME NEW k \in Served(rows, d), NEW s \in Columns, Base(rows, d, k) # 0
               PROVE  ExactPrice(rows, d, w, t, k, s)
    BY <1>1, <1>2, <1>3 DEF ExactPrices
  <2>1. Place(rows, d, k) = Base(rows, d, k)
    BY DEF Place
  <2>2. PriceAt(w, Base(rows, d, k), s) = Was(rows, d, k, s)
    BY DEF Was, PriceAt
  <2> QED BY <1>3, <2>1, <2>2 DEF ExactPrice, Has, Closing
<1>7. ExactTarget(rows, d, t)
  BY DEF ExactTarget, Has
<1> QED BY <1>3, <1>4, <1>5, <1>6, <1>7 DEF Exact

(* What the script finds for a row is what the catalogue had.              *)
LEMMA FoundIsBase ==
  ASSUME NEW rows, NEW d, NEW w, NEW n, n = Len(d.mats), NEW k, CatTyped(d), CatTyped(w),
         \A i \in 1 .. Len(d.mats) : w.mats[i] = d.mats[i], Len(d.mats) <= Len(w.mats)
  PROVE  Match(SubSeq(w.mats, 1, n), rows[k].desc) = Base(rows, d, k)
<1>1. d.mats \in Seq(Material) /\ w.mats \in Seq(Material) /\ n \in Nat
  BY CatParts
<1>2. SubSeq(w.mats, 1, n) = d.mats
  <2> HIDE DEF Material
  <2>1. \A i \in 1 .. n : w.mats[i] = d.mats[i]
    OBVIOUS
  <2>2. /\ SubSeq(w.mats, 1, n) \in Seq(Material) /\ Len(SubSeq(w.mats, 1, n)) = n
        /\ \A i \in 1 .. n : SubSeq(w.mats, 1, n)[i] = w.mats[i]
    BY <1>1
  <2>3. PICK x, y : x = SubSeq(w.mats, 1, n) /\ y = d.mats
    OBVIOUS
  <2>4. x \in Seq(Material) /\ y \in Seq(Material) /\ Len(x) = Len(y) /\ \A i \in 1 .. Len(x) : x[i] = y[i]
    BY <1>1, <2>1, <2>2, <2>3
  <2>5. x = y
    BY <2>4
  <2> QED BY <2>3, <2>5
<1> QED BY <1>2 DEF Base

LEMMA ExactMatched ==
  ASSUME NEW rows, NEW d, NEW w, NEW t, NEW u, IsFile(rows), Differ(rows), CatTyped(d),
         Exact(rows, d, w, t), t.step = "row", t.row \in DOMAIN rows, Base(rows, d, t.row) # 0,
         Has(u, "cells", t.row, Columns, Base(rows, d, t.row), t.seen, t.pending, t.held, t.report)
  PROVE  Exact(rows, d, w, u)
<1>1. t.row \in Served(rows, d) /\ t.row \notin NewRows(rows, d.mats) /\ t.row \in Nat \ {0}
  BY DEF IsFile, Served, NewRows, Base
<1>2. ExactTarget(rows, d, u)
  BY <1>1 DEF Has, Exact, ExactTarget, Place
<1>3. Bound(t) = t.row /\ Bound(u) = t.row + 1 /\ Bound(t) \in Nat
  BY <1>1 DEF Has, Bound
<1>4. \A k \in Nat \ {0}, s \in Columns : Done(u, k, s) <=> Done(t, k, s)
  BY DEF Has, Done
<1>5. u.report = t.report /\ u.pending = t.pending
  BY DEF Has
<1>6. u.report.unresolved = t.report.unresolved \cup ({Bound(t)} \cap (DOMAIN rows \ Served(rows, d)))
  BY <1>1, <1>3, <1>5
<1>7. Bound(u) = Bound(t) + 1 /\ Bound(t) \notin NewRows(rows, d.mats)
  BY <1>1, <1>3
<1> QED BY <1>2, <1>3, <1>4, <1>5, <1>6, <1>7, ExactAlike

LEMMA ExactUnresolved ==
  ASSUME NEW rows, NEW d, NEW w, NEW t, NEW u, IsFile(rows), Differ(rows), CatTyped(d),
         Exact(rows, d, w, t), t.step = "row", t.row \in DOMAIN rows, Base(rows, d, t.row) = 0,
         rows[t.row].group # CAT,
         Has(u, "row", t.row + 1, t.todo, t.target, t.seen, t.pending, t.held,
             Report(t.report.changes, t.report.materials, t.report.unresolved \cup {t.row}, t.report.suppliers))
  PROVE  Exact(rows, d, w, u)
<1>1. t.row \notin Served(rows, d) /\ t.row \notin NewRows(rows, d.mats) /\ t.row \in Nat \ {0}
  BY DEF IsFile, Served, NewRows
<1>2. ExactTarget(rows, d, u)
  BY <1>1 DEF Has, Exact, ExactTarget
<1>3. Bound(t) = t.row /\ Bound(u) = t.row + 1 /\ Bound(t) \in Nat
  BY <1>1 DEF Has, Bound
<1>4. \A k \in Nat \ {0}, s \in Columns : k \in Served(rows, d) => (Done(u, k, s) <=> Done(t, k, s))
  BY <1>1 DEF Has, Done
<1>5. /\ u.report.changes = t.report.changes /\ u.report.materials = t.report.materials
      /\ u.report.suppliers = t.report.suppliers /\ u.pending = t.pending
      /\ u.report.unresolved = t.report.unresolved \cup {t.row}
  BY DEF Has, Report
<1>6. u.report.unresolved = t.report.unresolved \cup ({Bound(t)} \cap (DOMAIN rows \ Served(rows, d)))
  BY <1>1, <1>3, <1>5
<1>7. Bound(u) = Bound(t) + 1 /\ Bound(t) \notin NewRows(rows, d.mats)
  BY <1>1, <1>3
<1> QED BY <1>2, <1>3, <1>4, <1>5, <1>6, <1>7, ExactAlike

(* A flush changes nothing of what is to be.                               *)
LEMMA FlushExact ==
  ASSUME NEW w, CatTyped(w), NEW p, NEW m \in 1 .. Len(w.mats), NEW s \in Columns
  PROVE  /\ PriceAt(Flushed(w, p), m, s) = After(w, p, m, s)
         /\ ~Closing(w, p, m, s) => PriceAt(Flushed(w, p), m, s) = PriceAt(w, m, s)
<1>1. Flushed(w, p).active[m][s] = IF Closing(w, p, m, s) THEN NULL ELSE w.active[m][s]
  BY FlushedCat
<1> QED BY <1>1 DEF PriceAt, After

(* What ExactPrice says of a pair holds of it after a flush, if the flushed*)
(* row is not touched.                                                     *)
LEMMA PriceKept ==
  ASSUME NEW rows, NEW d, NEW w, NEW w2, NEW t, NEW u, NEW k, NEW s \in Columns, CatTyped(w),
         NEW m, m = Place(rows, d, k), m \in 1 .. Len(w.mats),
         ExactPrice(rows, d, w, t, k, s), Done(u, k, s) <=> Done(t, k, s),
         u.pending = {}, w2.active[m][s] = Flushed(w, t.pending).active[m][s]
  PROVE  ExactPrice(rows, d, w2, u, k, s)
<1>1. PriceAt(w2, m, s) = PriceAt(Flushed(w, t.pending), m, s)
  BY DEF PriceAt
<1>2. ~Closing(w2, u.pending, m, s) /\ After(w2, u.pending, m, s) = PriceAt(w2, m, s)
  BY DEF Closing, After
<1>3. /\ PriceAt(w2, m, s) = After(w, t.pending, m, s)
      /\ ~Closing(w, t.pending, m, s) => PriceAt(w2, m, s) = PriceAt(w, m, s)
  BY <1>1, FlushExact
<1> QED BY <1>2, <1>3 DEF ExactPrice

(* Places in use.                                                          *)
LEMMA PlaceInUse ==
  ASSUME NEW rows, NEW d, NEW w, NEW b \in Nat, IsFile(rows), Differ(rows), CatTyped(d),
         ExactMats(rows, d, w, b), NEW k \in Served(rows, d), Base(rows, d, k) # 0 \/ k < b
  PROVE  Place(rows, d, k) \in 1 .. Len(w.mats)
<1>1. Len(d.mats) \in Nat /\ Before(rows, d, b) \in Nat /\ Len(w.mats) = Len(d.mats) + Before(rows, d, b)
  BY CatParts, Counting DEF ExactMats
<1>2. CASE Base(rows, d, k) # 0
  <2>1. Place(rows, d, k) \in 1 .. Len(d.mats)
    BY <1>2, Placing
  <2> QED BY <1>1, <2>1
<1>3. CASE Base(rows, d, k) = 0
  <2>1. k \in NewRows(rows, d.mats) /\ Place(rows, d, k) = Len(d.mats) + 1 + Before(rows, d, k) /\ k \in Nat
    BY <1>3, Placing
  <2>2. Before(rows, d, k) < Before(rows, d, b) /\ Before(rows, d, k) \in Nat
    BY <1>3, <2>1, Counting
  <2> QED BY <1>1, <2>1, <2>2
<1> QED BY <1>2, <1>3

LEMMA ExactCreates ==
  ASSUME NEW rows, NEW d, NEW w, NEW w2, NEW t, NEW u, NEW h, IsFile(rows), Differ(rows), CatTyped(d), CatTyped(w),
         Exact(rows, d, w, t), t.step = "row", t.row \in DOMAIN rows, Base(rows, d, t.row) = 0,
         rows[t.row].group = CAT,
         w2 = WithMaterial(Flushed(w, t.pending), rows[t.row].desc),
         Has(u, "cells", t.row, Columns, Len(w2.mats), t.seen, {}, h,
             Report(t.report.changes, t.report.materials \cup {w.next}, t.report.unresolved, t.report.suppliers))
  PROVE  Exact(rows, d, w2, u)
<1> DEFINE N == NewRows(rows, d.mats)
           S == Served(rows, d)
<1>1. PICK f, b, x : f = Flushed(w, t.pending) /\ b = t.row /\ x = rows[t.row].desc
  OBVIOUS
<1>2. b \in N /\ b \in S /\ b \in Nat \ {0} /\ x \in Texts /\ b \in DOMAIN rows /\ Base(rows, d, b) = 0
  BY <1>1 DEF IsFile, Served, NewRows, Base
<1>3. Bound(t) = b /\ Bound(u) = b + 1
  BY <1>1, <1>2 DEF Has, Bound
<1>4. /\ CatTyped(f) /\ f.mats = w.mats /\ f.next = w.next
  BY <1>1, FlushedCat
<1>5. /\ CatTyped(w2) /\ Len(w2.mats) = Len(w.mats) + 1 /\ w2.next = w.next + 1
      /\ \A m \in 1 .. Len(w.mats) : w2.mats[m] = w.mats[m] /\ w2.active[m] = f.active[m]
      /\ w2.mats[Len(w.mats) + 1] = [name |-> x, number |-> w.next]
      /\ \A s \in Columns : w2.active[Len(w.mats) + 1][s] = NULL
  <2>1. w2 = WithMaterial(f, x)
    BY <1>1
  <2> QED BY <1>2, <1>4, <2>1, GrownCat
<1>6. /\ Before(rows, d, b) \in Nat /\ Before(rows, d, b + 1) = Before(rows, d, b) + 1
      /\ Len(d.mats) \in Nat /\ d.next \in Nat /\ Len(w.mats) \in Nat
  <2>1. /\ \A k \in Nat : Before(rows, d, k) \in Nat
        /\ \A k \in N : Before(rows, d, k + 1) = Before(rows, d, k) + 1
    BY Counting, Zenon
  <2>2. Before(rows, d, b) \in Nat /\ Before(rows, d, b + 1) = Before(rows, d, b) + 1
    BY <1>2, <2>1
  <2> QED BY <2>2, CatParts
<1>7. ExactMats(rows, d, w, b)
  BY <1>3 DEF Exact
<1>8. Len(w.mats) = Len(d.mats) + Before(rows, d, b) /\ w.next = d.next + Before(rows, d, b)
  BY <1>7 DEF ExactMats
<1>9. Place(rows, d, b) = Len(w.mats) + 1 /\ Number(rows, d, b) = w.next
  <2>1. Place(rows, d, b) = Len(d.mats) + 1 + Before(rows, d, b) /\ Number(rows, d, b) = d.next + Before(rows, d, b)
    BY <1>2 DEF Place, Number
  <2> QED BY <1>6, <1>8, <2>1
<1>10. N \subseteq Nat /\ DOMAIN rows \subseteq Nat /\ S \subseteq DOMAIN rows /\ N \subseteq S
  BY DEF IsFile, Served, NewRows
<1>11. \A k \in S : Base(rows, d, k) # 0 \/ k < b => Place(rows, d, k) \in 1 .. Len(w.mats)
  BY <1>2, <1>7, PlaceInUse
<1>12. \A k \in Nat : k < b + 1 <=> k < b \/ k = b
  BY <1>2
<1>13. ExactMats(rows, d, w2, b + 1)
  <2>1. Len(w2.mats) = Len(d.mats) + Before(rows, d, b + 1) /\ w2.next = d.next + Before(rows, d, b + 1)
    <3>1. Len(w2.mats) = Len(w.mats) + 1 /\ w2.next = w.next + 1
      BY <1>5
    <3>2. PICK c : c = Before(rows, d, b) /\ c \in Nat /\ Before(rows, d, b + 1) = c + 1
      BY <1>6
    <3>3. Len(w.mats) = Len(d.mats) + c /\ w.next = d.next + c
      BY <1>8, <3>2
    <3>4. \A i \in Nat : (i + c) + 1 = i + (c + 1)
      BY <3>2
    <3>5. Len(w2.mats) = Len(d.mats) + (c + 1) /\ w2.next = d.next + (c + 1)
      <4>1. Len(d.mats) \in Nat /\ d.next \in Nat
        BY <1>6
      <4>2. Len(w2.mats) = (Len(d.mats) + c) + 1 /\ w2.next = (d.next + c) + 1
        BY <3>1, <3>3
      <4> QED BY <3>4, <4>1, <4>2
    <3> QED BY <3>2, <3>5
  <2>2. \A i \in 1 .. Len(d.mats) : w2.mats[i] = d.mats[i]
    <3>1. \A i \in 1 .. Len(d.mats) : i \in 1 .. Len(w.mats)
      BY <1>6, <1>8
    <3> QED BY <1>5, <1>7, <3>1 DEF ExactMats
  <2>3. ASSUME NEW k \in N, k < b + 1
        PROVE  w2.mats[Place(rows, d, k)] = [name |-> rows[k].desc, number |-> Number(rows, d, k)]
    <3>1. CASE k = b
      BY <1>1, <1>5, <1>9, <3>1
    <3>2. CASE k < b
      <4>1. Place(rows, d, k) \in 1 .. Len(w.mats)
        BY <1>10, <1>11, <3>2
      <4>2. w.mats[Place(rows, d, k)] = [name |-> rows[k].desc, number |-> Number(rows, d, k)]
        BY <1>7, <3>2 DEF ExactMats
      <4> QED BY <1>5, <4>1, <4>2
    <3> QED BY <1>10, <1>12, <2>3, <3>1, <3>2
  <2>4. ASSUME NEW i \in 1 .. Len(w2.mats)
        PROVE  i \in 1 .. Len(d.mats) \/ \E k \in N : k < b + 1 /\ i = Place(rows, d, k)
    <3>1. CASE i \in 1 .. Len(w.mats)
      <4>1. i \in 1 .. Len(d.mats) \/ \E k \in N : k < b /\ i = Place(rows, d, k)
        BY <1>7, <3>1 DEF ExactMats
      <4> QED BY <1>10, <1>12, <4>1
    <3>2. CASE i = Len(w.mats) + 1
      BY <1>2, <1>9, <1>12, <3>2
    <3> QED BY <1>5, <1>6, <3>1, <3>2
  <2> QED BY <2>1, <2>2, <2>3, <2>4 DEF ExactMats
<1>14. \A k \in Nat, s \in Columns : Done(u, k, s) <=> Done(t, k, s)
  BY DEF Has, Done
<1>15. ExactReport(rows, d, u.report, u)
  <2>1. /\ u.report.changes = t.report.changes /\ u.report.materials = t.report.materials \cup {w.next}
        /\ u.report.suppliers = t.report.suppliers /\ u.report.unresolved = t.report.unresolved
    BY DEF Has, Report
  <2>2. Told(rows, d, u) = Told(rows, d, t)
    <3>1. \A c \in S \X Columns : Done(u, c[1], c[2]) <=> Done(t, c[1], c[2])
      BY <1>10, <1>14
    <3> QED BY <3>1 DEF Told
  <2>3. {j \in N : j < b + 1} = {j \in N : j < b} \cup {b}
    BY <1>2, <1>10, <1>12
  <2>4. {Number(rows, d, k) : k \in {j \in N : j < b + 1}}
          = {Number(rows, d, k) : k \in {j \in N : j < b}} \cup {w.next}
    <3> HIDE DEF N
    <3> QED BY <1>9, <2>3
  <2>5. {k \in DOMAIN rows \ S : k < b + 1} = {k \in DOMAIN rows \ S : k < b}
    BY <1>2, <1>10, <1>12
  <2>6. ExactReport(rows, d, t.report, t)
    BY DEF Exact
  <2> QED BY <1>3, <2>1, <2>2, <2>4, <2>5, <2>6 DEF ExactReport
<1>16. ExactPrices(rows, d, w2, u)
  <2> SUFFICES ASSUME NEW k \in S, NEW s \in Columns, Base(rows, d, k) # 0 \/ k < b + 1
               PROVE  ExactPrice(rows, d, w2, u, k, s)
    BY <1>3 DEF ExactPrices
  <2>0. k \in Nat
    BY <1>10
  <2>1. CASE Base(rows, d, k) # 0 \/ k < b
    <3>1. PICK m : m = Place(rows, d, k)
      OBVIOUS
    <3>2. m \in 1 .. Len(w.mats)
      BY <1>11, <2>1, <3>1
    <3>3. ExactPrice(rows, d, w, t, k, s)
      BY <1>3, <2>1 DEF Exact, ExactPrices
    <3>4. w2.active[m][s] = Flushed(w, t.pending).active[m][s] /\ u.pending = {}
      BY <1>1, <1>5, <3>2 DEF Has
    <3>5. Done(u, k, s) <=> Done(t, k, s)
      BY <1>14, <2>0
    <3> QED BY <3>1, <3>2, <3>3, <3>4, <3>5, PriceKept
  <2>2. CASE k = b
    <3>1. ~Done(u, b, s)
      BY <1>1, <1>2 DEF Has, Done
    <3>2. w2.active[Place(rows, d, b)][s] = NULL
      BY <1>5, <1>9
    <3>3. Was(rows, d, b, s) = NULL
      BY <1>2 DEF Was
    <3> QED BY <2>2, <3>1, <3>2, <3>3 DEF ExactPrice, PriceAt, Closing
  <2> QED BY <1>12, <2>0, <2>1, <2>2
<1>17. ExactTarget(rows, d, u)
  BY <1>1, <1>2, <1>5, <1>9 DEF Exact, ExactTarget, Has
<1> QED BY <1>3, <1>13, <1>15, <1>16, <1>17 DEF Exact

(* One column of a row: what the pair is to have it will have, what is to  *)
(* be told of it is told.                                                  *)
CaseOf(rows, d, k, s) == Case(Was(rows, d, k, s), File(rows, k, s))

(* The pair itself, and all others as they were.                           *)
LEMMA CellPrices ==
  ASSUME NEW rows, NEW d, NEW w, NEW w2, NEW t, NEW u, NEW s \in Columns, IsFile(rows), Differ(rows),
         CatTyped(d), CatTyped(w), Exact(rows, d, w, t), t.step = "cells", u.step = "cells",
         u.row = t.row, u.todo = t.todo \ {s}, s \in t.todo,
         After(w2, u.pending, t.target, s) = File(rows, t.row, s),
         \A k \in Served(rows, d), v \in Columns :
           /\ Base(rows, d, k) # 0 \/ k < t.row + 1
           /\ ExactPrice(rows, d, w, t, k, v) /\ (k # t.row \/ v # s) /\ (Done(u, k, v) <=> Done(t, k, v))
           => ExactPrice(rows, d, w2, u, k, v)
  PROVE  ExactPrices(rows, d, w2, u)
<1>1. Bound(u) = t.row + 1 /\ Bound(t) = t.row + 1
  BY DEF Bound
<1> SUFFICES ASSUME NEW k \in Served(rows, d), NEW v \in Columns, Base(rows, d, k) # 0 \/ k < t.row + 1
             PROVE  ExactPrice(rows, d, w2, u, k, v)
  BY <1>1 DEF ExactPrices
<1>2. ExactPrice(rows, d, w, t, k, v)
  BY <1>1 DEF Exact, ExactPrices
<1>3. CASE k = t.row /\ v = s
  <2>1. Done(u, k, v) /\ Place(rows, d, k) = t.target
    BY <1>3 DEF Done, Exact, ExactTarget
  <2> QED BY <1>3, <2>1 DEF ExactPrice
<1>4. CASE k # t.row \/ v # s
  <2>1. Done(u, k, v) <=> Done(t, k, v)
    BY <1>4 DEF Done
  <2> QED BY <1>2, <1>4, <2>1
<1> QED BY <1>3, <1>4

(* The report with the pair's line, if it has one.                         *)
LEMMA CellReport ==
  ASSUME NEW rows, NEW d, NEW t, NEW u, NEW s \in Columns, IsFile(rows), Differ(rows), CatTyped(d),
         ExactTarget(rows, d, t), ExactReport(rows, d, t.report, t),
         t.step = "cells", u.step = "cells", u.row = t.row, u.todo = t.todo \ {s}, s \in t.todo,
         u.report = Report(IF CaseOf(rows, d, t.row, s) = "none" THEN t.report.changes
                           ELSE t.report.changes \cup {Note(rows, d, <<t.row, s>>)},
                           t.report.materials, t.report.unresolved, t.report.suppliers)
  PROVE  ExactReport(rows, d, u.report, u)
<1> DEFINE S == Served(rows, d)
<1>1. Bound(u) = Bound(t)
  BY DEF Bound
<1>2. t.row \in S /\ t.row \in Nat
  BY DEF ExactTarget
<1>3. \A k \in S, v \in Columns : Done(u, k, v) <=> Done(t, k, v) \/ (k = t.row /\ v = s)
  BY DEF Done
<1>4. PICK c : c = <<t.row, s>>
  OBVIOUS
<1>5. c \in S \X Columns /\ c[1] = t.row /\ c[2] = s
  BY <1>2, <1>4
<1>6. CASE CaseOf(rows, d, t.row, s) = "none"
  <2>1. Told(rows, d, u) = Told(rows, d, t)
    <3>1. ASSUME NEW e \in S \X Columns, CaseOf(rows, d, e[1], e[2]) # "none"
          PROVE  Done(u, e[1], e[2]) <=> Done(t, e[1], e[2])
      BY <1>3, <1>6, <3>1
    <3> QED BY <3>1 DEF Told, CaseOf
  <2>2. u.report.changes = t.report.changes
    BY <1>6 DEF Report
  <2> QED BY <1>1, <2>1, <2>2 DEF ExactReport, Report
<1>7. CASE CaseOf(rows, d, t.row, s) # "none"
  <2>1. Told(rows, d, u) = Told(rows, d, t) \cup {c}
    <3>1. \A e \in S \X Columns : e[1] = t.row /\ e[2] = s <=> e = c
      BY <1>4
    <3>2. \A e \in S \X Columns : Done(u, e[1], e[2]) <=> Done(t, e[1], e[2]) \/ e = c
      BY <1>3, <3>1
    <3>3. CaseOf(rows, d, c[1], c[2]) # "none"
      BY <1>5, <1>7
    <3> HIDE DEF S
    <3> QED BY <1>5, <3>2, <3>3 DEF Told, CaseOf, S
  <2>2. u.report.changes = t.report.changes \cup {Note(rows, d, c)}
    BY <1>4, <1>7 DEF Report
  <2>3. {Note(rows, d, e) : e \in Told(rows, d, u)} = {Note(rows, d, e) : e \in Told(rows, d, t)} \cup {Note(rows, d, c)}
    BY <2>1
  <2>4. t.report.changes = {Note(rows, d, e) : e \in Told(rows, d, t)}
    BY DEF ExactReport
  <2>5. u.report.changes = {Note(rows, d, e) : e \in Told(rows, d, u)}
    BY <2>2, <2>3, <2>4
  <2> QED BY <1>1, <2>5 DEF ExactReport, Report
<1> QED BY <1>6, <1>7

(* What the script sees of the pair it comes to.                           *)
Sees(rows, d, w, t, s) ==
  /\ t.target \in 1 .. Len(w.mats) /\ t.row \in Served(rows, d) /\ t.target = Place(rows, d, t.row)
  /\ w.mats[t.target].number = Number(rows, d, t.row)
  /\ PriceAt(w, t.target, s) = Was(rows, d, t.row, s) /\ ~Closing(w, t.pending, t.target, s)
  /\ \A k \in Served(rows, d) : Base(rows, d, k) # 0 \/ k < t.row + 1 => Place(rows, d, k) \in 1 .. Len(w.mats)
  /\ \A k \in Served(rows, d) : k # t.row => Place(rows, d, k) # t.target

LEMMA CellSees ==
  ASSUME NEW rows, NEW d, NEW w, NEW t, NEW s \in Columns, IsFile(rows), Differ(rows), CatTyped(d), CatTyped(w),
         Exact(rows, d, w, t), t.step = "cells", s \in t.todo
  PROVE  Sees(rows, d, w, t, s)
<1>1. t.row \in Nat /\ t.row + 1 \in Nat /\ t.row < t.row + 1 /\ Bound(t) = t.row + 1
  BY DEF Exact, ExactTarget, Bound
<1>2. t.row \in Served(rows, d) /\ t.target = Place(rows, d, t.row)
  BY DEF Exact, ExactTarget
<1>3. ExactMats(rows, d, w, t.row + 1)
  BY <1>1 DEF Exact
<1>4. \A k \in Served(rows, d) : Base(rows, d, k) # 0 \/ k < t.row + 1 => Place(rows, d, k) \in 1 .. Len(w.mats)
  BY <1>1, <1>3, PlaceInUse
<1>5. \A k \in Served(rows, d) : k # t.row => Place(rows, d, k) # t.target
  BY <1>2, Placing
<1>6. PriceAt(w, t.target, s) = Was(rows, d, t.row, s) /\ ~Closing(w, t.pending, t.target, s)
  <2>1. ExactPrice(rows, d, w, t, t.row, s)
    BY <1>1, <1>2 DEF Exact, ExactPrices
  <2>2. ~Done(t, t.row, s)
    BY <1>1 DEF Done
  <2> QED BY <1>2, <2>1, <2>2 DEF ExactPrice
<1>7. w.mats[t.target].number = Number(rows, d, t.row)
  <2>1. CASE Base(rows, d, t.row) # 0
    <3>1. t.target = Base(rows, d, t.row) /\ t.target \in 1 .. Len(d.mats)
      BY <1>2, <2>1, Placing
    <3>2. w.mats[t.target] = d.mats[t.target]
      BY <1>3, <3>1 DEF ExactMats
    <3> QED BY <2>1, <3>1, <3>2 DEF Number
  <2>2. CASE Base(rows, d, t.row) = 0
    <3>1. t.row \in NewRows(rows, d.mats)
      BY <1>2, <2>2, Placing
    <3>2. w.mats[t.target] = [name |-> rows[t.row].desc, number |-> Number(rows, d, t.row)]
      BY <1>1, <1>2, <1>3, <3>1 DEF ExactMats
    <3> QED BY <3>2
  <2> QED BY <2>1, <2>2
<1> QED BY <1>1, <1>2, <1>4, <1>5, <1>6, <1>7 DEF Sees

(* The step of the script for one column.                                  *)
Treated(rows, w, t, s, h, old, new, w2, u) ==
  /\ t.step = "cells" /\ s \in t.todo
  /\ old = PriceAt(w, t.target, s) /\ new = File(rows, t.row, s)
  /\ w2 = IF Case(old, new) \in {"update", "create"}
          THEN Priced(Flushed(w, t.pending), t.target, s, [price |-> new, by |-> 0]) ELSE w
  /\ Has(u, "cells", t.row, t.todo \ {s}, t.target, t.seen,
         IF Case(old, new) = "close" THEN t.pending \cup {<<t.target, s, w.active[t.target][s].by>>}
         ELSE IF Case(old, new) \in {"update", "create"} THEN {} ELSE t.pending, h,
         Report(IF Case(old, new) = "none" THEN t.report.changes
                ELSE t.report.changes \cup {Change(w.mats[t.target].number, s, old, new)},
                t.report.materials, t.report.unresolved, t.report.suppliers))

LEMMA ExactCell ==
  ASSUME NEW rows, NEW d, NEW w, NEW w2, NEW t, NEW u, NEW s \in Columns, NEW h, NEW old, NEW new,
         IsFile(rows), Differ(rows), CatTyped(d), CatTyped(w), Exact(rows, d, w, t),
         Treated(rows, w, t, s, h, old, new, w2, u)
  PROVE  Exact(rows, d, w2, u)
<1>0. /\ t.step = "cells" /\ s \in t.todo
      /\ old = PriceAt(w, t.target, s) /\ new = File(rows, t.row, s)
      /\ w2 = IF Case(old, new) \in {"update", "create"}
              THEN Priced(Flushed(w, t.pending), t.target, s, [price |-> new, by |-> 0]) ELSE w
  BY DEF Treated
<1>1. /\ t.target \in 1 .. Len(w.mats) /\ t.row \in Served(rows, d) /\ t.target = Place(rows, d, t.row)
      /\ w.mats[t.target].number = Number(rows, d, t.row)
      /\ PriceAt(w, t.target, s) = Was(rows, d, t.row, s) /\ ~Closing(w, t.pending, t.target, s)
      /\ \A k \in Served(rows, d) : Base(rows, d, k) # 0 \/ k < t.row + 1 => Place(rows, d, k) \in 1 .. Len(w.mats)
      /\ \A k \in Served(rows, d) : k # t.row => Place(rows, d, k) # t.target
  <2>1. Sees(rows, d, w, t, s)
    BY <1>0, CellSees
  <2> QED BY <2>1 DEF Sees
<1>2. PICK m, what : m = t.target /\ what = Case(old, new)
  OBVIOUS
<1>3. /\ u.step = "cells" /\ u.row = t.row /\ u.todo = t.todo \ {s} /\ u.target = m /\ u.seen = t.seen
      /\ u.pending = IF what = "close" THEN t.pending \cup {<<m, s, w.active[m][s].by>>}
                     ELSE IF what \in {"update", "create"} THEN {} ELSE t.pending
      /\ u.report = Report(IF what = "none" THEN t.report.changes
                           ELSE t.report.changes \cup {Change(w.mats[m].number, s, old, new)},
                           t.report.materials, t.report.unresolved, t.report.suppliers)
  BY <1>0, <1>2 DEF Has, Treated
<1>4. ExactTarget(rows, d, u)
  BY <1>0, <1>2, <1>3 DEF Exact, ExactTarget
<1>5. ExactReport(rows, d, u.report, u)
  <2>1. CaseOf(rows, d, t.row, s) = what
    BY <1>0, <1>1, <1>2 DEF CaseOf
  <2>2. Note(rows, d, <<t.row, s>>) = Change(w.mats[m].number, s, old, new)
    BY <1>0, <1>1, <1>2 DEF Note
  <2>3. u.report = Report(IF CaseOf(rows, d, t.row, s) = "none" THEN t.report.changes
                           ELSE t.report.changes \cup {Note(rows, d, <<t.row, s>>)},
                           t.report.materials, t.report.unresolved, t.report.suppliers)
    BY <1>0, <1>3, <2>1, <2>2
  <2>4. ExactTarget(rows, d, t) /\ ExactReport(rows, d, t.report, t)
    BY DEF Exact
  <2> QED BY <1>0, <1>3, <2>3, <2>4, CellReport
<1>6. Bound(u) = Bound(t)
  BY <1>0, <1>3 DEF Bound
<1>7. CASE what \in {"update", "create"}
  <2>1. PICK f, row : f = Flushed(w, t.pending) /\ row = [price |-> new, by |-> 0]
    OBVIOUS
  <2>2. new \in Nat
    <3>1. new # NULL
      BY <1>0, <1>2, <1>7 DEF Case
    <3> QED BY <1>0, <3>1, FilePriceType DEF File
  <2>3. CatTyped(f) /\ f.mats = w.mats /\ f.next = w.next
    BY <1>0, <2>1, FlushedCat
  <2>4. row \in PriceRow \cup {NULL} /\ row # NULL /\ row.price = new
    BY <1>0, <2>1, <2>2, SyncAssumption DEF PriceRow
  <2>5. w2 = Priced(f, m, s, row)
    BY <1>0, <1>2, <1>7, <2>1
  <2>6. /\ w2.mats = w.mats /\ w2.next = w.next /\ w2.active[m][s] = row
        /\ \A k \in 1 .. Len(w.mats), v \in Columns : k # m \/ v # s => w2.active[k][v] = f.active[k][v]
    <3>1. m \in 1 .. Len(f.mats) /\ s \in Columns
      BY <1>0, <1>1, <1>2, <2>3
    <3>2. /\ w2.mats = f.mats /\ w2.next = f.next /\ w2.active[m][s] = row
          /\ \A k \in 1 .. Len(f.mats), v \in Columns : k # m \/ v # s => w2.active[k][v] = f.active[k][v]
      BY <2>3, <2>4, <2>5, <3>1, PricedCat
    <3> QED BY <2>3, <3>2
  <2>7. ExactMats(rows, d, w2, Bound(u))
    BY <1>0, <1>6, <2>6 DEF Exact, ExactMats
  <2>8. u.pending = {}
    BY <1>0, <1>3, <1>7
  <2>9. After(w2, u.pending, t.target, s) = File(rows, t.row, s)
    BY <1>0, <1>2, <2>4, <2>6, <2>8 DEF After, Closing, PriceAt
  <2>10. ASSUME NEW k \in Served(rows, d), NEW v \in Columns, Base(rows, d, k) # 0 \/ k < t.row + 1,
                ExactPrice(rows, d, w, t, k, v), k # t.row \/ v # s, Done(u, k, v) <=> Done(t, k, v)
         PROVE  ExactPrice(rows, d, w2, u, k, v)
    <3>1. PICK i : i = Place(rows, d, k)
      OBVIOUS
    <3>2. i \in 1 .. Len(w.mats) /\ (i # m \/ v # s)
      BY <1>0, <1>1, <1>2, <2>10, <3>1
    <3>3. w2.active[i][v] = Flushed(w, t.pending).active[i][v]
      BY <1>0, <2>1, <2>6, <3>2
    <3> QED BY <1>0, <2>8, <2>10, <3>1, <3>2, <3>3, PriceKept
  <2>11. ExactPrices(rows, d, w2, u)
    BY <1>0, <1>3, <2>9, <2>10, CellPrices
  <2> QED BY <1>0, <1>4, <1>5, <2>7, <2>11 DEF Exact
<1>8. CASE what \notin {"update", "create"}
  <2>1. w2 = w
    BY <1>0, <1>2, <1>8
  <2>2. ExactMats(rows, d, w2, Bound(u))
    BY <1>0, <1>6, <2>1 DEF Exact
  <2>3. After(w2, u.pending, t.target, s) = File(rows, t.row, s)
    <3>1. CASE what = "close"
      <4>1. new = NULL /\ old # NULL
        BY <1>0, <1>2, <3>1 DEF Case
      <4>2. w.active[m][s] # NULL
        BY <1>0, <1>2, <4>1 DEF PriceAt
      <4>3. Closing(w, u.pending, m, s)
        BY <1>0, <1>3, <3>1, <4>2 DEF Closing
      <4> QED BY <1>0, <1>2, <2>1, <4>1, <4>3 DEF After
    <3>2. CASE what # "close"
      <4>1. new = old
        BY <1>0, <1>2, <1>8, <3>2 DEF Case
      <4>2. u.pending = t.pending
        BY <1>0, <1>3, <1>8, <3>2
      <4> QED BY <1>0, <1>1, <2>1, <4>1, <4>2 DEF After
    <3> QED BY <1>0, <3>1, <3>2
  <2>4. ASSUME NEW k \in Served(rows, d), NEW v \in Columns, Base(rows, d, k) # 0 \/ k < t.row + 1,
               ExactPrice(rows, d, w, t, k, v), k # t.row \/ v # s, Done(u, k, v) <=> Done(t, k, v)
        PROVE  ExactPrice(rows, d, w2, u, k, v)
    <3>1. PICK i : i = Place(rows, d, k)
      OBVIOUS
    <3>2. i # m \/ v # s
      BY <1>0, <1>1, <1>2, <2>4, <3>1
    <3>3. Closing(w, u.pending, i, v) <=> Closing(w, t.pending, i, v)
      <4>1. u.pending = t.pending \/ u.pending = t.pending \cup {<<m, s, w.active[m][s].by>>}
        BY <1>0, <1>3, <1>8
      <4>2. <<i, v, w.active[i][v].by>> # <<m, s, w.active[m][s].by>>
        BY <1>0, <3>2
      <4> QED BY <1>0, <4>1, <4>2 DEF Closing
    <3>4. After(w, u.pending, i, v) = After(w, t.pending, i, v)
      BY <1>0, <3>3 DEF After
    <3> QED BY <1>0, <2>1, <2>4, <3>1, <3>3, <3>4 DEF ExactPrice
  <2>5. ExactPrices(rows, d, w2, u)
    BY <1>0, <1>3, <2>3, <2>4, CellPrices
  <2> QED BY <1>0, <1>4, <1>5, <2>2, <2>5 DEF Exact
<1> QED BY <1>0, <1>7, <1>8

-----------------------------------------------------------------------------
(* At the end of the file.                                                 *)
LEMMA ToldAll ==
  ASSUME NEW rows, NEW d \in Bases, NEW w, NEW t, IsFile(rows), Differ(rows), Exact(rows, d, w, t), Progress(t),
         t.step = "row", t.row > Len(rows)
  PROVE  t.report = DryRun(rows, d)
<1> DEFINE S == Served(rows, d)
           N == NewRows(rows, d.mats)
           old(k, s) == LET m == Match(d.mats, rows[k].desc)
                        IN IF m = 0 \/ s \notin d.known THEN NULL ELSE PriceAt(d, m, s)
           number(k) == LET m == Match(d.mats, rows[k].desc)
                        IN IF m = 0 THEN PredictedNumber(rows, d, k) ELSE d.mats[m].number
           cells == {c \in S \X Columns : Case(old(c[1], c[2]), FilePrice(rows, rows[c[1]].desc, c[2])) # "none"}
           told(c) == Change(number(c[1]), c[2], old(c[1], c[2]), FilePrice(rows, rows[c[1]].desc, c[2]))
<1>1. CatTyped(d) /\ \A m \in DOMAIN d.active, s \in Columns : d.active[m][s] # NULL => s \in d.known
  BY BaseIsCatalogue, SyncAssumption
<1>2. DOMAIN rows = 1 .. Len(rows) /\ Len(rows) \in Nat /\ S \subseteq DOMAIN rows /\ N \subseteq S
  BY DEF IsFile, Served, NewRows
<1>3. Bound(t) = t.row /\ \A k \in DOMAIN rows : k < t.row
  BY <1>2 DEF Bound, Progress
<1>4. \A k \in S, s \in Columns : old(k, s) = Was(rows, d, k, s)
  <2> SUFFICES ASSUME NEW k \in S, NEW s \in Columns PROVE old(k, s) = Was(rows, d, k, s)
    OBVIOUS
  <2>1. CASE Base(rows, d, k) = 0
    BY <2>1 DEF Base, Was
  <2>2. CASE Base(rows, d, k) # 0
    <3>1. Base(rows, d, k) \in DOMAIN d.active
      BY <1>1, <1>2, <2>2, Placing, CatParts
    <3>2. s \notin d.known => PriceAt(d, Base(rows, d, k), s) = NULL
      BY <1>1, <3>1 DEF PriceAt
    <3> QED BY <2>2, <3>2 DEF Base, Was
  <2> QED BY <2>1, <2>2
<1>5. \A k \in S : number(k) = Number(rows, d, k)
  BY DEF Number, PredictedNumber, Before, Base
<1>6. S = {k \in DOMAIN rows : Match(d.mats, rows[k].desc) # 0} \cup NewRows(rows, d.mats)
  BY DEF Served, Base
<1>7. DryRun(rows, d) = [changes |-> {told(c) : c \in cells}, materials |-> {PredictedNumber(rows, d, k) : k \in N},
                         unresolved |-> DOMAIN rows \ S, suppliers |-> Columns \ d.known]
  BY <1>6 DEF DryRun
<1>8. cells = Told(rows, d, t)
  <2>1. \A c \in S \X Columns : Done(t, c[1], c[2]) /\ old(c[1], c[2]) = Was(rows, d, c[1], c[2])
    BY <1>2, <1>3, <1>4 DEF Done
  <2> HIDE DEF old, S
  <2> QED BY <2>1 DEF Told, File, S
<1>9. \A c \in Told(rows, d, t) : told(c) = Note(rows, d, c)
  <2>1. \A c \in Told(rows, d, t) : c[1] \in S /\ c[2] \in Columns
    BY DEF Told
  <2> HIDE DEF old, number, S
  <2> QED BY <1>4, <1>5, <2>1 DEF Note, File
<1>10. t.report.changes = {told(c) : c \in cells}
  <2>1. t.report.changes = {Note(rows, d, c) : c \in Told(rows, d, t)}
    BY DEF Exact, ExactReport
  <2> HIDE DEF told, cells
  <2> QED BY <1>8, <1>9, <2>1
<1>11. t.report.materials = {PredictedNumber(rows, d, k) : k \in N}
  <2>1. {j \in N : j < Bound(t)} = N
    BY <1>2, <1>3
  <2>2. \A k \in N : Number(rows, d, k) = PredictedNumber(rows, d, k)
    BY DEF Number, PredictedNumber, Before, Base, NewRows
  <2>3. t.report.materials = {Number(rows, d, k) : k \in {j \in N : j < Bound(t)}}
    BY DEF Exact, ExactReport
  <2> HIDE DEF N
  <2> QED BY <2>1, <2>2, <2>3
<1>12. t.report.unresolved = DOMAIN rows \ S /\ t.report.suppliers = Columns \ d.known
  <2>1. {k \in DOMAIN rows \ S : k < Bound(t)} = DOMAIN rows \ S
    BY <1>3
  <2> QED BY <2>1 DEF Exact, ExactReport
<1>13. t.report = Report(t.report.changes, t.report.materials, t.report.unresolved, t.report.suppliers)
  BY DEF Progress
<1> HIDE DEF told, cells, N, S
<1> QED BY <1>7, <1>10, <1>11, <1>12, <1>13 DEF Report

(* Every row served has its prices, every other one no material.           *)
LastWord(rows, c, unresolved) ==
  \A k \in DOMAIN rows :
    \/ k \in unresolved /\ Match(c.mats, rows[k].desc) = 0
    \/ LET m == Match(c.mats, rows[k].desc)
       IN m # 0 /\ \A s \in Columns : PriceAt(c, m, s) = FilePrice(rows, rows[k].desc, s)

LEMMA PricedAll ==
  ASSUME NEW rows, NEW d, NEW w, NEW t, IsFile(rows), Differ(rows), CatTyped(d), CatTyped(w),
         Exact(rows, d, w, t), t.step = "row", t.row > Len(rows)
  PROVE  LastWord(rows, Flushed(w, t.pending), t.report.unresolved)
<1> DEFINE S == Served(rows, d)
           N == NewRows(rows, d.mats)
<1>1. DOMAIN rows = 1 .. Len(rows) /\ Len(rows) \in Nat /\ S \subseteq DOMAIN rows /\ N \subseteq S
  BY DEF IsFile, Served, NewRows
<1>2. Bound(t) = t.row /\ t.row \in Nat /\ \A k \in DOMAIN rows : k < t.row
  BY <1>1 DEF Bound, Exact, ExactTarget
<1>3. ExactMats(rows, d, w, t.row)
  BY <1>2 DEF Exact
<1>4. PICK f : f = Flushed(w, t.pending)
  OBVIOUS
<1>5. CatTyped(f) /\ f.mats = w.mats
  BY <1>4, FlushedCat
<1>6. f.mats \in Seq(Material)
  BY <1>5, CatParts
<1>7. ASSUME NEW k \in DOMAIN rows, NEW i \in 1 .. Len(w.mats), NameOf(w.mats[i].name) = NameOf(rows[k].desc)
      PROVE  k \in S /\ i <= Place(rows, d, k)
  <2>1. CASE i \in 1 .. Len(d.mats)
    <3>1. NameOf(d.mats[i].name) = NameOf(rows[k].desc)
      BY <1>3, <1>7, <2>1 DEF ExactMats
    <3>2. Base(rows, d, k) # 0 /\ i <= Base(rows, d, k) /\ k \in S
      BY <2>1, <3>1, Placing
    <3> QED BY <3>2 DEF Place
  <2>2. CASE i \notin 1 .. Len(d.mats)
    <3>1. PICK j \in N : i = Place(rows, d, j)
      BY <1>3, <2>2 DEF ExactMats
    <3>2. w.mats[i] = [name |-> rows[j].desc, number |-> Number(rows, d, j)]
      BY <1>1, <1>2, <1>3, <3>1 DEF ExactMats
    <3>3. j = k
      BY <1>1, <1>7, <3>1, <3>2 DEF Differ
    <3>4. i <= Place(rows, d, k) /\ k \in S
      BY <1>1, <3>1, <3>3
    <3> QED BY <3>4
  <2> QED BY <2>1, <2>2
<1>8. ASSUME NEW k \in S
      PROVE  Place(rows, d, k) \in 1 .. Len(w.mats) /\ NameOf(w.mats[Place(rows, d, k)].name) = NameOf(rows[k].desc)
  <2>1. Place(rows, d, k) \in 1 .. Len(w.mats)
    BY <1>1, <1>2, <1>3, PlaceInUse
  <2>2. CASE Base(rows, d, k) # 0
    <3>1. Place(rows, d, k) = Base(rows, d, k) /\ Place(rows, d, k) \in 1 .. Len(d.mats)
          /\ NameOf(d.mats[Base(rows, d, k)].name) = NameOf(rows[k].desc)
      BY <1>1, <2>2, Placing
    <3> QED BY <1>3, <2>1, <3>1 DEF ExactMats
  <2>3. CASE Base(rows, d, k) = 0
    <3>1. k \in N
      BY <2>3, Placing
    <3>2. w.mats[Place(rows, d, k)] = [name |-> rows[k].desc, number |-> Number(rows, d, k)]
      BY <1>1, <1>2, <1>3, <3>1 DEF ExactMats
    <3> QED BY <2>1, <3>2
  <2> QED BY <2>2, <2>3
<1>9. ASSUME NEW k \in DOMAIN rows
      PROVE  /\ Match(f.mats, rows[k].desc) \in 0 .. Len(w.mats)
             /\ Match(f.mats, rows[k].desc) # 0 =>
                  NameOf(w.mats[Match(f.mats, rows[k].desc)].name) = NameOf(rows[k].desc)
             /\ \A i \in 1 .. Len(w.mats) : NameOf(w.mats[i].name) = NameOf(rows[k].desc) =>
                  Match(f.mats, rows[k].desc) # 0 /\ i <= Match(f.mats, rows[k].desc)
  BY <1>5, <1>6, MatchFound
<1>10. Len(w.mats) \in Nat
  BY CatParts
<1> SUFFICES ASSUME NEW k \in DOMAIN rows
             PROVE  \/ k \in t.report.unresolved /\ Match(f.mats, rows[k].desc) = 0
                    \/ /\ Match(f.mats, rows[k].desc) # 0
                       /\ \A s \in Columns : PriceAt(f, Match(f.mats, rows[k].desc), s) = FilePrice(rows, rows[k].desc, s)
  BY <1>4 DEF LastWord
<1>11. PICK m : m = Match(f.mats, rows[k].desc)
  OBVIOUS
<1>12. CASE k \in S
  <2>1. Place(rows, d, k) \in 1 .. Len(w.mats) /\ NameOf(w.mats[Place(rows, d, k)].name) = NameOf(rows[k].desc)
    BY <1>8, <1>12
  <2>2. m # 0 /\ Place(rows, d, k) <= m
    BY <1>9, <1>11, <2>1
  <2>3. m \in 1 .. Len(w.mats) /\ NameOf(w.mats[m].name) = NameOf(rows[k].desc)
    BY <1>9, <1>10, <1>11, <2>2
  <2>4. m <= Place(rows, d, k)
    BY <1>7, <2>3
  <2>5. m = Place(rows, d, k)
    BY <1>10, <2>1, <2>2, <2>3, <2>4
  <2>6. ASSUME NEW s \in Columns PROVE PriceAt(f, m, s) = FilePrice(rows, rows[k].desc, s)
    <3>1. ExactPrice(rows, d, w, t, k, s)
      BY <1>2, <1>12 DEF Exact, ExactPrices
    <3>2. Done(t, k, s)
      BY <1>2 DEF Done
    <3>3. After(w, t.pending, m, s) = FilePrice(rows, rows[k].desc, s)
      BY <2>5, <3>1, <3>2 DEF ExactPrice, File
    <3> QED BY <1>4, <2>3, <3>3, FlushExact
  <2> QED BY <1>11, <2>2, <2>6
<1>13. CASE k \notin S
  <2>1. m = 0
    BY <1>7, <1>9, <1>10, <1>11, <1>13
  <2>2. k \in t.report.unresolved
    BY <1>2, <1>13 DEF Exact, ExactReport
  <2> QED BY <1>11, <2>1, <2>2
<1> QED BY <1>12, <1>13

-----------------------------------------------------------------------------
(* The inductive invariant of the undisturbed synchronisation.             *)
(* While version_price is at work: t is where the script was at the look.  *)
Writing(rows, d, w, x, u, t) ==
  LET s   == x.column
      old == PriceAt(w, t.target, s)
      new == File(rows, t.row, s)
      r   == t.report
  IN /\ t.step = "cells" /\ s \in t.todo /\ s \in Columns /\ Exact(rows, d, w, t)
     /\ Case(old, new) \in {"update", "create"}
     /\ Has(u, "cells", t.row, t.todo \ {s}, t.target, t.seen,
            IF x.read THEN Dated(w, t.pending, t.target, s) ELSE t.pending, u.held,
            Report(r.changes \cup {Change(w.mats[t.target].number, s, old, new)},
                   r.materials, r.unresolved, r.suppliers))

Tracked(rows, d, w, x, u) ==
  /\ x = NULL => Exact(rows, d, w, u)
  /\ x # NULL => \E t : Writing(rows, d, w, x, u, t)

Underway ==
  sync.step \in {"row", "cells"} =>
    db \in Bases /\ predicted = DryRun(Rows, db) /\ Tracked(Rows, db, work, now, sync)

Faithful ==
  outside = 0 /\ Distinct =>
    /\ Underway
    /\ sync.step = "done" => sync.report = predicted /\ LastWord(Rows, db, sync.report.unresolved)

LEMMA FaithfulStart == Wellformed /\ Start => Faithful'
<1> SUFFICES ASSUME Wellformed, Start, Distinct' PROVE Faithful'
  BY DEF Faithful
<1>1. /\ sync = Idle /\ db \in Bases /\ CatTyped(db) /\ IsFile(Rows) /\ Rows' = Rows
      /\ work' = Resolved(db) /\ db' = db /\ predicted' = DryRun(Rows, db) /\ now' = NULL
  BY RowsFile, IdleIsProgress DEF Wellformed, Catalogues, Start, Resolved, Rows, Busy
<1>2. Differ(Rows)
  BY <1>1 DEF Distinct, Differ
<1>3. PICK t, w : t = sync' /\ w = work'
  OBVIOUS
<1>4. Has(t, "row", 1, {}, 0, Len(db.mats), {}, {}, Report({}, {}, {}, Columns \ db.known))
  BY <1>1, <1>3, StartFields
<1>5. w.mats = db.mats /\ w.next = db.next /\ w.active = db.active
  <2>1. Has(t, "row", 1, {}, 0, Len(db.mats), {}, {}, t.report)
    BY <1>4 DEF Has
  <2> QED BY <1>1, <1>3, <2>1, BaseIsCatalogue, LinkedStart
<1>6. Exact(Rows, db, w, t)
  BY <1>1, <1>2, <1>4, <1>5, ExactStart
<1>7. t.step = "row"
  BY <1>4 DEF Has
<1> QED BY <1>1, <1>3, <1>6, <1>7 DEF Faithful, Underway, Tracked

(* What every step of the script has before it.                            *)
LEMMA Midway ==
  ASSUME Wellformed, Faithful, sync.step \in {"row", "cells"}, now = NULL, outside = 0, Distinct
  PROVE  /\ IsFile(Rows) /\ Differ(Rows) /\ CatTyped(db) /\ CatTyped(work) /\ db \in Bases
         /\ predicted = DryRun(Rows, db) /\ Exact(Rows, db, work, sync) /\ Progress(sync)
         /\ \A k \in DOMAIN Rows : Match(SubSeq(work.mats, 1, sync.seen), Rows[k].desc) = Base(Rows, db, k)
<1>1. /\ IsFile(Rows) /\ Differ(Rows) /\ CatTyped(db) /\ CatTyped(work) /\ db \in Bases
      /\ predicted = DryRun(Rows, db) /\ Exact(Rows, db, work, sync) /\ Progress(sync)
      /\ Linked(Rows, db, work, sync, newer, outside)
  BY RowsFile DEF Wellformed, Catalogues, Faithful, Underway, Tracked, Distinct, Differ
<1>2. sync.seen = Len(db.mats)
  BY <1>1 DEF Exact, ExactTarget
<1>3. (\A i \in 1 .. Len(db.mats) : work.mats[i] = db.mats[i]) /\ Len(db.mats) <= Len(work.mats)
  BY <1>1 DEF Linked, Grows
<1>4. ASSUME NEW k \in DOMAIN Rows
      PROVE  Match(SubSeq(work.mats, 1, sync.seen), Rows[k].desc) = Base(Rows, db, k)
  <2>1. PICK n : n = sync.seen
    OBVIOUS
  <2>2. Match(SubSeq(work.mats, 1, n), Rows[k].desc) = Base(Rows, db, k)
    BY <1>1, <1>2, <1>3, <2>1, FoundIsBase
  <2> QED BY <2>1, <2>2
<1> QED BY <1>1, <1>4

(* And what version_price has before it.                                   *)
LEMMA AtWriting ==
  ASSUME Wellformed, Faithful, now # NULL, outside = 0, Distinct
  PROVE  /\ IsFile(Rows) /\ Differ(Rows) /\ CatTyped(db) /\ CatTyped(work) /\ db \in Bases
         /\ predicted = DryRun(Rows, db) /\ \E t : Writing(Rows, db, work, now, sync, t)
<1>1. sync.step = "cells"
  BY DEF Wellformed, Busy
<1> QED BY <1>1, RowsFile DEF Wellformed, Catalogues, Faithful, Underway, Tracked, Distinct, Differ

(* A step that leaves the file, the catalogue and the prediction alone.    *)
LEMMA FaithfulStep ==
  ASSUME UNCHANGED <<sheet, db, predicted, outside>>,
         outside = 0 /\ Distinct =>
           /\ db \in Bases /\ predicted = DryRun(Rows, db) /\ Tracked(Rows, db, work', now', sync')
           /\ sync'.step \in {"row", "cells"}
  PROVE  Faithful'
<1>1. Rows' = Rows /\ (Distinct' <=> Distinct)
  BY DEF Rows, Distinct
<1> QED BY <1>1 DEF Faithful, Underway

LEMMA OnwardSteps ==
  ASSUME NEW t, Progress(t), t.step = "cells"
  PROVE  Onward(t).step \in {"row", "cells"}
BY OnwardFields DEF Has

LEMMA FaithfulMatched == Wellformed /\ Faithful /\ RowMatched => Faithful'
<1> SUFFICES ASSUME Wellformed, Faithful, RowMatched PROVE Faithful'
  OBVIOUS
<1>1. /\ UNCHANGED <<sheet, db, work, predicted, outside>> /\ Sought # 0
      /\ sync.step = "row" /\ sync.row <= Len(Rows) /\ Progress(sync) /\ now = NULL /\ now' = NULL
  BY DEF RowMatched, Wellformed, Sought, Busy
<1>2. PICK t : /\ sync' = Onward(t) /\ Progress(t)
               /\ Has(t, "cells", sync.row, Columns, Sought, sync.seen, sync.pending, sync.held, sync.report)
  BY <1>1, MatchedFields
<1>3. ASSUME outside = 0, Distinct
      PROVE  /\ db \in Bases /\ predicted = DryRun(Rows, db) /\ Exact(Rows, db, work', sync')
             /\ sync'.step \in {"row", "cells"}
  <2>1. /\ IsFile(Rows) /\ Differ(Rows) /\ CatTyped(db) /\ Exact(Rows, db, work, sync)
        /\ db \in Bases /\ predicted = DryRun(Rows, db) /\ sync.row \in DOMAIN Rows
        /\ Sought = Base(Rows, db, sync.row)
    BY <1>1, <1>3, AtRow, Midway DEF Sought
  <2>2. Exact(Rows, db, work, t) /\ t.step = "cells"
    BY <1>1, <1>2, <2>1, ExactMatched DEF Has
  <2>3. Exact(Rows, db, work, sync')
    BY <1>2, <2>1, <2>2, ExactOnward
  <2> QED BY <1>1, <1>2, <2>1, <2>2, <2>3, OnwardSteps
<1> QED BY <1>1, <1>3, FaithfulStep DEF Tracked

LEMMA FaithfulUnresolved == Wellformed /\ Faithful /\ RowUnresolved => Faithful'
<1> SUFFICES ASSUME Wellformed, Faithful, RowUnresolved PROVE Faithful'
  OBVIOUS
<1>1. /\ UNCHANGED <<sheet, db, work, predicted, outside>> /\ Sought = 0 /\ Rows[sync.row].group # CAT
      /\ sync.step = "row" /\ sync.row <= Len(Rows) /\ Progress(sync) /\ now = NULL /\ now' = NULL
  BY DEF RowUnresolved, Wellformed, Sought, Busy
<1>2. PICK t : /\ t = sync'
               /\ LET r == sync.report
                  IN Has(t, "row", sync.row + 1, sync.todo, sync.target, sync.seen, sync.pending, sync.held,
                         Report(r.changes, r.materials, r.unresolved \cup {sync.row}, r.suppliers))
  BY <1>1, UnresolvedFields
<1>3. ASSUME outside = 0, Distinct
      PROVE  /\ db \in Bases /\ predicted = DryRun(Rows, db) /\ Exact(Rows, db, work', sync')
             /\ sync'.step \in {"row", "cells"}
  <2>1. /\ IsFile(Rows) /\ Differ(Rows) /\ CatTyped(db) /\ Exact(Rows, db, work, sync)
        /\ db \in Bases /\ predicted = DryRun(Rows, db) /\ sync.row \in DOMAIN Rows
        /\ Sought = Base(Rows, db, sync.row)
    BY <1>1, <1>3, AtRow, Midway DEF Sought
  <2>2. Exact(Rows, db, work, t) /\ t.step = "row"
    BY <1>1, <1>2, <2>1, ExactUnresolved DEF Has
  <2> QED BY <1>1, <1>2, <2>1, <2>2
<1> QED BY <1>1, <1>3, FaithfulStep DEF Tracked

LEMMA FaithfulCreates == Wellformed /\ Faithful /\ RowCreates => Faithful'
<1> SUFFICES ASSUME Wellformed, Faithful, RowCreates PROVE Faithful'
  OBVIOUS
<1>1. /\ UNCHANGED <<sheet, db, predicted, outside>> /\ Sought = 0 /\ Rows[sync.row].group = CAT
      /\ work' = WithMaterial(Flushed(work, sync.pending), Rows[sync.row].desc)
      /\ sync.step = "row" /\ sync.row <= Len(Rows) /\ Progress(sync) /\ now = NULL /\ now' = NULL
  BY DEF RowCreates, Wellformed, Sought, Busy
<1>2. PICK t, h, w : /\ sync' = Onward(t) /\ Progress(t) /\ w = work'
                     /\ LET r == sync.report
                        IN Has(t, "cells", sync.row, Columns, Len(w.mats), sync.seen, {}, h,
                               Report(r.changes, r.materials \cup {work.next}, r.unresolved, r.suppliers))
  <2>1. PICK h : h = sync.held \cup {CAT} \cup Locked(work, sync.pending)
    OBVIOUS
  <2> QED BY <1>1, <2>1, CreatesFields
<1>3. ASSUME outside = 0, Distinct
      PROVE  /\ db \in Bases /\ predicted = DryRun(Rows, db) /\ Exact(Rows, db, work', sync')
             /\ sync'.step \in {"row", "cells"}
  <2>1. /\ IsFile(Rows) /\ Differ(Rows) /\ CatTyped(db) /\ CatTyped(work) /\ Exact(Rows, db, work, sync)
        /\ db \in Bases /\ predicted = DryRun(Rows, db) /\ sync.row \in DOMAIN Rows
        /\ Sought = Base(Rows, db, sync.row)
    BY <1>1, <1>3, AtRow, Midway DEF Sought
  <2>2. w = WithMaterial(Flushed(work, sync.pending), Rows[sync.row].desc)
    BY <1>1, <1>2
  <2>3. Exact(Rows, db, w, t) /\ t.step = "cells"
    BY <1>1, <1>2, <2>1, <2>2, ExactCreates DEF Has
  <2>4. Exact(Rows, db, w, sync')
    BY <1>2, <2>1, <2>3, ExactOnward
  <2> QED BY <1>1, <1>2, <2>1, <2>3, <2>4, OnwardSteps
<1> QED BY <1>1, <1>3, FaithfulStep DEF Tracked

LEMMA FaithfulCell == \A s \in Columns : Wellformed /\ Faithful /\ Cell(s) => Faithful'
<1> SUFFICES ASSUME Wellformed, Faithful, NEW s \in Columns, Cell(s) PROVE Faithful'
  OBVIOUS
<1>1. PICK old, new, t, x : /\ old = OldPrice(s) /\ new = NewPrice(s) /\ t = Looked(s)
                            /\ x = [column |-> s, read |-> FALSE]
  OBVIOUS
<1>2. /\ UNCHANGED <<sheet, db, work, predicted, outside>>
      /\ sync.step = "cells" /\ now = NULL /\ s \in sync.todo /\ Progress(sync)
      /\ Asked(s) = Case(old, new)
      /\ \/ Asked(s) \in {"update", "create"} /\ sync' = t /\ now' = x
         \/ Asked(s) \in {"close", "none"} /\ sync' = Onward(t) /\ now' = NULL
  BY <1>1 DEF Cell, Asked, OldPrice, NewPrice, Wellformed
<1>3. /\ Progress(t)
      /\ Has(t, "cells", sync.row, sync.todo \ {s}, sync.target, sync.seen,
             IF Case(old, new) = "close" THEN Dated(work, sync.pending, sync.target, s) ELSE sync.pending, sync.held,
             Report(IF Case(old, new) = "none" THEN sync.report.changes
                    ELSE sync.report.changes \cup {Change(work.mats[sync.target].number, s, old, new)},
                    sync.report.materials, sync.report.unresolved, sync.report.suppliers))
  BY <1>1, <1>2, CellFields
<1>4. old = PriceAt(work, sync.target, s) /\ new = File(Rows, sync.row, s)
  BY <1>1 DEF OldPrice, NewPrice, File
<1>5. t.step = "cells"
  BY <1>3 DEF Has
<1>6. ASSUME outside = 0, Distinct
      PROVE  /\ db \in Bases /\ predicted = DryRun(Rows, db) /\ Tracked(Rows, db, work, now', sync')
             /\ sync'.step \in {"row", "cells"}
  <2>1. /\ IsFile(Rows) /\ Differ(Rows) /\ CatTyped(db) /\ CatTyped(work) /\ Exact(Rows, db, work, sync)
        /\ db \in Bases /\ predicted = DryRun(Rows, db)
    BY <1>2, <1>6, Midway
  <2>2. CASE Asked(s) \in {"update", "create"} /\ sync' = t /\ now' = x
    <3>1. x \in Write /\ x # NULL /\ x.column = s /\ ~x.read
      <4>1. x \in Write /\ x.column = s
        BY <1>1 DEF Write
      <4>2. NULL \notin Write
        BY SyncAssumption
      <4>3. x.read = FALSE
        BY <1>1
      <4> QED BY <4>1, <4>2, <4>3
    <3>2. Case(old, new) # "close" /\ Case(old, new) # "none"
      BY <1>2, <2>2
    <3>3. Has(t, "cells", sync.row, sync.todo \ {s}, sync.target, sync.seen, sync.pending, t.held,
              Report(sync.report.changes \cup {Change(work.mats[sync.target].number, s, old, new)},
                     sync.report.materials, sync.report.unresolved, sync.report.suppliers))
      BY <1>3, <3>2 DEF Has
    <3>4. Writing(Rows, db, work, x, t, sync)
      BY <1>2, <1>4, <2>1, <2>2, <3>1, <3>3 DEF Writing
    <3> QED BY <1>5, <2>1, <2>2, <3>1, <3>4 DEF Tracked
  <2>3. CASE Asked(s) \in {"close", "none"} /\ sync' = Onward(t) /\ now' = NULL
    <3>1. Case(old, new) \notin {"update", "create"}
      BY <1>2, <2>3
    <3>2. Case(old, new) = "close" => /\ Dated(work, sync.pending, sync.target, s)
                                            = sync.pending \cup {<<sync.target, s, work.active[sync.target][s].by>>}
      <4>1. Case(old, new) = "close" => old # NULL
        BY DEF Case
      <4> QED BY <1>4, <4>1, DatedIs DEF PriceAt
    <3>3. PICK h, w : h = sync.held /\ w = work
      OBVIOUS
    <3>4. w = IF Case(old, new) \in {"update", "create"}
              THEN Priced(Flushed(work, sync.pending), sync.target, s, [price |-> new, by |-> 0]) ELSE work
      BY <3>1, <3>3
    <3>5. Has(t, "cells", sync.row, sync.todo \ {s}, sync.target, sync.seen,
              IF Case(old, new) = "close" THEN sync.pending \cup {<<sync.target, s, work.active[sync.target][s].by>>}
              ELSE IF Case(old, new) \in {"update", "create"} THEN {} ELSE sync.pending, h,
              Report(IF Case(old, new) = "none" THEN sync.report.changes
                     ELSE sync.report.changes \cup {Change(work.mats[sync.target].number, s, old, new)},
                     sync.report.materials, sync.report.unresolved, sync.report.suppliers))
      BY <1>3, <3>1, <3>2, <3>3
    <3>6. Treated(Rows, work, sync, s, h, old, new, w, t)
      BY <1>2, <1>4, <3>4, <3>5 DEF Treated
    <3>7. Exact(Rows, db, work, t)
      BY <2>1, <3>3, <3>6, ExactCell
    <3>8. Exact(Rows, db, work, Onward(t))
      BY <1>3, <1>5, <2>1, <3>7, ExactOnward
    <3> QED BY <1>3, <1>5, <2>1, <2>3, <3>8, OnwardSteps DEF Tracked
  <2> QED BY <1>2, <2>2, <2>3
<1> QED BY <1>2, <1>6, FaithfulStep

LEMMA FaithfulRead == Wellformed /\ Faithful /\ ReadActive => Faithful'
<1> SUFFICES ASSUME Wellformed, Faithful, ReadActive PROVE Faithful'
  OBVIOUS
<1>1. PICK x : x = [now EXCEPT !.read = TRUE]
  OBVIOUS
<1>2. /\ UNCHANGED <<sheet, db, work, predicted, outside>> /\ now # NULL /\ ~now.read /\ now' = x
  BY <1>1 DEF ReadActive
<1>3. PICK u : /\ u = sync'
               /\ Has(u, sync.step, sync.row, sync.todo, sync.target, sync.seen,
                      Dated(work, sync.pending, sync.target, now.column), sync.held, sync.report)
  <2>1. Progress(sync)
    BY DEF Wellformed
  <2> QED BY <2>1, ReadFields
<1>4. ASSUME outside = 0, Distinct
      PROVE  /\ db \in Bases /\ predicted = DryRun(Rows, db) /\ Tracked(Rows, db, work, x, u)
             /\ u.step \in {"row", "cells"}
  <2>1. db \in Bases /\ predicted = DryRun(Rows, db)
    BY <1>2, <1>4, AtWriting
  <2>2. PICK t : Writing(Rows, db, work, now, sync, t)
    BY <1>2, <1>4, AtWriting
  <2>3. sync.step = "cells" /\ sync.pending = t.pending /\ sync.target = t.target
    BY <1>2, <2>2 DEF Writing, Has
  <2>4. x # NULL /\ x.column = now.column /\ x.read = TRUE
    BY <1>1, <1>2, SyncAssumption DEF Wellformed, Busy, Write
  <2>5. Writing(Rows, db, work, x, u, t)
    BY <1>2, <1>3, <2>2, <2>3, <2>4 DEF Writing, Has
  <2> QED BY <1>3, <2>1, <2>3, <2>4, <2>5 DEF Tracked, Has
<1> QED BY <1>2, <1>3, <1>4, FaithfulStep

(* The row read anew is the one the look saw, whose place the new one takes*)
LEMMA PricedDated ==
  ASSUME NEW w, CatTyped(w), NEW p, NEW q, NEW m \in 1 .. Len(w.mats), NEW s \in Columns, NEW row,
         q = Dated(w, p, m, s)
  PROVE  Priced(Flushed(w, q), m, s, row) = Priced(Flushed(w, p), m, s, row)
<1> DEFINE To(r) == [k \in DOMAIN w.active |-> [v \in Columns |->
                       IF w.active[k][v] # NULL /\ <<k, v, w.active[k][v].by>> \in r THEN NULL ELSE w.active[k][v]]]
           Set(f) == [f EXCEPT ![m] = [f[m] EXCEPT ![s] = row]]
<1>1. DOMAIN w.active = 1 .. Len(w.mats) /\ w = [mats |-> w.mats, active |-> w.active, next |-> w.next, known |-> w.known]
  BY CatParts
<1>2. \A k \in DOMAIN w.active, v \in Columns : k # m \/ v # s => To(q)[k][v] = To(p)[k][v]
  <2> SUFFICES ASSUME NEW k \in DOMAIN w.active, NEW v \in Columns, k # m \/ v # s
               PROVE  To(q)[k][v] = To(p)[k][v]
    OBVIOUS
  <2>1. PICK b, e : b = w.active[m][s].by /\ e = w.active[k][v].by
    OBVIOUS
  <2>2. q = p \/ q = p \cup {<<m, s, b>>}
    BY <2>1, DatedIs
  <2>3. <<k, v, e>> \in q <=> <<k, v, e>> \in p
    BY <2>2
  <2> QED BY <2>1, <2>3
<1>3. Set(To(q)) = Set(To(p))
  <2>1. ASSUME NEW r PROVE Set(To(r)) = [k \in DOMAIN w.active |-> [v \in Columns |->
                                           IF k = m /\ v = s THEN row ELSE To(r)[k][v]]]
    <3>1. PICK f : f = To(r)
      OBVIOUS
    <3>2. DOMAIN f = DOMAIN w.active /\ \A k \in DOMAIN w.active : DOMAIN f[k] = Columns /\ f[k] = [v \in Columns |-> f[k][v]]
      BY <3>1
    <3> HIDE DEF To
    <3>3. Set(f) = [k \in DOMAIN w.active |-> [v \in Columns |-> IF k = m /\ v = s THEN row ELSE f[k][v]]]
      BY <1>1, <3>2
    <3> QED BY <3>1, <3>3
  <2>2. \A k \in DOMAIN w.active, v \in Columns :
          (IF k = m /\ v = s THEN row ELSE To(q)[k][v]) = (IF k = m /\ v = s THEN row ELSE To(p)[k][v])
    BY <1>2
  <2> HIDE DEF To, Set
  <2> QED BY <2>1, <2>2
<1>4. ASSUME NEW r PROVE Priced(Flushed(w, r), m, s, row) = [mats |-> w.mats, active |-> Set(To(r)), next |-> w.next, known |-> w.known]
  <2>1. PICK f : f = To(r)
    OBVIOUS
  <2>2. Flushed(w, r) = [w EXCEPT !.active = f]
    BY <2>1 DEF Flushed
  <2>3. [w EXCEPT !.active = f] = [mats |-> w.mats, active |-> f, next |-> w.next, known |-> w.known]
    BY <1>1
  <2>4. PICK c : c = Flushed(w, r)
    OBVIOUS
  <2>5. c = [mats |-> w.mats, active |-> f, next |-> w.next, known |-> w.known]
    BY <2>2, <2>3, <2>4
  <2>6. Priced(c, m, s, row) = [mats |-> w.mats, active |-> Set(f), next |-> w.next, known |-> w.known]
    BY <2>5 DEF Priced
  <2> QED BY <2>1, <2>4, <2>6
<1> HIDE DEF To, Set
<1> QED BY <1>3, <1>4

LEMMA FaithfulWrite == Wellformed /\ Faithful /\ WritePrice => Faithful'
<1> SUFFICES ASSUME Wellformed, Faithful, WritePrice PROVE Faithful'
  OBVIOUS
<1>1. PICK s, w, h : /\ s = now.column /\ w = work'
                     /\ h = sync.held \cup {<<sync.target, s>>} \cup Locked(work, sync.pending)
  OBVIOUS
<1>2. /\ UNCHANGED <<sheet, db, predicted, outside>> /\ now # NULL /\ now.read /\ now' = NULL
      /\ w = Priced(Flushed(work, sync.pending), sync.target, s, [price |-> NewPrice(s), by |-> 0])
  BY <1>1 DEF WritePrice, Priced
<1>3. PICK u : /\ sync' = Onward(u) /\ Progress(u)
               /\ Has(u, sync.step, sync.row, sync.todo, sync.target, sync.seen, {}, h, sync.report)
  <2>1. Progress(sync)
    BY DEF Wellformed
  <2> QED BY <1>1, <2>1, WriteFields
<1>4. ASSUME outside = 0, Distinct
      PROVE  /\ db \in Bases /\ predicted = DryRun(Rows, db) /\ Tracked(Rows, db, w, now', sync')
             /\ sync'.step \in {"row", "cells"}
  <2>1. /\ db \in Bases /\ predicted = DryRun(Rows, db) /\ IsFile(Rows) /\ Differ(Rows)
        /\ CatTyped(db) /\ CatTyped(work)
    BY <1>2, <1>4, AtWriting
  <2>2. PICK t : Writing(Rows, db, work, now, sync, t)
    BY <1>2, <1>4, AtWriting
  <2>3. PICK old, new, row : /\ old = PriceAt(work, t.target, s) /\ new = File(Rows, t.row, s)
                             /\ row = [price |-> new, by |-> 0]
    OBVIOUS
  <2>4. /\ t.step = "cells" /\ s \in t.todo /\ s \in Columns /\ Exact(Rows, db, work, t)
        /\ Case(old, new) \in {"update", "create"}
        /\ Has(sync, "cells", t.row, t.todo \ {s}, t.target, t.seen, Dated(work, t.pending, t.target, s), sync.held,
               Report(t.report.changes \cup {Change(work.mats[t.target].number, s, old, new)},
                      t.report.materials, t.report.unresolved, t.report.suppliers))
    BY <1>1, <1>2, <2>2, <2>3 DEF Writing
  <2>5. Has(u, "cells", t.row, t.todo \ {s}, t.target, t.seen, {}, h,
            Report(t.report.changes \cup {Change(work.mats[t.target].number, s, old, new)},
                   t.report.materials, t.report.unresolved, t.report.suppliers))
    BY <1>3, <2>4 DEF Has
  <2>6. /\ sync.target = t.target /\ sync.row = t.row /\ sync.pending = Dated(work, t.pending, t.target, s)
        /\ NewPrice(s) = new
    BY <2>3, <2>4 DEF Has, NewPrice, File
  <2>7. t.target \in 1 .. Len(work.mats)
    BY <2>1, <2>4, CellSees DEF Sees
  <2>8. w = Priced(Flushed(work, t.pending), t.target, s, row)
    <3>1. PICK q : q = sync.pending
      OBVIOUS
    <3>2. w = Priced(Flushed(work, q), t.target, s, row)
      BY <1>2, <2>3, <2>6, <3>1
    <3> QED BY <2>1, <2>4, <2>6, <2>7, <3>1, <3>2, PricedDated
  <2>9. Case(old, new) # "close" /\ Case(old, new) # "none"
    BY <2>4
  <2>10. Treated(Rows, work, t, s, h, old, new, w, u)
    BY <2>3, <2>4, <2>5, <2>8, <2>9 DEF Treated
  <2>11. Exact(Rows, db, w, u)
    BY <2>1, <2>4, <2>10, ExactCell
  <2>12. u.step = "cells"
    BY <2>5 DEF Has
  <2>13. Exact(Rows, db, w, sync')
    BY <1>3, <2>1, <2>11, <2>12, ExactOnward
  <2> QED BY <1>2, <1>3, <2>1, <2>12, <2>13, OnwardSteps DEF Tracked
<1> QED BY <1>1, <1>2, <1>4, FaithfulStep

LEMMA FaithfulCommit == Wellformed /\ Faithful /\ Commit => Faithful'
<1> SUFFICES ASSUME Wellformed, Faithful, Commit, outside = 0, Distinct
             PROVE  /\ sync'.step = "done" /\ sync'.report = predicted'
                    /\ LastWord(Rows', db', sync'.report.unresolved)
  <2>1. Commit => (outside' = outside /\ Rows' = Rows /\ (Distinct' <=> Distinct))
    BY DEF Commit, Rows, Distinct
  <2> QED BY <2>1 DEF Faithful, Underway
<1>1. /\ sync.step = "row" /\ sync.row > Len(Rows) /\ db' = Flushed(work, sync.pending)
      /\ UNCHANGED <<sheet, predicted>> /\ Rows' = Rows
      /\ sync' = [sync EXCEPT !.step = "done", !.pending = {}, !.held = {}]
  BY DEF Commit, Rows
<1>2. /\ IsFile(Rows) /\ Differ(Rows) /\ CatTyped(db) /\ CatTyped(work) /\ db \in Bases
      /\ predicted = DryRun(Rows, db) /\ Exact(Rows, db, work, sync) /\ Progress(sync)
  <2>1. now = NULL
    BY <1>1 DEF Wellformed, Busy
  <2> QED BY <1>1, <2>1, Midway
<1>3. sync'.step = "done" /\ sync'.report = sync.report
  BY <1>1, <1>2 DEF Progress
<1>4. sync.report = DryRun(Rows, db)
  BY <1>1, <1>2, ToldAll
<1>5. LastWord(Rows, Flushed(work, sync.pending), sync.report.unresolved)
  BY <1>1, <1>2, PricedAll
<1> QED BY <1>1, <1>2, <1>3, <1>4, <1>5

LEMMA FaithfulElse == Wellformed /\ Faithful /\ (Abort \/ OutsidePrice \/ OutsideMaterial \/ UNCHANGED vars) => Faithful'
<1> SUFFICES ASSUME Wellformed, Faithful, Abort \/ OutsidePrice \/ OutsideMaterial \/ UNCHANGED vars PROVE Faithful'
  OBVIOUS
<1>1. CASE Abort
  <2>1. sync' = [Idle EXCEPT !.step = "failed"]
    BY <1>1 DEF Abort
  <2>2. sync'.step = "failed"
    BY <2>1 DEF Idle
  <2> QED BY <2>2 DEF Faithful, Underway
<1>2. CASE OutsidePrice \/ OutsideMaterial
  <2>1. outside' # 0
    BY <1>2 DEF OutsidePrice, OutsideMaterial, Wellformed
  <2> QED BY <2>1 DEF Faithful
<1>3. CASE UNCHANGED vars
  BY <1>3 DEF vars, Faithful, Underway, Distinct, Rows
<1> QED BY <1>1, <1>2, <1>3

(* Faithful holds in every state.                                          *)
THEOREM StaysFaithful == Spec => []Faithful
<1>1. Init => Faithful
  BY IdleIsProgress DEF Init, Faithful, Underway
<1>2. Wellformed /\ Faithful /\ [Next]_vars => Faithful'
  BY FaithfulStart, FaithfulMatched, FaithfulUnresolved, FaithfulCreates, FaithfulCell, FaithfulRead,
     FaithfulWrite, FaithfulCommit, FaithfulElse DEF Next
<1> QED BY <1>1, <1>2, StaysWellformed, PTL DEF Spec

(* An undisturbed --apply of a file whose descriptions differ by more than *)
(* white space reports what the dry run before it predicted: the same      *)
(* changes, SKU numbers of new materials, unresolved rows and suppliers;   *)
(* and no two materials ever share a number.                               *)
THEOREM PredictionCorrect == Spec => []AppliedAsPredicted
<1>1. NumbersUnique /\ Faithful => AppliedAsPredicted
  BY DEF AppliedAsPredicted, Faithful, Undisturbed
<1> QED BY <1>1, NumbersStayUnique, StaysFaithful, PTL

(* After such an --apply every row is either reported unresolved and has no*)
(* material, or its material has at every column's supplier the file's     *)
(* price, none where the file has none.                                    *)
THEOREM LastWordCorrect == Spec => []FileHasLastWord
<1>1. Faithful => FileHasLastWord
  BY DEF FileHasLastWord, Faithful, Undisturbed, LastWord
<1> QED BY <1>1, StaysFaithful, PTL

=============================================================================
