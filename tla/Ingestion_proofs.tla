--------------------------- MODULE Ingestion_proofs ---------------------------
(***************************************************************************)
(* TLAPS proofs about the two models in which a document is read and       *)
(* matched.  Ingestion (a price list), for any number of reviewers, imports,*)
(* files and materials.  The upload: every printed line is matched once    *)
(* and reaches the review, and entries are flagged as duplicates exactly   *)
(* when they propose the same material.  The review: an import is approved *)
(* when and only when its entries are decided, and an applied entry names  *)
(* a material the import has priced and taught.  Responses (a reply to an  *)
(* order), for any number of items, aliases, link requests and lines, and  *)
(* any amounts: serial links leave one alias for a spelling, the aliases   *)
(* match exactly the lines they single out, and a silent price adds up.    *)
(***************************************************************************)
EXTENDS Ingestion, Responses, FiniteSetTheorems, TLAPS

(* Numbers, functions built step by step, sequences of lines.              *)

(* A set of naturals has a least element; what holds for every number that *)
(* has it for all smaller ones follows from this.                          *)
LEMMA LeastNat ==
  ASSUME NEW T \in SUBSET Nat, T # {}
  PROVE  \E x \in T : \A y \in T : x <= y
<1> DEFINE I == {0 .. x : x \in T}
<1>1. I \subseteq FiniteSubsetsOf(Nat) /\ I # {}
  <2>1. ASSUME NEW x \in T PROVE 0 .. x \in FiniteSubsetsOf(Nat)
    BY FS_Interval DEF FiniteSubsetsOf
  <2> QED BY <2>1
<1>2. PICK i \in I : \A j \in I : <<j, i>> \notin StrictSubsetOrdering(Nat)
  <2> HIDE DEF I
  <2> QED BY <1>1, FS_StrictSubsetOrderingWellFounded, WFMin
<1>3. PICK x \in T : i = 0 .. x
  OBVIOUS
<1>4. ASSUME NEW y \in T, y < x PROVE FALSE
  <2>1. 0 .. y \subseteq 0 .. x
    BY <1>4
  <2>2. x \in 0 .. x /\ x \notin 0 .. y
    BY <1>4
  <2>3. 0 .. y \in SUBSET Nat /\ 0 .. x \in SUBSET Nat
    OBVIOUS
  <2>4. <<0 .. y, 0 .. x>> \in StrictSubsetOrdering(Nat)
    BY <2>1, <2>2, <2>3 DEF StrictSubsetOrdering
  <2> QED BY <1>2, <1>3, <2>4
<1> QED BY <1>4

(* f starts with c and goes on by D.                                       *)
Follows(f, n, V, c, D) ==
  f \in [0 .. n -> V] /\ f[0] = c /\ \A i \in 1 .. n : f[i] = D[<<i, f[i - 1]>>]

(* A function can be built value by value.                                 *)
LEMMA StepByStep ==
  ASSUME NEW n \in Nat, NEW V, NEW c \in V, NEW D \in [(1 .. n) \X V -> V]
  PROVE  \E f : Follows(f, n, V, c, D)
<1> DEFINE Built(m, f) == f \in [0 .. m -> V] /\ f[0] = c /\ \A i \in 1 .. m : f[i] = D[<<i, f[i - 1]>>]
           bad == {m \in 0 .. n : ~ \E f : Built(m, f)}
<1>1. SUFFICES ASSUME bad # {} PROVE FALSE
  <2>1. n \in 0 .. n OBVIOUS
  <2>2. bad = {} => \E f : Built(n, f) BY <2>1
  <2> QED BY <2>2 DEF Follows
<1>2. PICK m \in bad : \A y \in bad : m <= y
  <2>1. bad \in SUBSET Nat
    OBVIOUS
  <2> HIDE DEF bad
  <2> QED BY <1>1, <2>1, LeastNat
<1>3. m # 0
  <2>1. Built(0, [i \in 0 .. 0 |-> c])
    OBVIOUS
  <2> QED BY <2>1
<1>4. PICK f : Built(m - 1, f)
  <2>1. m - 1 \in 0 .. n /\ ~(m <= m - 1)
    BY <1>2, <1>3
  <2>2. m - 1 \notin bad
    BY <1>2, <2>1
  <2> QED BY <2>1, <2>2
<1>5. PICK g : g = [i \in 0 .. m |-> IF i < m THEN f[i] ELSE D[<<m, f[m - 1]>>]]
  OBVIOUS
<1>6. m \in 1 .. n /\ f[m - 1] \in V
  BY <1>3, <1>4
<1>7. Built(m, g)
  <2>1. D[<<m, f[m - 1]>>] \in V
    BY <1>6
  <2>2. g \in [0 .. m -> V] /\ g[0] = c
    BY <1>4, <1>5, <1>6, <2>1
  <2>3. ASSUME NEW i \in 1 .. m PROVE g[i] = D[<<i, g[i - 1]>>]
    <3>1. g[i - 1] = f[i - 1]
      BY <1>5, <1>6
    <3>2. CASE i < m
      <4>1. i \in 1 .. m - 1 BY <1>6, <3>2
      <4>2. f[i] = D[<<i, f[i - 1]>>] BY <1>4, <4>1
      <4>3. i \in 0 .. m /\ g[i] = f[i] BY <1>5, <3>2
      <4> QED BY <3>1, <4>2, <4>3
    <3>3. CASE i = m
      <4>1. m \in 0 .. m /\ ~(m < m) BY <1>6
      <4>2. g[m] = D[<<m, f[m - 1]>>] BY <1>5, <4>1
      <4> QED BY <3>1, <3>3, <4>2
    <3> QED BY <1>6, <3>2, <3>3
  <2> QED BY <2>2, <2>3
<1> QED BY <1>7

LEMMA AppendSet ==
  ASSUME NEW X, NEW s \in Seq(X), NEW x \in X
  PROVE  Append(s, x) \in Seq(X) /\ ToSet(Append(s, x)) = ToSet(s) \cup {x}
<1>1. /\ DOMAIN Append(s, x) = 1 .. Len(s) + 1 /\ Len(s) \in Nat
      /\ Append(s, x)[Len(s) + 1] = x
      /\ \A i \in 1 .. Len(s) : Append(s, x)[i] = s[i]
      /\ Append(s, x) \in Seq(X) /\ DOMAIN s = 1 .. Len(s)
  OBVIOUS
<1>2. \A i \in 1 .. Len(s) + 1 : i \in 1 .. Len(s) \/ i = Len(s) + 1
  BY <1>1
<1>3. 1 .. Len(s) \subseteq 1 .. Len(s) + 1 /\ Len(s) + 1 \in 1 .. Len(s) + 1
  BY <1>1
<1>4. ASSUME NEW t, t = Append(s, x) PROVE ToSet(t) = ToSet(s) \cup {x}
  <2>1. ASSUME NEW y \in ToSet(t) PROVE y \in ToSet(s) \cup {x}
    BY <1>1, <1>2, <1>4, <2>1 DEF ToSet
  <2>2. ASSUME NEW y \in ToSet(s) \cup {x} PROVE y \in ToSet(t)
    BY <1>1, <1>3, <1>4, <2>2 DEF ToSet
  <2> QED BY <2>1, <2>2
<1> QED BY <1>1, <1>4

(* A scan of a file keeps the lines of the pages it is given, all of them. *)
LEMMA PrintedOnSound ==
  ASSUME NEW X, printed \in Seq(X), NEW p
  PROVE  /\ PrintedOn(p) \in Seq(X)
         /\ ToSet(PrintedOn(p)) = {l \in ToSet(printed) : l.page \in p}
<1> DEFINE n == Len(printed)
           R(f, i) == IF i = 0 THEN <<>>
                      ELSE IF printed[i].page \in p THEN Append(f[i - 1], printed[i]) ELSE f[i - 1]
           Upto(f) == f = [i \in 0 .. n |-> R(f, i)]
           upto == CHOOSE f : Upto(f)
           D == [d \in (1 .. n) \X Seq(X) |->
                   IF printed[d[1]].page \in p THEN Append(d[2], printed[d[1]]) ELSE d[2]]
           Keeps(i) == upto[i] \in Seq(X) /\ ToSet(upto[i]) = {printed[j] : j \in {k \in 1 .. i : printed[k].page \in p}}
           bad == {i \in 0 .. n : ~Keeps(i)}
<1>1. n \in Nat /\ DOMAIN printed = 1 .. n /\ \A i \in 1 .. n : printed[i] \in X
  OBVIOUS
<1>2. PrintedOn(p) = upto[n]
  BY DEF PrintedOn
<1>3. D \in [(1 .. n) \X Seq(X) -> Seq(X)]
  <2>1. ASSUME NEW i \in 1 .. n, NEW v \in Seq(X) PROVE Append(v, printed[i]) \in Seq(X)
    BY <1>1, AppendSet
  <2> QED BY <2>1
<1>4. PICK f : Follows(f, n, Seq(X), <<>>, D)
  <2>1. <<>> \in Seq(X)
    OBVIOUS
  <2> HIDE DEF n, D
  <2> QED BY <1>1, <1>3, <2>1, StepByStep
<1>5. Upto(f)
  <2>1. ASSUME NEW i \in 1 .. n
        PROVE  f[i] = IF printed[i].page \in p THEN Append(f[i - 1], printed[i]) ELSE f[i - 1]
    <3>1. i - 1 \in 0 .. n
      BY <1>1
    <3>2. f[i - 1] \in Seq(X)
      BY <1>4, <3>1 DEF Follows
    <3> QED BY <1>4, <3>2 DEF Follows
  <2>2. \A i \in 0 .. n : f[i] = R(f, i)
    <3>1. \A i \in 0 .. n : i = 0 \/ i \in 1 .. n
      BY <1>1
    <3>2. ASSUME NEW i \in 1 .. n PROVE i # 0
      BY <1>1
    <3> HIDE DEF n
    <3> QED BY <1>4, <2>1, <3>1, <3>2 DEF Follows
  <2> HIDE DEF n, R
  <2> QED BY <1>4, <2>2 DEF Follows
<1>6. Upto(upto)
  <2> HIDE DEF Upto
  <2> QED BY <1>5
<1>7. /\ upto[0] = <<>>
      /\ \A i \in 1 .. n : upto[i] = IF printed[i].page \in p THEN Append(upto[i - 1], printed[i]) ELSE upto[i - 1]
  <2>1. \A i \in 0 .. n : upto[i] = R(upto, i)
    <3> HIDE DEF upto, R
    <3> QED BY <1>6
  <2>2. 0 \in 0 .. n /\ \A i \in 1 .. n : i \in 0 .. n /\ i # 0
    BY <1>1
  <2> HIDE DEF upto, n
  <2> QED BY <2>1, <2>2
<1> HIDE DEF upto, Upto, R, D, n
<1>8. Keeps(0)
  BY <1>7 DEF ToSet
<1>9. ASSUME NEW i \in 1 .. n, Keeps(i - 1) PROVE Keeps(i)
  <2> DEFINE S(k) == {printed[j] : j \in {l \in 1 .. k : printed[l].page \in p}}
  <2>1. S(i) = IF printed[i].page \in p THEN S(i - 1) \cup {printed[i]} ELSE S(i - 1)
    <3>1. \A l : l \in 1 .. i <=> l \in 1 .. i - 1 \/ l = i
      BY <1>1
    <3> QED BY <3>1
  <2> HIDE DEF S
  <2>2. upto[i - 1] \in Seq(X) /\ ToSet(upto[i - 1]) = S(i - 1)
    BY <1>9 DEF S
  <2>3. CASE printed[i].page \in p
    <3>1. upto[i] = Append(upto[i - 1], printed[i]) /\ printed[i] \in X
      BY <1>1, <1>7, <2>3
    <3>2. upto[i] \in Seq(X) /\ ToSet(upto[i]) = S(i)
      BY <2>1, <2>2, <2>3, <3>1, AppendSet
    <3> QED BY <3>2 DEF S
  <2>4. CASE printed[i].page \notin p
    <3>1. upto[i] = upto[i - 1]
      BY <1>7, <2>4
    <3>2. upto[i] \in Seq(X) /\ ToSet(upto[i]) = S(i)
      BY <2>1, <2>2, <2>4, <3>1
    <3> QED BY <3>2 DEF S
  <2> QED BY <2>3, <2>4
<1> HIDE DEF Keeps
<1>10. bad = {}
  <2> SUFFICES ASSUME bad # {} PROVE FALSE
    OBVIOUS
  <2>1. PICK i \in bad : \A j \in bad : i <= j
    <3>1. bad \in SUBSET Nat
      BY <1>1
    <3> HIDE DEF bad
    <3> QED BY <3>1, LeastNat
  <2>2. i \in 1 .. n
    BY <1>1, <1>8
  <2>3. i - 1 \in 0 .. n /\ ~(i <= i - 1)
    BY <1>1, <2>2
  <2>4. Keeps(i - 1)
    BY <2>1, <2>3
  <2> QED BY <1>9, <2>2, <2>4
<1>11. Keeps(n)
  <2>1. n \in 0 .. n
    BY <1>1
  <2> QED BY <1>10, <2>1
<1> QED
  <2>1. {l \in ToSet(printed) : l.page \in p} = {printed[j] : j \in {k \in 1 .. n : printed[k].page \in p}}
    BY <1>1 DEF ToSet
  <2> QED BY <1>2, <1>11, <2>1 DEF Keeps

LEMMA ConcatSet ==
  ASSUME NEW X, NEW s \in Seq(X), NEW t \in Seq(X)
  PROVE  s \o t \in Seq(X) /\ ToSet(s \o t) = ToSet(s) \cup ToSet(t)
<1>1. /\ Len(s) \in Nat /\ Len(t) \in Nat /\ s \o t \in Seq(X)
      /\ DOMAIN s = 1 .. Len(s) /\ DOMAIN t = 1 .. Len(t)
      /\ DOMAIN (s \o t) = 1 .. Len(s) + Len(t)
      /\ \A i \in 1 .. Len(s) + Len(t) : (s \o t)[i] = IF i <= Len(s) THEN s[i] ELSE t[i - Len(s)]
  OBVIOUS
<1>2. PICK u : u = s \o t
  OBVIOUS
<1>3. ASSUME NEW y \in ToSet(u) PROVE y \in ToSet(s) \cup ToSet(t)
  <2>1. PICK i \in 1 .. Len(s) + Len(t) : y = u[i]
    BY <1>1, <1>2, <1>3 DEF ToSet
  <2>2. CASE i <= Len(s)
    <3>1. i \in DOMAIN s /\ y = s[i]
      BY <1>1, <1>2, <2>1, <2>2
    <3> QED BY <3>1 DEF ToSet
  <2>3. CASE ~(i <= Len(s))
    <3>1. i - Len(s) \in DOMAIN t /\ y = t[i - Len(s)]
      BY <1>1, <1>2, <2>1, <2>3
    <3> QED BY <3>1 DEF ToSet
  <2> QED BY <2>2, <2>3
<1>4. ASSUME NEW y \in ToSet(s) PROVE y \in ToSet(u)
  <2>1. PICK i \in 1 .. Len(s) : y = s[i]
    BY <1>1, <1>4 DEF ToSet
  <2>2. i \in DOMAIN u /\ u[i] = y
    BY <1>1, <1>2, <2>1
  <2> QED BY <2>2 DEF ToSet
<1>5. ASSUME NEW y \in ToSet(t) PROVE y \in ToSet(u)
  <2>1. PICK i \in 1 .. Len(t) : y = t[i]
    BY <1>1, <1>5 DEF ToSet
  <2>2. i + Len(s) \in DOMAIN u /\ u[i + Len(s)] = y
    BY <1>1, <1>2, <2>1
  <2> QED BY <2>2 DEF ToSet
<1> QED BY <1>1, <1>2, <1>3, <1>4, <1>5

(* A property every number inherits from its predecessor holds up to n.    *)
LEMMA UpTo ==
  ASSUME NEW n \in Nat, NEW T, 0 \in T, \A i \in 1 .. n : i - 1 \in T => i \in T
  PROVE  \A i \in 0 .. n : i \in T
<1> DEFINE bad == {i \in 0 .. n : i \notin T}
<1>1. SUFFICES ASSUME bad # {} PROVE FALSE
  OBVIOUS
<1>2. PICK i \in bad : \A j \in bad : i <= j
  <2>1. bad \in SUBSET Nat
    OBVIOUS
  <2> HIDE DEF bad
  <2> QED BY <1>1, <2>1, LeastNat
<1>3. i \in 1 .. n /\ i - 1 \in 0 .. n /\ ~(i <= i - 1)
  OBVIOUS
<1>4. i - 1 \in T
  BY <1>2, <1>3
<1> QED BY <1>3, <1>4

(* Chaining sequences keeps every element.                                 *)
LEMMA FlattenSound ==
  ASSUME NEW X, NEW s \in Seq(Seq(X))
  PROVE  /\ FlattenSeq(s) \in Seq(X)
         /\ ToSet(FlattenSeq(s)) = UNION {ToSet(s[i]) : i \in DOMAIN s}
<1> DEFINE n == Len(s)
           R(f, i) == IF i = 1 THEN s[i] ELSE f[i - 1] \o s[i]
           flatten == CHOOSE f : f = [i \in 1 .. n |-> R(f, i)]
<1>1. n \in Nat /\ DOMAIN s = 1 .. n /\ \A i \in 1 .. n : s[i] \in Seq(X)
  OBVIOUS
<1>2. CASE n = 0
  <2>1. s = <<>>
    BY <1>2
  <2>2. <<>> \in Seq(X) /\ DOMAIN s = {} /\ FlattenSeq(s) = <<>>
    BY <1>2, <2>1 DEF FlattenSeq
  <2> QED BY <2>1, <2>2 DEF ToSet
<1>3. CASE n # 0
  <2> DEFINE D == [d \in (1 .. n - 1) \X Seq(X) |-> d[2] \o s[d[1] + 1]]
  <2>1. FlattenSeq(s) = flatten[n]
    BY <1>3 DEF FlattenSeq
  <2>2. D \in [(1 .. n - 1) \X Seq(X) -> Seq(X)]
    <3>1. ASSUME NEW i \in 1 .. n - 1, NEW v \in Seq(X) PROVE v \o s[i + 1] \in Seq(X)
      BY <1>1, ConcatSet
    <3> QED BY <3>1
  <2>3. PICK g : Follows(g, n - 1, Seq(X), s[1], D)
    <3>1. n - 1 \in Nat /\ s[1] \in Seq(X)
      BY <1>1, <1>3
    <3> HIDE DEF n, D
    <3> QED BY <2>2, <3>1, StepByStep
  <2>4. PICK f : f = [i \in 1 .. n |-> g[i - 1]]
    OBVIOUS
  <2>5. ASSUME NEW i \in 1 .. n PROVE f[i] = R(f, i)
    <3>1. CASE i = 1
      BY <1>1, <2>3, <2>4, <3>1 DEF Follows
    <3>2. CASE i # 1
      <4>1. i - 1 \in 1 .. n - 1 /\ i - 1 \in 1 .. n /\ i - 1 - 1 \in 0 .. n - 1
        BY <1>1, <3>2
      <4>2. g[i - 1 - 1] \in Seq(X) /\ g[i - 1] = D[<<i - 1, g[i - 1 - 1]>>]
        BY <2>3, <4>1 DEF Follows
      <4>3. g[i - 1] = g[i - 1 - 1] \o s[i - 1 + 1]
        BY <4>1, <4>2
      <4>5. i - 1 + 1 = i
        BY <1>1
      <4>4. f[i] = g[i - 1] /\ f[i - 1] = g[i - 1 - 1]
        BY <2>4, <4>1
      <4> QED BY <3>2, <4>3, <4>4, <4>5
    <3> QED BY <3>1, <3>2
  <2>6. \A i \in 1 .. n : flatten[i] = R(flatten, i)
    <3>1. f = [i \in 1 .. n |-> R(f, i)]
      <4> HIDE DEF R, n
      <4> QED BY <2>4, <2>5
    <3>2. flatten = [i \in 1 .. n |-> R(flatten, i)]
      <4> HIDE DEF R, n
      <4> QED BY <3>1
    <3> HIDE DEF R, n, flatten
    <3> QED BY <3>2
  <2> HIDE DEF n, R, flatten, D
  <2> DEFINE Good(i) == /\ flatten[i] \in Seq(X)
                        /\ ToSet(flatten[i]) = UNION {ToSet(s[j]) : j \in 1 .. i}
             T == {i \in 0 .. n - 1 : Good(i + 1)}
  <2>7. 0 \in T
    <3>1. flatten[1] = s[1] /\ s[1] \in Seq(X) /\ 1 .. 1 = {1}
      BY <1>1, <1>3, <2>6 DEF R
    <3>2. Good(1)
      BY <3>1
    <3>3. 0 \in 0 .. n - 1 /\ 0 + 1 = 1
      BY <1>1, <1>3
    <3> HIDE DEF Good
    <3> QED BY <3>2, <3>3
  <2>8. ASSUME NEW i \in 1 .. n - 1, i - 1 \in T PROVE i \in T
    <3>1. /\ i + 1 \in 1 .. n /\ i + 1 # 1 /\ i + 1 - 1 = i /\ i - 1 + 1 = i /\ i \in 0 .. n - 1
          /\ 1 .. i + 1 = (1 .. i) \cup {i + 1}
      BY <1>1, <1>3
    <3>2. flatten[i + 1] = flatten[i] \o s[i + 1]
      <4>1. ASSUME NEW k \in 1 .. n, k # 1 PROVE flatten[k] = flatten[k - 1] \o s[k]
        BY <2>6, <4>1 DEF R
      <4>2. PICK k, j : k = i + 1 /\ j = i
        OBVIOUS
      <4>3. k \in 1 .. n /\ k # 1
        BY <3>1, <4>2
      <4>4. k - 1 = j
        BY <1>1, <4>2
      <4>5. flatten[k] = flatten[k - 1] \o s[k]
        BY <4>1, <4>3
      <4> QED BY <4>2, <4>4, <4>5
    <3>3. flatten[i] \in Seq(X) /\ ToSet(flatten[i]) = UNION {ToSet(s[j]) : j \in 1 .. i} /\ s[i + 1] \in Seq(X)
      BY <1>1, <2>8, <3>1
    <3>4. flatten[i + 1] \in Seq(X) /\ ToSet(flatten[i + 1]) = ToSet(flatten[i]) \cup ToSet(s[i + 1])
      BY <3>2, <3>3, ConcatSet
    <3>5. ToSet(flatten[i + 1]) = UNION {ToSet(s[j]) : j \in 1 .. i + 1}
      BY <3>1, <3>3, <3>4
    <3> QED BY <3>1, <3>4, <3>5
  <2>9. n - 1 \in T
    <3>1. n - 1 \in Nat /\ n - 1 \in 0 .. n - 1
      BY <1>1, <1>3
    <3> HIDE DEF T
    <3> QED BY <2>7, <2>8, <3>1, UpTo
  <2>10. Good(n)
    <3>1. n - 1 + 1 = n
      BY <1>1
    <3> HIDE DEF Good
    <3> QED BY <2>9, <3>1
  <2> QED BY <1>1, <2>1, <2>10
<1> QED BY <1>2, <1>3

(* Where the chunk that starts at a page ends.                             *)
LEMMA ChunkEnd ==
  ASSUME NEW total \in Nat \ {0}, NEW start \in 0 .. total - 1,
         NEW end, end = Min({start + PagesPerChunk - 1, total - 1})
  PROVE  /\ end \in start .. total - 1
         /\ end >= total - 1 <=> end = total - 1
         /\ end # total - 1 => end > start
<1> DEFINE a == start + PagesPerChunk - 1
           b == total - 1
<1>1. a \in Int /\ b \in Int /\ a > start /\ b >= start
  BY IngestionAssumption
<1>2. PICK x \in {a, b} : \A y \in {a, b} : x <= y
  <2>1. CASE a <= b BY <1>1, <2>1
  <2>2. CASE b <= a BY <1>1, <2>2
  <2> QED BY <1>1, <2>1, <2>2
<1>3. end \in {a, b} /\ \A y \in {a, b} : end <= y
  BY <1>2 DEF Min
<1> QED BY <1>1, <1>3

(* The chunks of a file cover its pages.                                   *)
LEMMA PageChunksCover ==
  ASSUME NEW total \in Nat \ {0}
  PROVE  /\ PageChunks(total) \in Seq(SUBSET (0 .. total - 1))
         /\ UNION ToSet(PageChunks(total)) = 0 .. total - 1
<1> DEFINE E(start) == Min({start + PagesPerChunk - 1, total - 1})
           R(f, start) == <<start .. E(start)>> \o IF E(start) >= total - 1 THEN <<>> ELSE f[E(start)]
           From(f, m) == f = [start \in total - m .. total - 1 |-> R(f, start)]
           from == CHOOSE f : f = [start \in 0 .. total - 1 |-> R(f, start)]
           Pages == SUBSET (0 .. total - 1)
<1>1. ASSUME NEW start \in 0 .. total - 1
      PROVE  /\ E(start) \in start .. total - 1
             /\ E(start) >= total - 1 <=> E(start) = total - 1
             /\ E(start) # total - 1 => E(start) > start
  BY ChunkEnd
<1>2. PageChunks(total) = from[0]
  BY DEF PageChunks
<1>3. ASSUME NEW f, NEW g, NEW start \in 0 .. total - 1, \A i \in start + 1 .. total - 1 : f[i] = g[i]
      PROVE  R(f, start) = R(g, start)
  <2>1. E(start) >= total - 1 \/ E(start) \in start + 1 .. total - 1
    BY <1>1
  <2> HIDE DEF E
  <2> QED BY <1>3, <2>1
<1> HIDE DEF E, R
<1>4. \A m \in 0 .. total : m \in {k \in 0 .. total : \E f : From(f, k)}
  <2> DEFINE T == {k \in 0 .. total : \E f : From(f, k)}
  <2>1. 0 \in T
    <3>1. total - 0 .. total - 1 = {}
      OBVIOUS
    <3>2. PICK f : f = [start \in {} |-> R(0, start)]
      OBVIOUS
    <3>3. f = [start \in {} |-> R(f, start)]
      BY <3>2
    <3>4. From(f, 0) /\ 0 \in 0 .. total
      BY <3>1, <3>3
    <3> HIDE DEF From
    <3> QED BY <3>4
  <2>2. ASSUME NEW m \in 1 .. total, m - 1 \in T PROVE m \in T
    <3> DEFINE low == total - m
    <3>0. low \in 0 .. total - 1 /\ total - (m - 1) = low + 1 /\ m \in 0 .. total
      OBVIOUS
    <3>1. PICK f : f = [start \in low + 1 .. total - 1 |-> R(f, start)]
      BY <2>2, <3>0
    <3>2. PICK g : g = [start \in low .. total - 1 |-> IF start = low THEN R(f, low) ELSE f[start]]
      OBVIOUS
    <3>3. \A i \in low + 1 .. total - 1 : g[i] = f[i]
      BY <3>0, <3>2
    <3>4. ASSUME NEW start \in low .. total - 1 PROVE g[start] = R(g, start)
      <4>1. \A i \in start + 1 .. total - 1 : f[i] = g[i]
        BY <3>0, <3>3
      <4>2. R(f, start) = R(g, start)
        BY <1>3, <3>0, <4>1
      <4>3. g[start] = R(f, start)
        <5>1. CASE start = low
          BY <3>2, <5>1
        <5>2. CASE start # low
          <6>1. start \in low + 1 .. total - 1
            BY <3>0, <5>2
          <6> QED BY <3>1, <3>3, <6>1
        <5> QED BY <5>1, <5>2
      <4> QED BY <4>2, <4>3
    <3>5. g = [start \in low .. total - 1 |-> R(g, start)]
      BY <3>2, <3>4
    <3> QED BY <3>0, <3>5
  <2> HIDE DEF T
  <2>3. \A m \in 0 .. total : m \in T
    BY <2>1, <2>2, UpTo
  <2> QED BY <2>3 DEF T
<1>5. \A start \in 0 .. total - 1 : from[start] = R(from, start)
  <2>1. total \in 0 .. total /\ total - total = 0
    OBVIOUS
  <2>2. PICK f : From(f, total)
    BY <1>4, <2>1
  <2>3. f = [start \in 0 .. total - 1 |-> R(f, start)]
    BY <2>1, <2>2
  <2>4. from = [start \in 0 .. total - 1 |-> R(from, start)]
    BY <2>3
  <2> HIDE DEF from
  <2> QED BY <2>4
<1> HIDE DEF from
<1> DEFINE Covers(start) == from[start] \in Seq(Pages) /\ UNION ToSet(from[start]) = start .. total - 1
           T == {m \in 0 .. total - 1 : \A start \in total - 1 - m .. total - 1 : Covers(start)}
<1>6. ASSUME NEW start \in 0 .. total - 1, \A i \in start + 1 .. total - 1 : Covers(i)
      PROVE  Covers(start)
  <2> DEFINE end == E(start)
  <2>1. /\ end \in start .. total - 1
        /\ end >= total - 1 <=> end = total - 1
        /\ end # total - 1 => end > start
    BY <1>1
  <2>2. from[start] = <<start .. end>> \o IF end >= total - 1 THEN <<>> ELSE from[end]
    BY <1>5 DEF R
  <2> HIDE DEF end, Covers
  <2>3. PICK part : part = start .. end
    OBVIOUS
  <2>4. part \in Pages /\ <<part>> \in Seq(Pages) /\ ToSet(<<part>>) = {part}
    BY <2>1, <2>3 DEF ToSet
  <2>5. CASE end = total - 1
    <3>1. from[start] = <<part>> \o <<>>
      BY <2>1, <2>2, <2>3, <2>5
    <3>2. <<part>> \o <<>> = <<part>>
      BY <2>4
    <3>3. from[start] \in Seq(Pages) /\ UNION ToSet(from[start]) = start .. total - 1
      BY <2>3, <2>4, <2>5, <3>1, <3>2
    <3> QED BY <3>3 DEF Covers
  <2>6. CASE end # total - 1
    <3>1. from[start] = <<part>> \o from[end] /\ end \in start + 1 .. total - 1
      BY <2>1, <2>2, <2>3, <2>6
    <3>2. from[end] \in Seq(Pages) /\ UNION ToSet(from[end]) = end .. total - 1
      BY <1>6, <3>1 DEF Covers
    <3>3. from[start] \in Seq(Pages) /\ ToSet(from[start]) = {part} \cup ToSet(from[end])
      <4> HIDE DEF Pages, end
      <4>1. PICK one, rest : one = <<part>> /\ rest = from[end]
        OBVIOUS
      <4>2. one \in Seq(Pages) /\ rest \in Seq(Pages) /\ ToSet(one) = {part}
        BY <2>4, <3>2, <4>1
      <4>3. one \o rest \in Seq(Pages) /\ ToSet(one \o rest) = ToSet(one) \cup ToSet(rest)
        BY <4>2, ConcatSet
      <4>4. from[start] = one \o rest
        BY <3>1, <4>1
      <4> QED BY <4>1, <4>2, <4>3, <4>4
    <3>4. start .. total - 1 = part \cup (end .. total - 1)
      BY <2>1, <2>3
    <3> QED BY <3>2, <3>3, <3>4 DEF Covers
  <2> QED BY <2>5, <2>6
<1> HIDE DEF Covers
<1>7. 0 \in T
  <2>1. \A start \in total - 1 - 0 .. total - 1 : start = total - 1
    OBVIOUS
  <2>2. total - 1 \in 0 .. total - 1 /\ \A i \in total - 1 + 1 .. total - 1 : FALSE
    OBVIOUS
  <2>3. Covers(total - 1)
    BY <1>6, <2>2
  <2> QED BY <2>1, <2>3
<1>8. ASSUME NEW m \in 1 .. total - 1, m - 1 \in T PROVE m \in T
  <2>1. /\ total - 1 - m \in 0 .. total - 1 /\ total - 1 - (m - 1) = total - 1 - m + 1
        /\ \A start \in total - 1 - m .. total - 1 : start = total - 1 - m \/ start \in total - 1 - m + 1 .. total - 1
    OBVIOUS
  <2>2. \A start \in total - 1 - m + 1 .. total - 1 : Covers(start)
    BY <1>8, <2>1
  <2>3. Covers(total - 1 - m)
    BY <1>6, <2>1, <2>2
  <2> QED BY <2>1, <2>2, <2>3
<1>9. Covers(0)
  <2>1. total - 1 \in Nat /\ total - 1 \in 0 .. total - 1
    OBVIOUS
  <2>2. total - 1 \in T
    <3> HIDE DEF T
    <3> QED BY <1>7, <1>8, <2>1, UpTo
  <2>3. 0 \in total - 1 - (total - 1) .. total - 1
    OBVIOUS
  <2> QED BY <2>2, <2>3
<1> QED BY <1>2, <1>9 DEF Covers

-----------------------------------------------------------------------------
Line == [name : RawNames, page : Nat]
PrintedLine == [name : DOMAIN Spellings, page : Nat]
KeyOf(l) == [name |-> Normal(l.name), page |-> l.page]

(* The least of the lines so far with the key of a line.                   *)
LEMMA RepresentativeLeast ==
  ASSUME NEW ls, NEW n \in Nat, DOMAIN ls = 1 .. n, NEW i \in 1 .. n
  PROVE  /\ Representative(ls, i) \in 1 .. i
         /\ SameKey(ls[Representative(ls, i)], ls[i])
         /\ \A j \in 1 .. i : SameKey(ls[j], ls[i]) => Representative(ls, i) <= j
<1> DEFINE same == {j \in 1 .. i : SameKey(ls[j], ls[i])}
<1>1. same \in SUBSET Nat /\ i \in same
  BY DEF SameKey
<1> HIDE DEF same
<1>2. PICK x \in same : \A y \in same : x <= y
  BY <1>1, LeastNat
<1>3. Min(same) \in same /\ \A y \in same : Min(same) <= y
  BY <1>2 DEF Min
<1>4. Representative(ls, i) = Min(same)
  BY DEF Representative, same
<1> QED BY <1>3, <1>4 DEF same

(* Lines with one key have one representative, which represents itself.    *)
LEMMA RepresentativeOfKey ==
  ASSUME NEW ls, NEW n \in Nat, DOMAIN ls = 1 .. n, NEW i \in 1 .. n, NEW j \in 1 .. n,
         SameKey(ls[i], ls[j])
  PROVE  Representative(ls, i) = Representative(ls, j)
<1>1. PICK a, b : a = Representative(ls, i) /\ b = Representative(ls, j)
  OBVIOUS
<1>2. /\ a \in 1 .. i /\ SameKey(ls[a], ls[i])
      /\ \A k \in 1 .. i : SameKey(ls[k], ls[i]) => a <= k
  BY <1>1, RepresentativeLeast
<1>3. /\ b \in 1 .. j /\ SameKey(ls[b], ls[j])
      /\ \A k \in 1 .. j : SameKey(ls[k], ls[j]) => b <= k
  BY <1>1, RepresentativeLeast
<1>4. SameKey(ls[b], ls[i]) /\ SameKey(ls[a], ls[j])
  BY <1>2, <1>3 DEF SameKey
<1>5. a <= b
  BY <1>2, <1>3, <1>4
<1>6. b <= a
  BY <1>2, <1>3, <1>4
<1> QED BY <1>1, <1>2, <1>3, <1>5, <1>6

LEMMA RepresentativeSelf ==
  ASSUME NEW ls, NEW n \in Nat, DOMAIN ls = 1 .. n, NEW i \in 1 .. n
  PROVE  /\ Representative(ls, i) \in 1 .. n
         /\ Representative(ls, Representative(ls, i)) = Representative(ls, i)
<1>1. PICK a : a = Representative(ls, i)
  OBVIOUS
<1>2. a \in 1 .. n /\ SameKey(ls[a], ls[i])
  BY <1>1, RepresentativeLeast
<1>3. Representative(ls, a) = Representative(ls, i)
  BY <1>2, RepresentativeOfKey
<1> QED BY <1>1, <1>2, <1>3

LEMMA NormalOfSpelling ==
  ASSUME NEW n \in DOMAIN Spellings, NEW raw \in Spellings[n]
  PROVE  Normal(raw) = n
BY IngestionAssumption DEF Normal

(* What a call reads has the keys of the lines printed on its pages.       *)
LEMMA ReadingsKeepKeys ==
  ASSUME printed \in Seq(PrintedLine), NEW p, NEW read \in Readings(p)
  PROVE  /\ read \in Seq(Line)
         /\ {KeyOf(l) : l \in ToSet(read)} = {l \in ToSet(printed) : l.page \in p}
<1>1. PICK part : part = PrintedOn(p)
  OBVIOUS
<1>2. part \in Seq(PrintedLine) /\ ToSet(part) = {l \in ToSet(printed) : l.page \in p}
  BY <1>1, PrintedOnSound
<1>3. PICK raw \in [DOMAIN part -> RawNames] :
        /\ \A i \in DOMAIN part : raw[i] \in Spellings[part[i].name]
        /\ read = [i \in DOMAIN part |-> [name |-> raw[i], page |-> part[i].page]]
  BY <1>1 DEF Readings
<1>4. PICK n \in Nat : DOMAIN part = 1 .. n /\ \A i \in 1 .. n : part[i] \in PrintedLine
  BY <1>2
<1>5. \A i \in 1 .. n : read[i] \in Line
  BY <1>3, <1>4 DEF Line, PrintedLine
<1>6. read \in Seq(Line) /\ DOMAIN read = 1 .. n
  BY <1>3, <1>4, <1>5
<1>7. ASSUME NEW i \in 1 .. n PROVE KeyOf(read[i]) = part[i]
  <2>1. part[i] \in PrintedLine /\ raw[i] \in Spellings[part[i].name]
    BY <1>3, <1>4
  <2>2. Normal(raw[i]) = part[i].name
    BY <2>1, NormalOfSpelling DEF PrintedLine
  <2>3. read[i].name = raw[i] /\ read[i].page = part[i].page
    BY <1>3, <1>4
  <2> QED BY <2>1, <2>2, <2>3 DEF KeyOf, PrintedLine
<1>8. {KeyOf(l) : l \in ToSet(read)} = ToSet(part)
  <2>1. {KeyOf(l) : l \in ToSet(read)} = {KeyOf(read[i]) : i \in 1 .. n}
    BY <1>6 DEF ToSet
  <2>2. ToSet(part) = {part[i] : i \in 1 .. n}
    BY <1>4 DEF ToSet
  <2> QED BY <1>7, <2>1, <2>2
<1> QED BY <1>2, <1>6, <1>8

(* How far an upload has come.                                             *)
Extracted ==
  phase = "extracting" =>
    /\ chunks \in Seq(SUBSET Nat) /\ found \in Seq(Seq(Line))
    /\ \A l \in ToSet(printed) : \E c \in DOMAIN chunks : l.page \in chunks[c]
    /\ ~broken => \A c \in DOMAIN found \ unread :
         {KeyOf(l) : l \in ToSet(found[c])} = {l \in ToSet(printed) : l.page \in chunks[c]}

Grouped ==
  phase = "matching" =>
    /\ lines \in Seq(Line)
    /\ {KeyOf(l) : l \in ToSet(lines)} = ToSet(printed)
    /\ DOMAIN decided = {j \in DOMAIN lines : Representative(lines, j) = j}

(* A match names a material, anything else none.                           *)
Sensible(d) ==
  IF d.action = "match" THEN d.material \in Materials /\ ~d.failed ELSE d.material = NULL

UploadInv ==
  /\ printed \in Seq(PrintedLine)
  /\ unread \subseteq DOMAIN chunks /\ DOMAIN found = DOMAIN chunks
  /\ DOMAIN decided \subseteq DOMAIN lines
  /\ shown \subseteq Materials /\ catalog \subseteq Materials
  /\ \A i \in DOMAIN decided : decided[i] \in Decision \cup {NULL} /\ (decided[i] # NULL => Sensible(decided[i]))
  /\ phase \in {"idle", "extracting", "matching", "refused"}
  /\ broken \in BOOLEAN
  /\ Extracted /\ Grouped

(* The lines matched have the keys of the printed lines, each once.        *)
LEMMA MatchedOnce ==
  ASSUME UploadInv, phase = "matching"
  PROVE  LET keys == {[name |-> Normal(lines[i].name), page |-> lines[i].page] : i \in DOMAIN decided}
         IN keys = ToSet(printed) /\ Cardinality(keys) = Cardinality(DOMAIN decided)
<1> DEFINE keys == {KeyOf(lines[i]) : i \in DOMAIN decided}
<1>1. PICK n \in Nat : DOMAIN lines = 1 .. n
  BY DEF UploadInv, Grouped
<1>2. /\ {KeyOf(lines[i]) : i \in 1 .. n} = ToSet(printed)
      /\ DOMAIN decided = {j \in 1 .. n : Representative(lines, j) = j}
  BY <1>1 DEF UploadInv, Grouped, ToSet
<1>3. \A i, j \in 1 .. n : SameKey(lines[i], lines[j]) <=> KeyOf(lines[i]) = KeyOf(lines[j])
  BY DEF SameKey, KeyOf
<1>4. ASSUME NEW i \in 1 .. n PROVE KeyOf(lines[i]) \in keys
  <2>1. Representative(lines, i) \in DOMAIN decided
    BY <1>1, <1>2, RepresentativeSelf
  <2>2. KeyOf(lines[Representative(lines, i)]) = KeyOf(lines[i])
    BY <1>1, <1>2, <1>3, <2>1, RepresentativeLeast
  <2> QED BY <2>1, <2>2
<1>5. keys = ToSet(printed)
  BY <1>2, <1>4
<1>6. ASSUME NEW i \in DOMAIN decided, NEW j \in DOMAIN decided, KeyOf(lines[i]) = KeyOf(lines[j])
      PROVE  i = j
  BY <1>1, <1>2, <1>3, <1>6, RepresentativeOfKey
<1>7. Cardinality(keys) = Cardinality(DOMAIN decided)
  <2>1. IsFiniteSet(DOMAIN decided)
    BY <1>2, FS_Interval, FS_Subset
  <2>2. PICK f : f = [i \in DOMAIN decided |-> KeyOf(lines[i])]
    OBVIOUS
  <2>3. f \in Bijection(DOMAIN decided, keys)
    BY <1>6, <2>2 DEF Bijection, Injection, Surjection, IsInjective
  <2>4. ExistsBijection(DOMAIN decided, keys)
    BY <2>3 DEF ExistsBijection
  <2> QED BY <2>1, <2>4, FS_Bijection
<1> QED BY <1>5, <1>7 DEF KeyOf

-----------------------------------------------------------------------------
(* The upload: every step keeps what the lines read and matched cover.     *)

LEMMA UploadInit == Init => UploadInv
<1> SUFFICES ASSUME Init PROVE UploadInv
  OBVIOUS
<1>1. printed \in Seq(PrintedLine)
  BY DEF Init
<1>2. catalog \subseteq Materials
  BY DEF Init, Materials
<1>3. DOMAIN found = DOMAIN chunks /\ DOMAIN decided = {} /\ unread = {}
  BY DEF Init
<1>4. phase = "idle" /\ broken = FALSE /\ shown = {}
  BY DEF Init
<1> QED BY <1>1, <1>2, <1>3, <1>4 DEF UploadInv, Extracted, Grouped

LEMMA StartUploadKeeps ==
  ASSUME UploadInv, NEW file \in Files, StartUpload(file)
  PROVE  UploadInv'
<1> DEFINE total == file.pages
<1>1. /\ total \in Nat \ {0} /\ printed' \in Seq([name : DOMAIN Spellings, page : 0 .. total - 1])
      /\ phase' = "extracting" /\ broken' = FALSE
      /\ chunks' = PageChunks(total)
      /\ unread' = DOMAIN chunks'
      /\ found' = [c \in DOMAIN chunks' |-> <<>>]
      /\ UNCHANGED <<catalog, lines, shown, decided>>
  BY IngestionAssumption DEF StartUpload, tableVars, matchVars
<1>2. /\ chunks' \in Seq(SUBSET (0 .. total - 1))
      /\ UNION ToSet(chunks') = 0 .. total - 1
  BY <1>1, PageChunksCover
<1>3. /\ printed' \in Seq(PrintedLine)
      /\ \A l \in ToSet(printed') : l.page \in 0 .. total - 1
  <2> DEFINE Rows == [name : DOMAIN Spellings, page : 0 .. total - 1]
  <2>1. \A l \in Rows : l \in PrintedLine /\ l.page \in 0 .. total - 1
    BY DEF PrintedLine
  <2> HIDE DEF Rows
  <2>2. PICK s \in Seq(Rows) : printed' = s
    BY <1>1 DEF Rows
  <2>3. PICK n \in Nat : DOMAIN s = 1 .. n /\ \A i \in 1 .. n : s[i] \in Rows
    OBVIOUS
  <2>4. s \in Seq(PrintedLine) /\ \A l \in ToSet(s) : l.page \in 0 .. total - 1
    BY <2>1, <2>3 DEF ToSet
  <2> QED BY <2>2, <2>4
<1>4. PICK n \in Nat : DOMAIN chunks' = 1 .. n /\ \A c \in 1 .. n : chunks'[c] \in SUBSET (0 .. total - 1)
  BY <1>2
<1>5. chunks' \in Seq(SUBSET Nat)
  BY <1>2, <1>4
<1>6. found' \in Seq(Seq(Line))
  <2>1. <<>> \in Seq(Line)
    OBVIOUS
  <2>2. found' = [c \in 1 .. n |-> <<>>]
    BY <1>1, <1>4
  <2> QED BY <2>1, <2>2
<1>7. ASSUME NEW l \in ToSet(printed') PROVE \E c \in DOMAIN chunks' : l.page \in chunks'[c]
  <2>1. l.page \in 0 .. total - 1
    BY <1>3, <1>7
  <2>2. \E p \in ToSet(chunks') : l.page \in p
    BY <1>2, <2>1
  <2> QED BY <2>2 DEF ToSet
<1>8. Extracted'
  BY <1>1, <1>5, <1>6, <1>7 DEF Extracted
<1>9. Grouped'
  BY <1>1 DEF Grouped
<1> QED BY <1>1, <1>3, <1>8, <1>9 DEF UploadInv

LEMMA ReadChunkKeeps ==
  ASSUME UploadInv, NEW c \in unread, ReadChunk(c)
  PROVE  UploadInv'
<1>1. /\ phase = "extracting" /\ unread' = unread \ {c}
      /\ UNCHANGED <<catalog, phase, printed, chunks, lines, shown, decided>>
  BY DEF ReadChunk, tableVars, matchVars
<1>2. PICK read :
        /\ found' = [found EXCEPT ![c] = read]
        /\ \/ read \in Readings(chunks[c]) /\ broken' = broken
           \/ read = <<>> /\ broken' = TRUE
  <2>1. PICK ends \in Attempts :
          /\ \E read \in (IF CallWithRetry(ends) = "ok" THEN Readings(chunks[c]) ELSE {<<>>}) :
               found' = [found EXCEPT ![c] = read]
          /\ broken' = (broken \/ CallWithRetry(ends) # "ok")
    BY DEF ReadChunk
  <2>2. PICK read \in (IF CallWithRetry(ends) = "ok" THEN Readings(chunks[c]) ELSE {<<>>}) :
          found' = [found EXCEPT ![c] = read]
    BY <2>1
  <2>3. broken \in BOOLEAN
    BY DEF UploadInv
  <2>4. CASE CallWithRetry(ends) = "ok"
    BY <2>1, <2>2, <2>3, <2>4
  <2>5. CASE CallWithRetry(ends) # "ok"
    BY <2>1, <2>2, <2>3, <2>5
  <2> QED BY <2>4, <2>5
<1>3. /\ c \in DOMAIN found /\ c \in DOMAIN chunks /\ found \in Seq(Seq(Line))
      /\ printed \in Seq(PrintedLine) /\ unread \subseteq DOMAIN chunks /\ DOMAIN found = DOMAIN chunks
  BY <1>1 DEF UploadInv, Extracted
<1>4. /\ read \in Seq(Line)
      /\ ~broken' => {KeyOf(l) : l \in ToSet(read)} = {l \in ToSet(printed) : l.page \in chunks[c]}
  <2>1. CASE read \in Readings(chunks[c])
    BY <1>3, <2>1, ReadingsKeepKeys
  <2>2. CASE read = <<>> /\ broken'
    BY <2>2
  <2> QED BY <1>2, <2>1, <2>2
<1>5. found' \in Seq(Seq(Line)) /\ DOMAIN found' = DOMAIN found
  BY <1>2, <1>3, <1>4
<1>6. ASSUME ~broken', NEW d \in DOMAIN found' \ unread'
      PROVE  {KeyOf(l) : l \in ToSet(found'[d])} = {l \in ToSet(printed) : l.page \in chunks[d]}
  <2>1. CASE d = c
    <3>1. found'[d] = read
      BY <1>2, <1>3, <2>1
    <3> QED BY <1>2, <1>4, <1>6, <2>1, <3>1
  <2>2. CASE d # c
    <3>1. found'[d] = found[d] /\ d \in DOMAIN found \ unread /\ ~broken
      BY <1>1, <1>2, <1>5, <1>6, <2>2
    <3>2. {KeyOf(l) : l \in ToSet(found[d])} = {l \in ToSet(printed) : l.page \in chunks[d]}
      BY <1>1, <3>1 DEF UploadInv, Extracted
    <3> QED BY <3>1, <3>2
  <2> QED BY <2>1, <2>2
<1>7. Extracted'
  <2>1. /\ chunks \in Seq(SUBSET Nat)
        /\ \A l \in ToSet(printed) : \E d \in DOMAIN chunks : l.page \in chunks[d]
    BY <1>1 DEF UploadInv, Extracted
  <2> QED BY <1>1, <1>5, <1>6, <2>1 DEF Extracted
<1>8. Grouped'
  BY <1>1 DEF Grouped
<1>9. broken' \in BOOLEAN
  BY <1>2 DEF UploadInv
<1> QED BY <1>1, <1>3, <1>5, <1>7, <1>8, <1>9 DEF UploadInv

LEMMA StartMatchingKeeps ==
  ASSUME UploadInv, StartMatching
  PROVE  UploadInv'
<1>1. /\ phase = "extracting" /\ unread = {} /\ ~broken
      /\ phase' = "matching" /\ lines' = FlattenSeq(found) /\ shown' = catalog
      /\ UNCHANGED <<catalog, printed, chunks, unread, found, broken>>
  BY DEF StartMatching, tableVars, fileVars
<1>2. /\ found \in Seq(Seq(Line)) /\ DOMAIN found = DOMAIN chunks
      /\ \A l \in ToSet(printed) : \E c \in DOMAIN chunks : l.page \in chunks[c]
      /\ \A c \in DOMAIN found :
           {KeyOf(l) : l \in ToSet(found[c])} = {l \in ToSet(printed) : l.page \in chunks[c]}
  BY <1>1 DEF UploadInv, Extracted
<1>3. lines' \in Seq(Line) /\ ToSet(lines') = UNION {ToSet(found[c]) : c \in DOMAIN found}
  BY <1>1, <1>2, FlattenSound
<1>4. {KeyOf(l) : l \in ToSet(lines')} = ToSet(printed)
  <2>1. ASSUME NEW l \in ToSet(lines') PROVE KeyOf(l) \in ToSet(printed)
    <3>1. PICK c \in DOMAIN found : l \in ToSet(found[c])
      BY <1>3
    <3>2. KeyOf(l) \in {k \in ToSet(printed) : k.page \in chunks[c]}
      BY <1>2, <3>1
    <3> QED BY <3>2
  <2>2. ASSUME NEW k \in ToSet(printed) PROVE \E l \in ToSet(lines') : k = KeyOf(l)
    <3>1. PICK c \in DOMAIN found : k.page \in chunks[c]
      BY <1>2
    <3>2. k \in {KeyOf(l) : l \in ToSet(found[c])}
      BY <1>2, <3>1
    <3> QED BY <1>3, <3>2
  <2> QED BY <2>1, <2>2
<1>5. PICK pick \in [DOMAIN lines' -> Materials \cup {NULL}] :
        decided' = [i \in {j \in DOMAIN lines' : Representative(lines', j) = j} |->
                      IF pick[i] = NULL THEN NULL ELSE MatchOf(pick[i])]
  BY DEF StartMatching
<1>6. DOMAIN decided' = {j \in DOMAIN lines' : Representative(lines', j) = j}
  BY <1>5
<1>7. ASSUME NEW i \in DOMAIN decided'
      PROVE  decided'[i] \in Decision \cup {NULL} /\ (decided'[i] # NULL => Sensible(decided'[i]))
  <2>1. decided'[i] = (IF pick[i] = NULL THEN NULL ELSE MatchOf(pick[i])) /\ pick[i] \in Materials \cup {NULL}
    BY <1>5, <1>6, <1>7
  <2> QED BY <2>1 DEF MatchOf, Decision, Sensible
<1>8. Extracted'
  BY <1>1 DEF Extracted
<1>9. Grouped'
  BY <1>1, <1>3, <1>4, <1>6 DEF Grouped
<1>10. DOMAIN decided' \subseteq DOMAIN lines'
  BY <1>6
<1> HIDE DEF UploadInv
<1> QED BY <1>1, <1>7, <1>8, <1>9, <1>10 DEF UploadInv

LEMMA MatchLineKeeps ==
  ASSUME UploadInv, NEW i \in DOMAIN decided, MatchLine(i)
  PROVE  UploadInv'
<1>1. PICK d : /\ d \in Decision /\ Sensible(d)
               /\ decided' = [decided EXCEPT ![i] = d]
  <2>1. PICK ends \in Attempts, answer \in Materials \cup {Ghost, NULL} :
          decided' = [decided EXCEPT ![i] =
            IF CallWithRetry([a \in DOMAIN ends |-> DecideMatch(ends[a])]) = "ok" THEN Downgraded(answer)
            ELSE [NotFound EXCEPT !.failed =
                    (CallWithRetry([a \in DOMAIN ends |-> DecideMatch(ends[a])]) = "exhausted")]]
    BY DEF MatchLine
  <2>2. Downgraded(answer) \in Decision /\ Sensible(Downgraded(answer))
    BY DEF UploadInv, Downgraded, NotFound, MatchOf, Decision, Sensible
  <2>3. \A b \in BOOLEAN : [NotFound EXCEPT !.failed = b] \in Decision /\ Sensible([NotFound EXCEPT !.failed = b])
    BY DEF NotFound, Decision, Sensible
  <2> QED BY <2>1, <2>2, <2>3
<1>2. /\ phase = "matching" /\ broken' \in BOOLEAN
      /\ UNCHANGED <<catalog, phase, printed, chunks, unread, found, lines, shown>>
  BY DEF MatchLine, tableVars, fileVars, UploadInv
<1>3. DOMAIN decided' = DOMAIN decided
  BY <1>1
<1>4. ASSUME NEW j \in DOMAIN decided'
      PROVE  decided'[j] \in Decision \cup {NULL} /\ (decided'[j] # NULL => Sensible(decided'[j]))
  BY <1>1, <1>4 DEF UploadInv
<1>5. Extracted'
  BY <1>2 DEF Extracted
<1>6. Grouped'
  BY <1>2, <1>3 DEF UploadInv, Grouped
<1> QED BY <1>2, <1>3, <1>4, <1>5, <1>6 DEF UploadInv

LEMMA ForgetKeeps ==
  ASSUME UploadInv, ForgetFile, UNCHANGED catalog, phase' \in {"idle", "refused"}, broken' \in BOOLEAN
  PROVE  UploadInv'
<1>1. printed' \in Seq(PrintedLine)
  BY DEF ForgetFile
<1> QED BY <1>1 DEF UploadInv, ForgetFile, Extracted, Grouped

LEMMA ReviewKeeps ==
  ASSUME UploadInv, catalog' \subseteq Materials, UNCHANGED <<phase, fileVars, matchVars, broken>>
  PROVE  UploadInv'
BY DEF fileVars, matchVars, UploadInv, Extracted, Grouped

LEMMA UploadStep == UploadInv /\ [Next]_vars => UploadInv'
<1> SUFFICES ASSUME UploadInv, [Next]_vars PROVE UploadInv'
  OBVIOUS
<1>0. catalog \subseteq Materials /\ broken \in BOOLEAN
  BY DEF UploadInv
<1>1. CASE UNCHANGED vars
  BY <1>0, <1>1, ReviewKeeps DEF vars, tableVars
<1>2. CASE \E file \in Files : StartUpload(file)
  BY <1>2, StartUploadKeeps
<1>3. CASE \E c \in unread : ReadChunk(c)
  BY <1>3, ReadChunkKeeps
<1>4. CASE StartMatching
  BY <1>4, StartMatchingKeeps
<1>5. CASE \E i \in DOMAIN decided : MatchLine(i)
  BY <1>5, MatchLineKeeps
<1>6. CASE StoreImport \/ RefuseUpload \/ LoseUpload
  BY <1>0, <1>6, ForgetKeeps DEF StoreImport, RefuseUpload, LoseUpload, tableVars
<1>7. CASE \E r \in Reviewers, k \in DOMAIN imports : \E e \in DOMAIN imports[k].entries :
             \E action \in {"match", "new", "skip"}, target \in catalog \cup {NULL} :
               LoadEntry(r, k, e, action, target)
  BY <1>0, <1>7, ReviewKeeps DEF LoadEntry, tableVars
<1>8. CASE \E r \in Reviewers : CommitEntry(r)
  <2>1. catalog' \subseteq Materials
    BY <1>0, <1>8 DEF CommitEntry, Materials
  <2> QED BY <1>8, <2>1, ReviewKeeps DEF CommitEntry
<1>9. CASE \E r \in Reviewers : MarkImport(r) \/ CutApply(r)
  BY <1>0, <1>9, ReviewKeeps DEF MarkImport, CutApply, tableVars
<1>10. CASE \E d \in Deleters : CommitDelete(d) \/ CutDelete(d) \/ \E m \in Known : LoadReferences(d, m)
  BY <1>0, <1>10, ReviewKeeps DEF CommitDelete, CutDelete, LoadReferences, tableVars
<1> QED BY <1>1, <1>2, <1>3, <1>4, <1>5, <1>6, <1>7, <1>8, <1>9, <1>10 DEF Next

-----------------------------------------------------------------------------
(* The review: entries, prices and aliases under overlapping requests.     *)

(* Imports and entries have the columns the requests write.                *)
Shaped ==
  \A k \in DOMAIN imports :
    /\ {"status", "entries"} \subseteq DOMAIN imports[k]
    /\ \A e \in DOMAIN imports[k].entries : {"name", "matched", "action"} \subseteq DOMAIN Entry(k, e)

(* A request is about an entry that exists.                                *)
Addressed(q) ==
  /\ {"import", "entry", "action", "target", "seen", "saved"} \subseteq DOMAIN q
  /\ q.import \in DOMAIN imports /\ q.entry \in DOMAIN imports[q.import].entries
  /\ q.action \in {"match", "new", "skip"}

Booked(k, name, m) == <<k, m>> \in priced /\ <<name, m>> \in aliases

(* Why the entry's material may differ from the one a request has read:    *)
(* another request has applied the entry, or a deletion has cleared it.    *)
Explained(q) ==
  \/ q.saved
  \/ Entry(q.import, q.entry).matched = q.seen.matched
  \/ Booked(q.import, Entry(q.import, q.entry).name, Entry(q.import, q.entry).matched)
  \/ /\ Entry(q.import, q.entry).matched = NULL
     /\ q.seen.matched \in Known \ catalog \/ <<q.import, q.entry>> \in wiped

(* A material has been booked for an entry of this name, and the entry     *)
(* names it, unless a deletion has cleared a newer match of the entry.     *)
Backed(k, e, name, matched) ==
  \E m : Booked(k, name, m) /\ (matched = m \/ (matched = NULL /\ <<k, e>> \in wiped))

EntriesBacked ==
  \A k \in DOMAIN imports : \A e \in DOMAIN imports[k].entries :
    Entry(k, e).action \in {"match", "new"} => Backed(k, e, Entry(k, e).name, Entry(k, e).matched)

RequestsExplained ==
  /\ req = [r \in Reviewers |-> req[r]]
  /\ \A r \in Reviewers : req[r] # NULL => Addressed(req[r]) /\ Explained(req[r])

ReviewInv == Shaped /\ RequestsExplained /\ ApprovedMeansDecided /\ EntriesBacked

(* The condition on the entries after a step, row by row.                  *)
LEMMA BackedAfter ==
  ASSUME \A j \in DOMAIN imports' : \A f \in DOMAIN imports'[j].entries : \A row :
           row = imports'[j].entries[f] /\ row.action \in {"match", "new"} => Backed(j, f, row.name, row.matched)'
  PROVE  EntriesBacked'
BY DEF EntriesBacked, Backed, Booked, Entry

LEMMA InitHolds == Init => ReviewInv
  BY DEF Init, ReviewInv, Shaped, RequestsExplained, ApprovedMeansDecided, EntriesBacked

(* What an upload does before it stores its import concerns no review.     *)
LEMMA QuietHolds ==
  ASSUME ReviewInv, UNCHANGED tableVars, UNCHANGED req, UNCHANGED wiped
  PROVE  ReviewInv'
<1>1. (Shaped /\ RequestsExplained /\ ApprovedMeansDecided)'
  BY DEF tableVars, ReviewInv, Shaped, RequestsExplained, Addressed, Explained, Booked, Entry,
         ApprovedMeansDecided
<1>2. EntriesBacked'
  BY DEF tableVars, ReviewInv, EntriesBacked, Backed, Booked, Entry
<1> QED BY <1>1, <1>2 DEF ReviewInv

(* What a request knows of the tables stays true while they do not change. *)
LEMMA SameTables ==
  ASSUME UNCHANGED tableVars, wiped \subseteq wiped', NEW p, Addressed(p), Explained(p)
  PROVE  Addressed(p)' /\ Explained(p)'
<1>1. Addressed(p)' BY DEF tableVars, Addressed
<1>2. Entry(p.import, p.entry)' = Entry(p.import, p.entry) BY DEF tableVars, Entry
<1>3. Explained(p)' BY <1>2 DEF tableVars, Explained, Booked
<1> QED BY <1>1, <1>3

(* A new import is pending and its entries are undecided.                  *)
LEMMA StoreHolds ==
  ASSUME ReviewInv, StoreImport
  PROVE  ReviewInv'
<1>1. PICK k \in Imports \ DOMAIN imports :
        imports' = [j \in DOMAIN imports \cup {k} |->
          IF j = k THEN [status |-> "pending_review", entries |-> NewEntries] ELSE imports[j]]
  BY DEF StoreImport
<1>2. /\ DOMAIN imports' = DOMAIN imports \cup {k}
      /\ \A j \in DOMAIN imports : imports'[j] = imports[j]
      /\ imports'[k] = [status |-> "pending_review", entries |-> NewEntries]
  BY <1>1
<1>3. \A e \in DOMAIN NewEntries : /\ {"name", "matched", "action"} \subseteq DOMAIN NewEntries[e]
                                   /\ NewEntries[e].action = NULL
  BY DEF NewEntries
<1>4. UNCHANGED <<catalog, aliases, priced, req, wiped>>
  BY DEF StoreImport, reviewVars, deleteVars
<1>5. Shaped'
  BY <1>2, <1>3 DEF ReviewInv, Shaped, Entry
<1>6. RequestsExplained'
  BY <1>2, <1>4 DEF ReviewInv, RequestsExplained, Addressed, Explained, Booked, Entry
<1>7. ApprovedMeansDecided'
  BY <1>2 DEF ReviewInv, ApprovedMeansDecided, Entry
<1>8. EntriesBacked'
  <2>1. ASSUME NEW j \in DOMAIN imports', NEW e \in DOMAIN imports'[j].entries, NEW row,
               row = imports'[j].entries[e], row.action \in {"match", "new"}
        PROVE  Backed(j, e, row.name, row.matched)'
    <3>1. j # k
      BY <1>2, <1>3, <2>1, IngestionAssumption
    <3>2. j \in DOMAIN imports /\ e \in DOMAIN imports[j].entries /\ row = Entry(j, e)
      BY <1>2, <2>1, <3>1 DEF Entry
    <3>3. Backed(j, e, row.name, row.matched)
      BY <2>1, <3>2 DEF ReviewInv, EntriesBacked
    <3> QED BY <1>4, <3>3 DEF Backed, Booked
  <2> QED BY <2>1 DEF EntriesBacked, Backed, Booked, Entry
<1> QED BY <1>5, <1>6, <1>7, <1>8 DEF ReviewInv

(* A request starts with the entry as it is.                               *)
LEMMA LoadHolds ==
  ASSUME ReviewInv, NEW r \in Reviewers, NEW k \in DOMAIN imports,
         NEW e \in DOMAIN imports[k].entries,
         NEW action \in {"match", "new", "skip"}, NEW target,
         LoadEntry(r, k, e, action, target)
  PROVE  ReviewInv'
<1> DEFINE q == [import |-> k, entry |-> e, action |-> action, target |-> target,
                 seen |-> [action |-> Entry(k, e).action, matched |-> Entry(k, e).matched],
                 saved |-> FALSE]
<1>1. /\ req' = [req EXCEPT ![r] = q]
      /\ UNCHANGED <<catalog, aliases, imports, priced, wiped>>
  BY DEF LoadEntry, tableVars, deleteVars
<1>2. Addressed(q) /\ Explained(q)
  BY DEF Addressed, Explained
<1> HIDE DEF q
<1>3. req' = [s \in Reviewers |-> IF s = r THEN q ELSE req[s]]
  BY <1>1 DEF ReviewInv, RequestsExplained
<1>4. RequestsExplained'
  <2>1. ASSUME NEW p, Addressed(p), Explained(p) PROVE Addressed(p)' /\ Explained(p)'
    BY <1>1, <2>1, SameTables DEF tableVars
  <2>2. ASSUME NEW s \in Reviewers, NEW p, p = req'[s], p # NULL PROVE Addressed(p) /\ Explained(p)
    <3>1. CASE s = r BY <1>2, <1>3, <2>2, <3>1
    <3>2. CASE s # r BY <1>3, <2>2, <3>2 DEF ReviewInv, RequestsExplained
    <3> QED BY <3>1, <3>2
  <2> QED BY <1>3, <2>1, <2>2 DEF RequestsExplained
<1> QED BY <1>1, <1>4 DEF ReviewInv, Shaped, ApprovedMeansDecided, EntriesBacked, Backed, Booked, Entry

(* A request that ends leaves the tables alone, but for the status.        *)
LEMMA EndHolds ==
  ASSUME ReviewInv, NEW r \in Reviewers, MarkImport(r) \/ CutApply(r)
  PROVE  ReviewInv'
<1>1. req' = [s \in Reviewers |-> IF s = r THEN NULL ELSE req[s]]
  BY DEF MarkImport, CutApply, ReviewInv, RequestsExplained
<1>2. UNCHANGED <<catalog, aliases, priced, wiped>>
  BY DEF MarkImport, CutApply, tableVars, deleteVars
<1>3. CASE imports' = imports
  <2>1. RequestsExplained'
    BY <1>1, <1>2, <1>3 DEF ReviewInv, RequestsExplained, Addressed, Explained, Booked, Entry
  <2> QED BY <1>2, <1>3, <2>1 DEF ReviewInv, Shaped, ApprovedMeansDecided, EntriesBacked, Backed, Booked, Entry
<1>4. CASE imports' # imports
  <2> DEFINE k == req[r].import
  <2>1. /\ req[r] # NULL /\ Undecided(k) = {}
        /\ imports' = [imports EXCEPT ![k].status = "approved"]
    BY <1>4 DEF MarkImport, CutApply, tableVars
  <2>2. k \in DOMAIN imports
    BY <2>1 DEF ReviewInv, RequestsExplained, Addressed
  <2>3. /\ DOMAIN imports' = DOMAIN imports
        /\ \A j \in DOMAIN imports :
             /\ DOMAIN imports'[j] = DOMAIN imports[j]
             /\ imports'[j].entries = imports[j].entries
             /\ j # k => imports'[j].status = imports[j].status
    BY <2>1 DEF ReviewInv, Shaped
  <2>4. RequestsExplained'
    BY <1>1, <1>2, <2>3 DEF ReviewInv, RequestsExplained, Addressed, Explained, Booked, Entry
  <2>5. ApprovedMeansDecided'
    BY <2>1, <2>2, <2>3 DEF ReviewInv, ApprovedMeansDecided, Undecided, Entry
  <2>6. Shaped'
    BY <2>3 DEF ReviewInv, Shaped, Entry
  <2>7. EntriesBacked'
    <3>1. ASSUME NEW j \in DOMAIN imports, NEW e \in DOMAIN imports[j].entries, NEW row,
                 row = imports'[j].entries[e], row.action \in {"match", "new"}
          PROVE  Backed(j, e, row.name, row.matched)'
      <4>1. row = Entry(j, e)
        BY <2>3, <3>1 DEF Entry
      <4>2. Backed(j, e, row.name, row.matched)
        BY <3>1, <4>1 DEF ReviewInv, EntriesBacked
      <4> QED BY <1>2, <4>2 DEF Backed, Booked
    <3> QED BY <2>3, <3>1 DEF EntriesBacked, Backed, Booked, Entry
  <2> QED BY <2>4, <2>5, <2>6, <2>7 DEF ReviewInv
<1> QED BY <1>3, <1>4

(* The first commit.  q is the request, old its entry, m what it wants in  *)
(* matched_material_id: what it has read, or a material it prices and      *)
(* teaches.                                                                *)
LEMMA SaveHolds ==
  ASSUME ReviewInv, NEW r \in Reviewers, NEW q, NEW k, NEW e, NEW old, NEW m,
         q = req[r], q # NULL, ~q.saved, k = q.import, e = q.entry, old = Entry(k, e),
         imports' = [imports EXCEPT ![k].entries[e] = Saved(old, q, m)],
         req' = [req EXCEPT ![r].saved = TRUE],
         priced \subseteq priced', aliases \subseteq aliases',
         Known \ catalog \subseteq Known \ catalog', UNCHANGED wiped,
         \/ q.action = "skip" /\ m = q.seen.matched
         \/ /\ m \notin Known \ catalog
            /\ <<k, m>> \in priced' /\ <<old.name, m>> \in aliases'
  PROVE  ReviewInv'
<1>0. PICK new : new = Saved(old, q, m)
  OBVIOUS
<1>1. /\ Addressed(q) /\ Explained(q)
      /\ k \in DOMAIN imports /\ e \in DOMAIN imports[k].entries
  BY DEF ReviewInv, RequestsExplained, Addressed
<1>2. {"name", "matched", "action"} \subseteq DOMAIN old
  BY <1>1 DEF ReviewInv, Shaped
<1>3. /\ DOMAIN new = DOMAIN old
      /\ new.name = old.name
      /\ new.action = IF q.seen.action = q.action THEN old.action ELSE q.action
      /\ new.matched = IF q.seen.matched = m THEN old.matched ELSE m
  BY <1>0, <1>2 DEF Saved
<1>4. /\ DOMAIN imports' = DOMAIN imports
      /\ imports'[k].entries[e] = new
      /\ \A j \in DOMAIN imports :
           /\ DOMAIN imports'[j] = DOMAIN imports[j]
           /\ imports'[j].status = imports[j].status
           /\ DOMAIN imports'[j].entries = DOMAIN imports[j].entries
           /\ \A f \in DOMAIN imports[j].entries :
                imports'[j].entries[f] = IF j = k /\ f = e THEN new ELSE imports[j].entries[f]
  <2>1. imports' = [imports EXCEPT ![k].entries[e] = new]
    BY <1>0
  <2> QED BY <1>1, <2>1 DEF ReviewInv, Shaped
<1>12. ASSUME NEW j \in DOMAIN imports, NEW f \in DOMAIN imports[j].entries, ~(j = k /\ f = e)
       PROVE  imports'[j].entries[f] = imports[j].entries[f]
  BY <1>4, <1>12
<1>5. Shaped'
  <2>1. ASSUME NEW j \in DOMAIN imports, NEW f \in DOMAIN imports[j].entries
        PROVE  {"name", "matched", "action"} \subseteq DOMAIN imports'[j].entries[f]
    <3>1. CASE j = k /\ f = e
      <4>1. {"name", "matched", "action"} \subseteq DOMAIN new
        BY <1>2, <1>3
      <4> QED BY <1>4, <3>1, <4>1
    <3>2. CASE ~(j = k /\ f = e)
      <4>0. imports'[j].entries[f] = imports[j].entries[f]
        BY <1>12, <3>2
      <4>1. imports'[j].entries[f] = Entry(j, f)
        BY <4>0 DEF Entry
      <4> QED BY <4>1 DEF ReviewInv, Shaped
    <3> QED BY <3>1, <3>2
  <2>2. ASSUME NEW j \in DOMAIN imports
        PROVE  {"status", "entries"} \subseteq DOMAIN imports'[j]
    BY <1>4 DEF ReviewInv, Shaped
  <2>3. ASSUME NEW j \in DOMAIN imports', NEW f \in DOMAIN imports'[j].entries
        PROVE  {"name", "matched", "action"} \subseteq DOMAIN imports'[j].entries[f]
    <3>1. j \in DOMAIN imports /\ f \in DOMAIN imports[j].entries
      BY <1>4, <2>3
    <3> QED BY <2>1, <3>1
  <2> QED BY <1>4, <2>2, <2>3 DEF Shaped, Entry
<1>6. old.action # NULL => new.action # NULL
  BY <1>1, <1>3, IngestionAssumption DEF Addressed
<1>7. ApprovedMeansDecided'
  <2> SUFFICES ASSUME NEW j \in DOMAIN imports, imports'[j].status = "approved",
                      NEW f \in DOMAIN imports[j].entries
               PROVE  imports'[j].entries[f].action # NULL
    BY <1>4 DEF ApprovedMeansDecided, Entry
  <2>1. imports[j].status = "approved"
    BY <1>4
  <2>2. Entry(j, f).action # NULL
    BY <2>1 DEF ReviewInv, ApprovedMeansDecided
  <2>3. CASE j = k /\ f = e
    BY <1>4, <1>6, <2>2, <2>3
  <2>4. CASE ~(j = k /\ f = e)
    <3>0. imports'[j].entries[f] = imports[j].entries[f]
      BY <1>12, <2>4
    <3>1. imports'[j].entries[f] = Entry(j, f)
      BY <3>0 DEF Entry
    <3> QED BY <2>2, <3>1
  <2> QED BY <2>3, <2>4
<1>8. new.matched = old.matched \/ Booked(k, old.name, new.matched)'
  BY <1>1, <1>3 DEF Booked
<1>9. new.action \in {"match", "new"} => Backed(k, e, old.name, new.matched)'
  <2> SUFFICES ASSUME new.action \in {"match", "new"}
               PROVE  Backed(k, e, old.name, new.matched)'
    OBVIOUS
  <2>1. CASE q.action = "skip" /\ m = q.seen.matched
    <3>1. old.action \in {"match", "new"} /\ new.matched = old.matched
      BY <1>3, <2>1
    <3>2. Backed(k, e, old.name, old.matched)
      BY <1>1, <3>1 DEF ReviewInv, EntriesBacked
    <3> QED BY <3>1, <3>2 DEF Backed, Booked
  <2>2. CASE /\ m \notin Known \ catalog
             /\ <<k, m>> \in priced' /\ <<old.name, m>> \in aliases'
    <3>0. Booked(k, old.name, m)'
      BY <2>2 DEF Booked
    <3>1. CASE q.seen.matched # m
      BY <1>3, <3>0, <3>1 DEF Backed, Booked
    <3>2. CASE q.seen.matched = m
      <4>1. \/ old.matched = m
            \/ Booked(k, old.name, old.matched)
            \/ old.matched = NULL /\ <<k, e>> \in wiped
        BY <1>1, <2>2, <3>2 DEF Explained
      <4>2. new.matched = old.matched
        BY <1>3, <3>2
      <4>3. CASE old.matched = m
        BY <3>0, <4>2, <4>3 DEF Backed, Booked
      <4>4. CASE Booked(k, old.name, old.matched)
        BY <4>2, <4>4 DEF Backed, Booked
      <4>5. CASE old.matched = NULL /\ <<k, e>> \in wiped
        BY <3>0, <4>2, <4>5 DEF Backed, Booked
      <4> QED BY <4>1, <4>3, <4>4, <4>5
    <3> QED BY <3>1, <3>2
  <2> QED BY <2>1, <2>2
<1>10. EntriesBacked'
  <2>1. ASSUME NEW j \in DOMAIN imports, NEW f \in DOMAIN imports[j].entries, NEW row,
               row = imports'[j].entries[f], row.action \in {"match", "new"}
        PROVE  Backed(j, f, row.name, row.matched)'
    <3>1. CASE j = k /\ f = e
      <4>1. row = new
        BY <1>4, <2>1, <3>1
      <4> QED BY <1>3, <1>9, <2>1, <3>1, <4>1
    <3>2. CASE ~(j = k /\ f = e)
      <4>1. row = Entry(j, f)
        BY <1>12, <2>1, <3>2 DEF Entry
      <4>2. Backed(j, f, row.name, row.matched)
        BY <2>1, <4>1 DEF ReviewInv, EntriesBacked
      <4> QED BY <4>2 DEF Backed, Booked
    <3> QED BY <3>1, <3>2
  <2>2. ASSUME NEW j \in DOMAIN imports', NEW f \in DOMAIN imports'[j].entries, NEW row,
               row = imports'[j].entries[f], row.action \in {"match", "new"}
        PROVE  Backed(j, f, row.name, row.matched)'
    <3>1. j \in DOMAIN imports /\ f \in DOMAIN imports[j].entries
      BY <1>4, <2>2
    <3> QED BY <2>1, <2>2, <3>1
  <2> QED BY <2>2, BackedAfter
<1>11. RequestsExplained'
  <2> DEFINE done == [q EXCEPT !.saved = TRUE]
  <2>1. req' = [s \in Reviewers |-> IF s = r THEN done ELSE req[s]]
    BY DEF ReviewInv, RequestsExplained
  <2>2. Addressed(done)' /\ Explained(done)'
    BY <1>1, <1>4 DEF Addressed, Explained
  <2> HIDE DEF done
  <2>3. ASSUME NEW s \in Reviewers, s # r, NEW p, p = req[s], p # NULL
        PROVE  Addressed(p)' /\ Explained(p)'
    <3>1. Addressed(p) /\ Explained(p)
      BY <2>3 DEF ReviewInv, RequestsExplained
    <3>2. Addressed(p)'
      BY <1>4, <3>1 DEF Addressed
    <3>3. CASE p.import = k /\ p.entry = e
      <4>1. Entry(k, e) = old /\ Entry(k, e)' = new
        BY <1>4 DEF Entry
      <4>2. \/ p.saved
            \/ old.matched = p.seen.matched
            \/ Booked(k, old.name, old.matched)
            \/ old.matched = NULL /\ p.seen.matched \in Known \ catalog
            \/ old.matched = NULL /\ <<k, e>> \in wiped
        BY <3>1, <3>3, <4>1 DEF Explained
      <4>3. \/ p.saved
            \/ new.matched = p.seen.matched
            \/ Booked(k, new.name, new.matched)'
            \/ new.matched = NULL /\ p.seen.matched \in Known \ catalog'
            \/ new.matched = NULL /\ <<k, e>> \in wiped'
        BY <1>3, <1>8, <4>2 DEF Booked
      <4>4. Entry(p.import, p.entry)' = new
        BY <3>3, <4>1
      <4>5. Explained(p)'
        BY <3>3, <4>3, <4>4 DEF Explained, Booked
      <4> QED BY <3>2, <4>5
    <3>4. CASE ~(p.import = k /\ p.entry = e)
      <4>1. Entry(p.import, p.entry)' = Entry(p.import, p.entry)
        <5>1. p.import \in DOMAIN imports /\ p.entry \in DOMAIN imports[p.import].entries
          BY <3>1 DEF Addressed
        <5>2. imports'[p.import].entries[p.entry] = imports[p.import].entries[p.entry]
          BY <1>4, <3>4, <5>1
        <5> QED BY <5>2 DEF Entry
      <4> QED BY <3>1, <3>2, <4>1 DEF Explained, Booked
    <3> QED BY <3>3, <3>4
  <2> QED BY <2>1, <2>2, <2>3 DEF RequestsExplained
<1> QED BY <1>5, <1>7, <1>10, <1>11 DEF ReviewInv

LEMMA CommitHolds ==
  ASSUME ReviewInv, NEW r \in Reviewers, CommitEntry(r)
  PROVE  ReviewInv'
<1>1. PICK q, old : q = req[r] /\ old = Entry(q.import, q.entry)
  OBVIOUS
<1> DEFINE save(m) == imports' = [imports EXCEPT ![q.import].entries[q.entry] = Saved(old, q, m)]
           book(m) == /\ priced' = priced \cup {<<q.import, m>>}
                      /\ aliases' = aliases \cup {<<old.name, m>>}
<1>2. /\ q # NULL /\ ~q.saved /\ UNCHANGED wiped
      /\ req' = [req EXCEPT ![r].saved = TRUE]
  BY <1>1 DEF CommitEntry, deleteVars
<1>3. ASSUME q.action = "skip", save(q.seen.matched), UNCHANGED <<catalog, aliases, priced>>
      PROVE  ReviewInv'
  BY <1>1, <1>2, <1>3, SaveHolds
<1>4. ASSUME q.target \in catalog, save(q.target), book(q.target), UNCHANGED catalog
      PROVE  ReviewInv'
  BY <1>1, <1>2, <1>4, SaveHolds
<1>5. ASSUME NEW m \in Fresh \ catalog, save(m), book(m), catalog' = catalog \cup {m}
      PROVE  ReviewInv'
  <2>1. m \notin Known \ catalog /\ Known \ catalog \subseteq Known \ catalog'
    BY <1>5, IngestionAssumption
  <2> QED BY <1>1, <1>2, <1>5, <2>1, SaveHolds
<1> QED BY <1>1, <1>3, <1>4, <1>5 DEF CommitEntry

(* What the deletion of m with the entries read changes.                   *)
LEMMA DeleteClears ==
  ASSUME Shaped, NEW d \in Deleters, CommitDelete(d),
         NEW m, NEW read, m = deleting[d].material, read = deleting[d].entries
  PROVE  /\ DOMAIN imports' = DOMAIN imports
         /\ \A k \in DOMAIN imports :
              /\ DOMAIN imports'[k] = DOMAIN imports[k]
              /\ imports'[k].status = imports[k].status
              /\ DOMAIN imports'[k].entries = DOMAIN imports[k].entries
              /\ \A e \in DOMAIN imports[k].entries :
                   imports'[k].entries[e] =
                     IF <<k, e>> \in read THEN [Entry(k, e) EXCEPT !.matched = NULL] ELSE imports[k].entries[e]
BY DEF CommitDelete, Shaped

(* Only a material nothing is booked on can go.                            *)
LEMMA DeleteHolds ==
  ASSUME ReviewInv, NEW d \in Deleters, deleting[d] \in Deletion, CommitDelete(d)
  PROVE  ReviewInv'
<1>0. PICK m, read : m = deleting[d].material /\ read = deleting[d].entries
  OBVIOUS
<1>1. /\ m \in Known
      /\ catalog' = catalog \ {m}
      /\ UNCHANGED <<aliases, priced, req>>
      /\ m \in catalog
      /\ \A k, name : ~Booked(k, name, m)
      /\ wiped' = wiped \cup {ke \in read : Entry(ke[1], ke[2]).matched # m}
  BY <1>0 DEF CommitDelete, Deletable, Deletion, Booked, reviewVars
<1>9. \A k \in DOMAIN imports : \A e \in DOMAIN imports[k].entries :
        Entry(k, e).matched = m => <<k, e>> \in read
  BY <1>0 DEF CommitDelete
<1>2. /\ DOMAIN imports' = DOMAIN imports
      /\ \A k \in DOMAIN imports :
           /\ DOMAIN imports'[k] = DOMAIN imports[k]
           /\ imports'[k].status = imports[k].status
           /\ DOMAIN imports'[k].entries = DOMAIN imports[k].entries
           /\ \A e \in DOMAIN imports[k].entries :
                imports'[k].entries[e] =
                  IF <<k, e>> \in read THEN [Entry(k, e) EXCEPT !.matched = NULL] ELSE imports[k].entries[e]
  BY <1>0, DeleteClears DEF ReviewInv
<1>3. ASSUME NEW k \in DOMAIN imports, NEW e \in DOMAIN imports[k].entries,
             NEW old, NEW new, old = Entry(k, e), new = imports'[k].entries[e]
      PROVE  /\ {"name", "matched", "action"} \subseteq DOMAIN new
             /\ new.name = old.name /\ new.action = old.action
             /\ \/ new.matched = NULL /\ old.matched = m
                \/ new.matched = NULL /\ <<k, e>> \in wiped'
                \/ new.matched = old.matched /\ old.matched # m
  <2>1. {"name", "matched", "action"} \subseteq DOMAIN old
    BY <1>3 DEF ReviewInv, Shaped
  <2>2. CASE <<k, e>> \in read
    <3>1. new = [old EXCEPT !.matched = NULL]
      BY <1>2, <1>3, <2>2
    <3>2. old.matched # m => <<k, e>> \in wiped'
      BY <1>1, <1>3, <2>2
    <3> QED BY <2>1, <3>1, <3>2
  <2>3. CASE <<k, e>> \notin read
    <3>1. new = old /\ old.matched # m
      BY <1>2, <1>3, <1>9, <2>3 DEF Entry
    <3> QED BY <2>1, <3>1
  <2> QED BY <2>2, <2>3
<1>10. \A k \in DOMAIN imports : \A e \in DOMAIN imports[k].entries :
         /\ {"name", "matched", "action"} \subseteq DOMAIN imports'[k].entries[e]
         /\ imports'[k].entries[e].action = Entry(k, e).action
  <2> SUFFICES ASSUME NEW k \in DOMAIN imports, NEW e \in DOMAIN imports[k].entries
               PROVE  /\ {"name", "matched", "action"} \subseteq DOMAIN imports'[k].entries[e]
                      /\ imports'[k].entries[e].action = Entry(k, e).action
    OBVIOUS
  <2>1. PICK old, new : old = Entry(k, e) /\ new = imports'[k].entries[e]
    OBVIOUS
  <2>2. /\ {"name", "matched", "action"} \subseteq DOMAIN new
        /\ new.name = old.name /\ new.action = old.action
        /\ \/ new.matched = NULL /\ old.matched = m
           \/ new.matched = NULL /\ <<k, e>> \in wiped'
           \/ new.matched = old.matched /\ old.matched # m
    BY <1>3, <2>1
  <2> QED BY <2>1, <2>2
<1>4. Shaped'
  BY <1>2, <1>10 DEF ReviewInv, Shaped, Entry
<1>5. ApprovedMeansDecided'
  BY <1>2, <1>10 DEF ReviewInv, ApprovedMeansDecided, Entry
<1>6. EntriesBacked'
  <2>1. ASSUME NEW k \in DOMAIN imports, NEW e \in DOMAIN imports[k].entries,
               NEW new, new = imports'[k].entries[e], new.action \in {"match", "new"}
        PROVE  Backed(k, e, new.name, new.matched)'
    <3>1. PICK old : old = Entry(k, e)
      OBVIOUS
    <3>2. /\ new.name = old.name /\ new.action = old.action
          /\ \/ new.matched = NULL /\ old.matched = m
             \/ new.matched = NULL /\ <<k, e>> \in wiped'
             \/ new.matched = old.matched /\ old.matched # m
      BY <1>3, <2>1, <3>1
    <3>3. Backed(k, e, old.name, old.matched)
      BY <2>1, <3>1, <3>2 DEF ReviewInv, EntriesBacked
    <3>4. PICK x : /\ Booked(k, old.name, x) /\ x # m
                   /\ old.matched = x \/ (old.matched = NULL /\ <<k, e>> \in wiped')
      BY <1>1, <3>3 DEF Backed
    <3>5. Booked(k, new.name, x)'
      BY <1>1, <3>2, <3>4 DEF Booked
    <3>6. NULL # m
      BY <1>1, IngestionAssumption DEF Materials
    <3>7. new.matched = x \/ (new.matched = NULL /\ <<k, e>> \in wiped')
      BY <3>2, <3>4, <3>6
    <3> QED BY <3>5, <3>7 DEF Backed, Booked
  <2> QED BY <1>2, <2>1 DEF EntriesBacked, Backed, Booked, Entry
<1>7. ASSUME NEW p, Addressed(p), Explained(p)
      PROVE  Addressed(p)' /\ Explained(p)'
  <2>1. Addressed(p)'
    BY <1>2, <1>7 DEF Addressed
  <2>2. PICK k, e, old, new : /\ k = p.import /\ e = p.entry
                              /\ old = Entry(k, e) /\ new = imports'[k].entries[e]
    OBVIOUS
  <2>3. /\ new.name = old.name
        /\ \/ new.matched = NULL /\ old.matched = m
           \/ new.matched = NULL /\ <<k, e>> \in wiped'
           \/ new.matched = old.matched /\ old.matched # m
    BY <1>3, <1>7, <2>2 DEF Addressed
  <2>4. \/ p.saved
        \/ old.matched = p.seen.matched
        \/ Booked(k, old.name, old.matched)
        \/ old.matched = NULL /\ p.seen.matched \in Known \ catalog
        \/ old.matched = NULL /\ <<k, e>> \in wiped
    BY <1>7, <2>2 DEF Explained
  <2>5. \/ p.saved
        \/ new.matched = p.seen.matched
        \/ Booked(k, new.name, new.matched)
        \/ new.matched = NULL /\ p.seen.matched \in Known \ catalog'
        \/ new.matched = NULL /\ <<k, e>> \in wiped'
    <3>1. CASE old.matched = m
      <4>1. old.matched # NULL
        BY <1>1, <3>1, IngestionAssumption DEF Materials
      <4> QED BY <1>1, <2>3, <2>4, <3>1, <4>1
    <3>2. CASE old.matched # m
      BY <1>1, <2>3, <2>4, <3>2
    <3> QED BY <3>1, <3>2
  <2>6. Entry(p.import, p.entry)' = new
    BY <2>2 DEF Entry
  <2>7. Explained(p)'
    BY <1>1, <2>2, <2>5, <2>6 DEF Explained, Booked
  <2> QED BY <2>1, <2>7
<1>8. RequestsExplained'
  <2>1. ASSUME NEW r \in Reviewers, NEW p, p = req[r], p # NULL
        PROVE  Addressed(p)' /\ Explained(p)'
    BY <1>7, <2>1 DEF ReviewInv, RequestsExplained
  <2> QED BY <1>1, <2>1 DEF ReviewInv, RequestsExplained
<1> QED BY <1>4, <1>5, <1>6, <1>8 DEF ReviewInv

(* The tables and the open requests, with what TypeOK says of them.        *)
RowTyped(row, cat) == row \in EntryRow /\ row.matched \in cat \cup {NULL}

TablesTyped ==
  /\ aliases \subseteq RawNames \X catalog
  /\ priced \subseteq (DOMAIN imports) \X catalog
  /\ DOMAIN imports \subseteq Imports
  /\ \A k \in DOMAIN imports :
       /\ imports[k].status \in {"pending_review", "approved"}
       /\ DOMAIN imports[k].entries \subseteq Nat
       /\ \A e \in DOMAIN imports[k].entries : RowTyped(imports[k].entries[e], catalog)

RequestsTyped ==
  /\ req \in [Reviewers -> Request \cup {NULL}]
  /\ unmarked \subseteq DOMAIN imports
  /\ applies \in 0 .. MaxApplies
  /\ deleting \in [Deleters -> Deletion \cup {NULL}] /\ wiped \subseteq Imports \X Nat

TablesInv == TablesTyped /\ RequestsTyped

LEMMA TablesInit == Init => TablesInv
<1> SUFFICES ASSUME Init PROVE TablesInv
  OBVIOUS
<1>1. aliases \subseteq RawNames \X catalog
  BY IngestionAssumption DEF Init
<1>2. DOMAIN imports = {} /\ priced = {}
  BY DEF Init
<1>3. RequestsTyped
  BY IngestionAssumption DEF Init, RequestsTyped
<1> QED BY <1>1, <1>2, <1>3 DEF TablesInv, TablesTyped

LEMMA TablesQuiet ==
  ASSUME TablesInv, UNCHANGED tableVars, UNCHANGED reviewVars, UNCHANGED deleteVars
  PROVE  TablesInv'
BY DEF tableVars, reviewVars, deleteVars, TablesInv, TablesTyped, RequestsTyped, RowTyped

(* Every line has a sensible decision once the pool is done.               *)
LEMMA DecisionKnown ==
  ASSUME UploadInv, Matched, NEW i \in DOMAIN lines
  PROVE  /\ i \in Nat /\ lines[i] \in Line
         /\ Representative(lines, i) \in Nat /\ Representative(lines, i) \in DOMAIN decided
         /\ DecisionOf(i) \in Decision /\ Sensible(DecisionOf(i))
<1>1. PICK n \in Nat : DOMAIN lines = 1 .. n /\ \A j \in 1 .. n : lines[j] \in Line
  BY DEF UploadInv, Grouped, Matched
<1>2. Representative(lines, i) \in 1 .. n /\ Representative(lines, Representative(lines, i)) = Representative(lines, i)
  BY <1>1, RepresentativeSelf
<1>3. Representative(lines, i) \in DOMAIN decided
  BY <1>1, <1>2 DEF UploadInv, Grouped, Matched
<1>4. DecisionOf(i) \in Decision /\ Sensible(DecisionOf(i))
  BY <1>3 DEF UploadInv, Matched, DecisionOf
<1> QED BY <1>1, <1>2, <1>3, <1>4

LEMMA StoreTypes ==
  ASSUME UploadInv, TablesInv, StoreImport
  PROVE  TablesInv'
<1>1. PICK k \in Imports \ DOMAIN imports :
        imports' = [j \in DOMAIN imports \cup {k} |->
          IF j = k THEN [status |-> "pending_review", entries |-> NewEntries] ELSE imports[j]]
  BY DEF StoreImport
<1>2. /\ DOMAIN imports' = DOMAIN imports \cup {k}
      /\ \A j \in DOMAIN imports : imports'[j] = imports[j]
      /\ imports'[k].status = "pending_review" /\ imports'[k].entries = NewEntries
  BY <1>1
<1>3. UNCHANGED <<catalog, aliases, priced, req, unmarked, applies, deleting, wiped>> /\ Matched
  BY DEF StoreImport, reviewVars, deleteVars
<1>4. DOMAIN NewEntries = Kept /\ Kept \subseteq DOMAIN lines /\ Kept \subseteq Nat
  BY <1>3, DecisionKnown DEF NewEntries, Kept
<1>5. ASSUME NEW i \in DOMAIN NewEntries PROVE RowTyped(NewEntries[i], catalog)
  <2>1. /\ lines[i] \in Line /\ DecisionOf(i) \in Decision /\ Sensible(DecisionOf(i))
        /\ DecisionOf(i).action = "match" => DecisionOf(i).material \in catalog
    BY <1>3, <1>4, DecisionKnown DEF StoreImport
  <2>2. Duplicates(i) \cap Kept \in SUBSET Nat
    BY <1>4
  <2>3. NewEntries[i] = [name |-> lines[i].name, matched |-> DecisionOf(i).material, action |-> NULL,
                         failed |-> DecisionOf(i).failed, links |-> Duplicates(i) \cap Kept]
    BY <1>4 DEF NewEntries
  <2>4. DecisionOf(i).material \in catalog \cup {NULL}
    BY <2>1 DEF Sensible
  <2>5. lines[i].name \in RawNames /\ DecisionOf(i).failed \in BOOLEAN /\ DecisionOf(i).material \in Materials \cup {NULL}
    BY <2>1 DEF Line, Decision
  <2> QED BY <2>2, <2>3, <2>4, <2>5 DEF RowTyped, EntryRow
<1>6. TablesTyped'
  BY <1>2, <1>3, <1>4, <1>5 DEF TablesInv, TablesTyped, RowTyped
<1>7. RequestsTyped'
  BY <1>2, <1>3 DEF TablesInv, RequestsTyped
<1> QED BY <1>6, <1>7 DEF TablesInv

LEMMA LoadTypes ==
  ASSUME UploadInv, TablesInv, NEW r \in Reviewers, NEW k \in DOMAIN imports,
         NEW e \in DOMAIN imports[k].entries,
         NEW action \in {"match", "new", "skip"}, NEW target \in catalog \cup {NULL},
         LoadEntry(r, k, e, action, target)
  PROVE  TablesInv'
<1> DEFINE q == [import |-> k, entry |-> e, action |-> action, target |-> target,
                 seen |-> [action |-> Entry(k, e).action, matched |-> Entry(k, e).matched],
                 saved |-> FALSE]
<1>1. /\ req' = [req EXCEPT ![r] = q] /\ applies < MaxApplies /\ applies' = applies + 1
      /\ UNCHANGED <<catalog, aliases, imports, priced, unmarked, deleting, wiped>>
  BY DEF LoadEntry, tableVars, deleteVars
<1>2. Entry(k, e) \in EntryRow
  BY DEF TablesInv, TablesTyped, RowTyped, Entry
<1>3. k \in Imports /\ e \in Nat /\ target \in Materials \cup {NULL}
  BY DEF UploadInv, TablesInv, TablesTyped
<1>4. q \in Request
  BY <1>2, <1>3 DEF EntryRow, Request
<1> HIDE DEF q
<1>5. req' \in [Reviewers -> Request \cup {NULL}]
  BY <1>1, <1>4 DEF TablesInv, RequestsTyped
<1>6. applies' \in 0 .. MaxApplies
  BY <1>1, IngestionAssumption DEF TablesInv, RequestsTyped
<1> QED BY <1>1, <1>5, <1>6 DEF TablesInv, TablesTyped, RequestsTyped, RowTyped

LEMMA EndTypes ==
  ASSUME ReviewInv, TablesInv, NEW r \in Reviewers, MarkImport(r) \/ CutApply(r)
  PROVE  TablesInv'
<1>1. /\ req[r] # NULL /\ req' = [req EXCEPT ![r] = NULL]
      /\ UNCHANGED <<catalog, aliases, priced, applies, deleting, wiped>>
  BY DEF MarkImport, CutApply, tableVars, deleteVars
<1>2. PICK k : k = req[r].import
  OBVIOUS
<1>3. k \in DOMAIN imports
  BY <1>1, <1>2 DEF ReviewInv, RequestsExplained, Addressed
<1>4. unmarked' \subseteq unmarked \cup {k}
  BY <1>2 DEF MarkImport, CutApply
<1>5. imports' = imports \/ imports' = [imports EXCEPT ![k].status = "approved"]
  BY <1>2 DEF MarkImport, CutApply, tableVars
<1>6. /\ DOMAIN imports' = DOMAIN imports
      /\ \A j \in DOMAIN imports :
           /\ imports'[j].entries = imports[j].entries
           /\ imports'[j].status \in {"pending_review", "approved"}
  BY <1>3, <1>5 DEF ReviewInv, Shaped, TablesInv, TablesTyped
<1>7. TablesTyped'
  BY <1>1, <1>6 DEF TablesInv, TablesTyped, RowTyped
<1>8. RequestsTyped'
  BY <1>1, <1>3, <1>4, <1>6 DEF TablesInv, RequestsTyped
<1> QED BY <1>7, <1>8 DEF TablesInv

(* The first commit, as for SaveHolds.                                     *)
LEMMA SaveTypes ==
  ASSUME ReviewInv, TablesInv, catalog \subseteq Materials, catalog' \subseteq Materials,
         NEW r \in Reviewers, NEW q, NEW k, NEW e, NEW old, NEW m,
         q = req[r], q # NULL, k = q.import, e = q.entry, old = Entry(k, e),
         imports' = [imports EXCEPT ![k].entries[e] = Saved(old, q, m)],
         req' = [req EXCEPT ![r].saved = TRUE],
         aliases' \subseteq aliases \cup {<<old.name, m>>}, priced' \subseteq priced \cup {<<k, m>>},
         catalog \subseteq catalog',
         UNCHANGED <<unmarked, applies, deleting, wiped>>,
         \/ m = q.seen.matched /\ UNCHANGED <<aliases, priced>>
         \/ m \in catalog'
  PROVE  TablesInv'
<1>1. /\ q \in Request /\ Addressed(q) /\ k \in DOMAIN imports /\ e \in DOMAIN imports[k].entries
  BY DEF ReviewInv, RequestsExplained, Addressed, TablesInv, RequestsTyped
<1>2. RowTyped(old, catalog)
  BY <1>1 DEF TablesInv, TablesTyped, Entry
<1>3. PICK new : new = Saved(old, q, m)
  OBVIOUS
<1>4. RowTyped(new, catalog')
  <2>1. PICK a, b : /\ a = IF q.seen.action = q.action THEN old.action ELSE q.action
                    /\ b = IF q.seen.matched = m THEN old.matched ELSE m
    OBVIOUS
  <2>2. new = [old EXCEPT !.action = a, !.matched = b]
    BY <1>2, <1>3, <2>1 DEF Saved, RowTyped, EntryRow
  <2>3. a \in {NULL, "match", "new", "skip"}
    BY <1>1, <1>2, <2>1 DEF Request, RowTyped, EntryRow
  <2>4. b \in catalog' \cup {NULL} /\ b \in Materials \cup {NULL}
    BY <1>2, <2>1 DEF RowTyped
  <2> QED BY <1>2, <2>2, <2>3, <2>4 DEF RowTyped, EntryRow
<1>5. /\ DOMAIN imports' = DOMAIN imports
      /\ \A j \in DOMAIN imports :
           /\ imports'[j].status = imports[j].status
           /\ DOMAIN imports'[j].entries = DOMAIN imports[j].entries
           /\ \A f \in DOMAIN imports[j].entries :
                ~(j = k /\ f = e) => imports'[j].entries[f] = imports[j].entries[f]
      /\ imports'[k].entries[e] = new
  <2>1. imports' = [imports EXCEPT ![k].entries[e] = new]
    BY <1>3
  <2> QED BY <1>1, <2>1 DEF ReviewInv, Shaped
<1>6. ASSUME NEW j \in DOMAIN imports, NEW f \in DOMAIN imports[j].entries
      PROVE  RowTyped(imports'[j].entries[f], catalog')
  <2>1. CASE j = k /\ f = e
    <3>1. imports'[k].entries[e] = new
      BY <1>5
    <3> QED BY <1>4, <2>1, <3>1
  <2>2. CASE ~(j = k /\ f = e)
    <3>1. imports'[j].entries[f] = imports[j].entries[f]
      BY <1>5, <2>2
    <3>2. RowTyped(imports[j].entries[f], catalog)
      BY DEF TablesInv, TablesTyped
    <3> QED BY <3>1, <3>2 DEF RowTyped
  <2> QED BY <2>1, <2>2
<1>7. aliases' \subseteq RawNames \X catalog' /\ priced' \subseteq (DOMAIN imports) \X catalog'
  <2>1. old.name \in RawNames
    BY <1>2 DEF RowTyped, EntryRow
  <2>2. aliases \subseteq RawNames \X catalog' /\ priced \subseteq (DOMAIN imports) \X catalog'
    BY DEF TablesInv, TablesTyped
  <2> QED BY <1>1, <2>1, <2>2
<1>8. TablesTyped'
  <2>1. \A j \in DOMAIN imports : /\ imports[j].status \in {"pending_review", "approved"}
                                  /\ DOMAIN imports[j].entries \subseteq Nat
    BY DEF TablesInv, TablesTyped
  <2>2. DOMAIN imports' \subseteq Imports
    BY <1>5 DEF TablesInv, TablesTyped
  <2>3. \A j \in DOMAIN imports' : \A f \in DOMAIN imports'[j].entries : RowTyped(imports'[j].entries[f], catalog')
    BY <1>5, <1>6
  <2>4. \A j \in DOMAIN imports' : /\ imports'[j].status \in {"pending_review", "approved"}
                                   /\ DOMAIN imports'[j].entries \subseteq Nat
    BY <1>5, <2>1
  <2>5. DOMAIN imports' = DOMAIN imports
    BY <1>5
  <2> QED BY <1>7, <2>2, <2>3, <2>4, <2>5 DEF TablesTyped
<1>9. RequestsTyped'
  <2>1. [q EXCEPT !.saved = TRUE] \in Request
    BY <1>1 DEF Request
  <2>2. req' = [req EXCEPT ![r] = [q EXCEPT !.saved = TRUE]]
    OBVIOUS
  <2> HIDE DEF Request
  <2> QED BY <1>5, <2>1, <2>2 DEF TablesInv, RequestsTyped
<1> QED BY <1>8, <1>9 DEF TablesInv

LEMMA CommitTypes ==
  ASSUME ReviewInv, TablesInv, catalog \subseteq Materials, NEW r \in Reviewers, CommitEntry(r)
  PROVE  TablesInv'
<1>1. PICK q, old : q = req[r] /\ old = Entry(q.import, q.entry)
  OBVIOUS
<1> DEFINE save(m) == imports' = [imports EXCEPT ![q.import].entries[q.entry] = Saved(old, q, m)]
           book(m) == /\ priced' = priced \cup {<<q.import, m>>}
                      /\ aliases' = aliases \cup {<<old.name, m>>}
<1>2. /\ q # NULL
      /\ req' = [req EXCEPT ![r].saved = TRUE]
      /\ UNCHANGED <<unmarked, applies, deleting, wiped>>
  BY <1>1 DEF CommitEntry, deleteVars
<1>3. ASSUME save(q.seen.matched), UNCHANGED <<catalog, aliases, priced>>
      PROVE  TablesInv'
  BY <1>1, <1>2, <1>3, SaveTypes
<1>4. ASSUME q.target \in catalog, save(q.target), book(q.target), UNCHANGED catalog
      PROVE  TablesInv'
  BY <1>1, <1>2, <1>4, SaveTypes
<1>5. ASSUME NEW m \in Fresh \ catalog, save(m), book(m), catalog' = catalog \cup {m}
      PROVE  TablesInv'
  <2>1. catalog' \subseteq Materials /\ m \in catalog' /\ catalog \subseteq catalog'
    BY <1>5 DEF Materials
  <2> QED BY <1>1, <1>2, <1>5, <2>1, SaveTypes
<1> QED BY <1>1, <1>3, <1>4, <1>5 DEF CommitEntry

LEMMA DeleteTypes ==
  ASSUME ReviewInv, TablesInv, NEW d \in Deleters, CommitDelete(d)
  PROVE  TablesInv'
<1>0. PICK m, read : m = deleting[d].material /\ read = deleting[d].entries
  OBVIOUS
<1>1. /\ catalog' = catalog \ {m} /\ Deletable(m)
      /\ UNCHANGED <<aliases, priced, req, unmarked, applies>>
      /\ read \subseteq Imports \X Nat
  BY <1>0 DEF CommitDelete, reviewVars, TablesInv, RequestsTyped, Deletion
<1>2. /\ DOMAIN imports' = DOMAIN imports
      /\ \A k \in DOMAIN imports :
           /\ imports'[k].status = imports[k].status
           /\ DOMAIN imports'[k].entries = DOMAIN imports[k].entries
           /\ \A e \in DOMAIN imports[k].entries :
                imports'[k].entries[e] =
                  IF <<k, e>> \in read THEN [Entry(k, e) EXCEPT !.matched = NULL] ELSE imports[k].entries[e]
  BY <1>0, DeleteClears DEF ReviewInv
<1>3. ASSUME NEW k \in DOMAIN imports, NEW e \in DOMAIN imports[k].entries,
             NEW old, NEW new, old = Entry(k, e), new = imports'[k].entries[e]
      PROVE  RowTyped(new, catalog')
  <2>1. RowTyped(old, catalog)
    BY <1>3 DEF TablesInv, TablesTyped, Entry
  <2>2. CASE <<k, e>> \in read
    <3>1. new = [old EXCEPT !.matched = NULL]
      BY <1>2, <1>3, <2>2
    <3> QED BY <2>1, <3>1 DEF RowTyped, EntryRow
  <2>3. CASE <<k, e>> \notin read
    <3>1. new = old
      BY <1>2, <1>3, <2>3 DEF Entry
    <3>2. old.matched # m
      BY <1>0, <1>3, <2>3 DEF CommitDelete
    <3> QED BY <1>1, <2>1, <3>1, <3>2 DEF RowTyped
  <2> QED BY <2>2, <2>3
<1>4. aliases \subseteq RawNames \X catalog' /\ priced \subseteq (DOMAIN imports) \X catalog'
  BY <1>1 DEF TablesInv, TablesTyped, Deletable
<1>5. TablesTyped'
  <2>1. \A j \in DOMAIN imports : /\ imports[j].status \in {"pending_review", "approved"}
                                  /\ DOMAIN imports[j].entries \subseteq Nat
    BY DEF TablesInv, TablesTyped
  <2>2. DOMAIN imports' \subseteq Imports
    BY <1>2 DEF TablesInv, TablesTyped
  <2>3. \A j \in DOMAIN imports' : \A f \in DOMAIN imports'[j].entries : RowTyped(imports'[j].entries[f], catalog')
    BY <1>2, <1>3
  <2>4. \A j \in DOMAIN imports' : /\ imports'[j].status \in {"pending_review", "approved"}
                                   /\ DOMAIN imports'[j].entries \subseteq Nat
    BY <1>2, <2>1
  <2> QED BY <1>1, <1>2, <1>4, <2>2, <2>3, <2>4 DEF TablesTyped, RowTyped
<1>6. RequestsTyped'
  <2>1. deleting' \in [Deleters -> Deletion \cup {NULL}]
    BY DEF CommitDelete, TablesInv, RequestsTyped
  <2>2. wiped' \subseteq Imports \X Nat
    <3>1. wiped' \subseteq wiped \cup read
      BY <1>0 DEF CommitDelete
    <3> QED BY <1>1, <3>1 DEF TablesInv, RequestsTyped
  <2> QED BY <1>1, <1>2, <2>1, <2>2 DEF TablesInv, RequestsTyped
<1> QED BY <1>5, <1>6 DEF TablesInv

(* Opening or cutting a deletion changes no table.                         *)
LEMMA OpenDeleteTypes ==
  ASSUME TablesInv, NEW d \in Deleters, CutDelete(d) \/ \E m \in Known : LoadReferences(d, m)
  PROVE  TablesInv'
<1>1. UNCHANGED <<catalog, aliases, imports, priced, req, unmarked, applies, wiped>>
  BY DEF CutDelete, LoadReferences, tableVars, reviewVars
<1>2. deleting' \in [Deleters -> Deletion \cup {NULL}]
  <2>1. CASE CutDelete(d)
    BY <2>1 DEF CutDelete, TablesInv, RequestsTyped
  <2>2. CASE \E m \in Known : LoadReferences(d, m)
    <3>0. PICK m \in Known : LoadReferences(d, m)
      BY <2>2
    <3>1. PICK read : /\ deleting' = [deleting EXCEPT ![d] = [material |-> m, entries |-> read]]
                      /\ read \subseteq UNION {{k} \X DOMAIN imports[k].entries : k \in DOMAIN imports}
      <4>1. PICK read : read = {ke \in UNION {{k} \X DOMAIN imports[k].entries : k \in DOMAIN imports} :
                                  Entry(ke[1], ke[2]).matched = m}
        OBVIOUS
      <4>2. deleting' = [deleting EXCEPT ![d] = [material |-> m, entries |-> read]]
        BY <3>0, <4>1, Zenon DEF LoadReferences
      <4>3. read \subseteq UNION {{k} \X DOMAIN imports[k].entries : k \in DOMAIN imports}
        BY <4>1, Zenon
      <4> QED BY <4>2, <4>3
    <3>2. read \subseteq Imports \X Nat
      BY <3>1 DEF TablesInv, TablesTyped
    <3>3. [material |-> m, entries |-> read] \in Deletion
      BY <3>2 DEF Deletion
    <3> QED BY <3>1, <3>3 DEF TablesInv, RequestsTyped
  <2> QED BY <2>1, <2>2
<1> QED BY <1>1, <1>2 DEF TablesInv, TablesTyped, RequestsTyped, RowTyped

LEMMA TablesStep == UploadInv /\ ReviewInv /\ TablesInv /\ [Next]_vars => TablesInv'
<1> SUFFICES ASSUME UploadInv, ReviewInv, TablesInv, [Next]_vars PROVE TablesInv'
  OBVIOUS
<1>0. catalog \subseteq Materials
  BY DEF UploadInv
<1>1. CASE UNCHANGED vars
  BY <1>1, TablesQuiet DEF vars
<1>2. CASE \E file \in Files : StartUpload(file)
  BY <1>2, TablesQuiet DEF StartUpload
<1>3. CASE \E c \in unread : ReadChunk(c)
  BY <1>3, TablesQuiet DEF ReadChunk
<1>4. CASE StartMatching
  BY <1>4, TablesQuiet DEF StartMatching
<1>5. CASE \E i \in DOMAIN decided : MatchLine(i)
  BY <1>5, TablesQuiet DEF MatchLine
<1>6. CASE RefuseUpload \/ LoseUpload
  BY <1>6, TablesQuiet DEF RefuseUpload, LoseUpload
<1>7. CASE StoreImport
  BY <1>7, StoreTypes
<1>8. CASE \E r \in Reviewers, k \in DOMAIN imports : \E e \in DOMAIN imports[k].entries :
             \E action \in {"match", "new", "skip"}, target \in catalog \cup {NULL} :
               LoadEntry(r, k, e, action, target)
  BY <1>8, LoadTypes
<1>9. CASE \E r \in Reviewers : CommitEntry(r) \/ MarkImport(r) \/ CutApply(r)
  BY <1>0, <1>9, CommitTypes, EndTypes
<1>10. CASE \E d \in Deleters : CommitDelete(d) \/ CutDelete(d) \/ \E m \in Known : LoadReferences(d, m)
  BY <1>10, DeleteTypes, OpenDeleteTypes
<1> QED BY <1>1, <1>2, <1>3, <1>4, <1>5, <1>6, <1>7, <1>8, <1>9, <1>10 DEF Next

LEMMA StepHolds == ReviewInv /\ TablesInv /\ [Next]_vars => ReviewInv'
<1> SUFFICES ASSUME ReviewInv, TablesInv, [Next]_vars PROVE ReviewInv'
  OBVIOUS
<1>1. CASE UNCHANGED vars
  BY <1>1, QuietHolds DEF vars, reviewVars, deleteVars
<1>2. CASE \E file \in Files : StartUpload(file)
  BY <1>2, QuietHolds DEF StartUpload, reviewVars, deleteVars
<1>3. CASE \E c \in unread : ReadChunk(c)
  BY <1>3, QuietHolds DEF ReadChunk, reviewVars, deleteVars
<1>4. CASE StartMatching
  BY <1>4, QuietHolds DEF StartMatching, reviewVars, deleteVars
<1>5. CASE \E i \in DOMAIN decided : MatchLine(i)
  BY <1>5, QuietHolds DEF MatchLine, reviewVars, deleteVars
<1>6. CASE RefuseUpload \/ LoseUpload
  BY <1>6, QuietHolds DEF RefuseUpload, LoseUpload, reviewVars, deleteVars
<1>7. CASE StoreImport
  BY <1>7, StoreHolds
<1>8. CASE \E r \in Reviewers, k \in DOMAIN imports : \E e \in DOMAIN imports[k].entries :
             \E action \in {"match", "new", "skip"}, target \in catalog \cup {NULL} :
               LoadEntry(r, k, e, action, target)
  BY <1>8, LoadHolds
<1>9. CASE \E r \in Reviewers : CommitEntry(r) \/ MarkImport(r) \/ CutApply(r)
  BY <1>9, CommitHolds, EndHolds
<1>10. CASE \E d \in Deleters : CommitDelete(d)
  <2>1. PICK d \in Deleters : CommitDelete(d) /\ deleting[d] \in Deletion
    BY <1>10 DEF CommitDelete, TablesInv, RequestsTyped
  <2> QED BY <2>1, DeleteHolds
<1>11. CASE \E d \in Deleters : CutDelete(d) \/ \E m \in Known : LoadReferences(d, m)
  BY <1>11, QuietHolds DEF CutDelete, LoadReferences, reviewVars
<1> QED BY <1>1, <1>2, <1>3, <1>4, <1>5, <1>6, <1>7, <1>8, <1>9, <1>10, <1>11 DEF Next

-----------------------------------------------------------------------------
(* The mark of an import under overlapping requests.                       *)

(* A request on import k is between its two commits.                       *)
Between(k) == \E r \in Reviewers : req[r] # NULL /\ req[r].saved /\ req[r].import = k

AllDecided(k) ==
  DOMAIN imports[k].entries # {} /\ \A e \in DOMAIN imports[k].entries : Entry(k, e).action # NULL

(* DecidedMeansApproved, one import at a time.                             *)
Marked(k) == k \notin unmarked /\ AllDecided(k) /\ ~Between(k) => imports[k].status = "approved"

LEMMA MarkedMeans == DecidedMeansApproved <=> \A k \in DOMAIN imports : Marked(k)
BY DEF DecidedMeansApproved, Marked, Between, AllDecided

(* An import stays marked while what the mark depends on stays.            *)
LEMMA MarkedStays ==
  ASSUME NEW k \in DOMAIN imports, Marked(k), k \in DOMAIN imports',
         k \in unmarked <=> k \in unmarked', Between(k) => Between(k)',
         imports'[k].status = imports[k].status,
         DOMAIN imports'[k].entries = DOMAIN imports[k].entries,
         \A e \in DOMAIN imports[k].entries :
           imports'[k].entries[e].action = imports[k].entries[e].action
  PROVE  Marked(k)'
<1>1. AllDecided(k)' => AllDecided(k)
  BY DEF AllDecided, Entry
<1> QED BY <1>1 DEF Marked

LEMMA MarkedQuiet ==
  ASSUME DecidedMeansApproved, UNCHANGED tableVars, UNCHANGED reviewVars
  PROVE  DecidedMeansApproved'
BY DEF tableVars, reviewVars, DecidedMeansApproved, Entry

LEMMA StoreMarks ==
  ASSUME DecidedMeansApproved, StoreImport
  PROVE  DecidedMeansApproved'
<1>1. PICK k \in Imports \ DOMAIN imports :
        imports' = [j \in DOMAIN imports \cup {k} |->
          IF j = k THEN [status |-> "pending_review", entries |-> NewEntries] ELSE imports[j]]
  BY DEF StoreImport
<1>2. /\ DOMAIN imports' = DOMAIN imports \cup {k}
      /\ \A j \in DOMAIN imports : imports'[j] = imports[j]
      /\ imports'[k].entries = NewEntries
  BY <1>1
<1>3. UNCHANGED <<req, unmarked>>
  BY DEF StoreImport, reviewVars
<1>4. \A i \in DOMAIN NewEntries : NewEntries[i].action = NULL
  BY DEF NewEntries
<1>5. Marked(k)'
  BY <1>2, <1>4 DEF Marked, AllDecided, Entry
<1>6. ASSUME NEW j \in DOMAIN imports PROVE Marked(j)'
  <2>1. Between(j) <=> Between(j)'
    BY <1>3 DEF Between
  <2>2. Marked(j)
    BY MarkedMeans
  <2> QED BY <1>2, <1>3, <2>1, <2>2, MarkedStays
<1>7. \A j \in DOMAIN imports' : Marked(j)'
  BY <1>2, <1>5, <1>6
<1> QED BY <1>7, MarkedMeans DEF Marked, Between, AllDecided, DecidedMeansApproved, Entry

(* A request about to start has committed nothing.                         *)
LEMMA LoadMarks ==
  ASSUME DecidedMeansApproved, TablesInv, NEW r \in Reviewers, NEW k, NEW e, NEW action, NEW target,
         LoadEntry(r, k, e, action, target)
  PROVE  DecidedMeansApproved'
<1>1. /\ req[r] = NULL /\ UNCHANGED <<imports, unmarked>>
      /\ \A s \in Reviewers \ {r} : req'[s] = req[s]
  BY DEF LoadEntry, tableVars, TablesInv, RequestsTyped
<1>2. ASSUME NEW j \in DOMAIN imports, Between(j) PROVE Between(j)'
  BY <1>1, <1>2 DEF Between
<1>3. \A j \in DOMAIN imports : Marked(j)'
  BY <1>1, <1>2, MarkedMeans, MarkedStays
<1> QED BY <1>1, <1>3 DEF Marked, Between, AllDecided, DecidedMeansApproved, Entry

(* The first commit puts the request between its commits.                  *)
LEMMA CommitMarks ==
  ASSUME DecidedMeansApproved, ReviewInv, TablesInv, NEW r \in Reviewers, CommitEntry(r)
  PROVE  DecidedMeansApproved'
<1>1. PICK q, old, done : /\ q = req[r] /\ old = Entry(q.import, q.entry)
                          /\ done = [q EXCEPT !.saved = TRUE]
  OBVIOUS
<1>2. q # NULL /\ ~q.saved /\ req' = [req EXCEPT ![r] = done] /\ UNCHANGED unmarked
  BY <1>1 DEF CommitEntry
<1>3. PICK new : imports' = [imports EXCEPT ![q.import].entries[q.entry] = new]
  BY <1>1 DEF CommitEntry
<1>4. q \in Request /\ done \in Request /\ done.saved /\ done.import = q.import /\ done # NULL
  <2>1. q \in Request
    BY <1>1, <1>2 DEF TablesInv, RequestsTyped
  <2>2. done \in Request /\ done.saved /\ done.import = q.import
    BY <1>1, <2>1 DEF Request
  <2> QED BY <2>1, <2>2, NoRequestAssumption
<1>5. req'[r] = done /\ \A s \in Reviewers \ {r} : req'[s] = req[s]
  BY <1>2 DEF TablesInv, RequestsTyped
<1>6. Between(q.import)'
  BY <1>4, <1>5 DEF Between
<1>7. ASSUME NEW j \in DOMAIN imports, j # q.import PROVE Between(j) => Between(j)'
  BY <1>1, <1>5, <1>7 DEF Between
<1>8. DOMAIN imports' = DOMAIN imports /\ \A j \in DOMAIN imports : j # q.import => imports'[j] = imports[j]
  BY <1>3
<1>9. ASSUME NEW j \in DOMAIN imports PROVE Marked(j)'
  <2>1. CASE j = q.import
    BY <1>6, <2>1 DEF Marked
  <2>2. CASE j # q.import
    <3>1. imports'[j] = imports[j] /\ Marked(j) /\ (Between(j) => Between(j)')
      BY <1>7, <1>8, <2>2, MarkedMeans
    <3> QED BY <1>2, <1>8, <3>1, MarkedStays
  <2> QED BY <2>1, <2>2
<1>10. \A j \in DOMAIN imports' : Marked(j)'
  BY <1>8, <1>9
<1> QED BY <1>10 DEF Marked, Between, AllDecided, DecidedMeansApproved, Entry

(* The second commit marks the import, if the entries say so then.         *)
LEMMA EndMarks ==
  ASSUME DecidedMeansApproved, ReviewInv, TablesInv, NEW r \in Reviewers, MarkImport(r) \/ CutApply(r)
  PROVE  DecidedMeansApproved'
<1>1. PICK k : k = req[r].import
  OBVIOUS
<1>2. req[r] # NULL /\ \A s \in Reviewers \ {r} : req'[s] = req[s]
  BY DEF MarkImport, CutApply, TablesInv, RequestsTyped
<1>3. k \in DOMAIN imports
  BY <1>1, <1>2 DEF ReviewInv, RequestsExplained, Addressed
<1>4. /\ DOMAIN imports' = DOMAIN imports
      /\ \A j \in DOMAIN imports : imports'[j].entries = imports[j].entries
      /\ \A j \in DOMAIN imports \ {k} : imports'[j] = imports[j]
      /\ \A j \in DOMAIN imports \ {k} : j \in unmarked <=> j \in unmarked'
  <2>1. imports' = imports \/ imports' = [imports EXCEPT ![k].status = "approved"]
    BY <1>1 DEF MarkImport, CutApply, tableVars
  <2>2. unmarked' \in {unmarked, unmarked \ {k}, unmarked \cup {k}}
    BY <1>1 DEF MarkImport, CutApply
  <2> QED BY <1>3, <2>1, <2>2 DEF ReviewInv, Shaped
<1>5. ASSUME NEW j \in DOMAIN imports, j # k PROVE Marked(j)'
  <2>1. Between(j) => Between(j)'
    BY <1>1, <1>2, <1>5 DEF Between
  <2>2. Marked(j) /\ imports'[j] = imports[j]
    BY <1>4, <1>5, MarkedMeans
  <2> QED BY <1>4, <1>5, <2>1, <2>2, MarkedStays
<1>6. Marked(k)'
  <2>1. CASE MarkImport(r)
    <3>1. CASE Undecided(k) = {}
      <4>1. imports'[k].status = "approved"
        BY <1>1, <1>3, <2>1, <3>1 DEF MarkImport, ReviewInv, Shaped
      <4> QED BY <4>1 DEF Marked
    <3>2. CASE Undecided(k) # {}
      <4>1. ~AllDecided(k)
        BY <3>2 DEF Undecided, AllDecided
      <4>2. imports' = imports
        BY <1>1, <2>1, <3>2 DEF MarkImport
      <4> QED BY <4>1, <4>2 DEF Marked, AllDecided, Entry
    <3> QED BY <3>1, <3>2
  <2>2. CASE CutApply(r) /\ req[r].saved
    BY <1>1, <2>2 DEF CutApply, Marked
  <2>3. CASE CutApply(r) /\ ~req[r].saved
    <3>1. imports' = imports /\ unmarked' = unmarked
      BY <2>3 DEF CutApply, tableVars
    <3>2. Between(k) => Between(k)'
      BY <1>2, <2>3 DEF Between
    <3>3. Marked(k)
      BY <1>3, MarkedMeans
    <3> QED BY <1>3, <3>1, <3>2, <3>3, MarkedStays
  <2> QED BY <2>1, <2>2, <2>3
<1>7. \A j \in DOMAIN imports' : Marked(j)'
  BY <1>4, <1>5, <1>6
<1> QED BY <1>7 DEF Marked, Between, AllDecided, DecidedMeansApproved, Entry

(* A deletion decides nothing.                                             *)
LEMMA DeleteMarks ==
  ASSUME DecidedMeansApproved, ReviewInv, NEW d \in Deleters, CommitDelete(d)
  PROVE  DecidedMeansApproved'
<1>1. UNCHANGED <<req, unmarked>>
  BY DEF CommitDelete, reviewVars
<1>2. /\ DOMAIN imports' = DOMAIN imports
      /\ \A k \in DOMAIN imports :
           /\ imports'[k].status = imports[k].status
           /\ DOMAIN imports'[k].entries = DOMAIN imports[k].entries
           /\ \A e \in DOMAIN imports[k].entries :
                imports'[k].entries[e].action = imports[k].entries[e].action
  <2>1. PICK m, read : m = deleting[d].material /\ read = deleting[d].entries
    OBVIOUS
  <2>2. ASSUME NEW k \in DOMAIN imports, NEW e \in DOMAIN imports[k].entries
        PROVE  imports'[k].entries[e].action = imports[k].entries[e].action
    <3>1. imports'[k].entries[e] =
            IF <<k, e>> \in read THEN [Entry(k, e) EXCEPT !.matched = NULL] ELSE imports[k].entries[e]
      BY <2>1, DeleteClears DEF ReviewInv
    <3>2. "action" \in DOMAIN Entry(k, e) /\ Entry(k, e) = imports[k].entries[e]
      BY DEF ReviewInv, Shaped, Entry
    <3> QED BY <3>1, <3>2
  <2> QED BY <2>1, <2>2, DeleteClears DEF ReviewInv
<1>3. \A j \in DOMAIN imports' : Marked(j)'
  <2>1. \A j : Between(j) <=> Between(j)'
    BY <1>1 DEF Between
  <2> QED BY <1>1, <1>2, <2>1, MarkedMeans, MarkedStays
<1> QED BY <1>3 DEF Marked, Between, AllDecided, DecidedMeansApproved, Entry

LEMMA MarkedStep ==
  DecidedMeansApproved /\ ReviewInv /\ TablesInv /\ [Next]_vars => DecidedMeansApproved'
<1> SUFFICES ASSUME DecidedMeansApproved, ReviewInv, TablesInv, [Next]_vars PROVE DecidedMeansApproved'
  OBVIOUS
<1>1. CASE UNCHANGED vars
  BY <1>1, MarkedQuiet DEF vars
<1>2. CASE \E file \in Files : StartUpload(file)
  BY <1>2, MarkedQuiet DEF StartUpload
<1>3. CASE \E c \in unread : ReadChunk(c)
  BY <1>3, MarkedQuiet DEF ReadChunk
<1>4. CASE StartMatching
  BY <1>4, MarkedQuiet DEF StartMatching
<1>5. CASE \E i \in DOMAIN decided : MatchLine(i)
  BY <1>5, MarkedQuiet DEF MatchLine
<1>6. CASE RefuseUpload \/ LoseUpload
  BY <1>6, MarkedQuiet DEF RefuseUpload, LoseUpload
<1>7. CASE StoreImport
  BY <1>7, StoreMarks
<1>8. CASE \E r \in Reviewers, k \in DOMAIN imports : \E e \in DOMAIN imports[k].entries :
             \E action \in {"match", "new", "skip"}, target \in catalog \cup {NULL} :
               LoadEntry(r, k, e, action, target)
  BY <1>8, LoadMarks
<1>9. CASE \E r \in Reviewers : CommitEntry(r) \/ MarkImport(r) \/ CutApply(r)
  BY <1>9, CommitMarks, EndMarks
<1>10. CASE \E d \in Deleters : CommitDelete(d)
  BY <1>10, DeleteMarks
<1>11. CASE \E d \in Deleters : CutDelete(d) \/ \E m \in Known : LoadReferences(d, m)
  BY <1>11, MarkedQuiet DEF CutDelete, LoadReferences
<1> QED BY <1>1, <1>2, <1>3, <1>4, <1>5, <1>6, <1>7, <1>8, <1>9, <1>10, <1>11 DEF Next

-----------------------------------------------------------------------------
(* What a stored import holds.                                             *)

(* What the transaction of create_price_list_import writes.                *)
LEMMA StoredEntries ==
  ASSUME UploadInv, StoreImport, NEW k \in DOMAIN imports' \ DOMAIN imports
  PROVE  Matched /\ imports'[k].entries = NewEntries
BY DEF StoreImport

(* Only that transaction adds an import.                                   *)
LEMMA OnlyStoreAdds ==
  ASSUME ReviewInv, TablesInv, [Next]_vars
  PROVE  StoreImport \/ DOMAIN imports' = DOMAIN imports
<1>1. ASSUME NEW r \in Reviewers, CommitEntry(r) PROVE DOMAIN imports' = DOMAIN imports
  <2>1. PICK k, e, new : imports' = [imports EXCEPT ![k].entries[e] = new]
    BY <1>1 DEF CommitEntry
  <2> QED BY <2>1
<1>2. ASSUME NEW r \in Reviewers, MarkImport(r) \/ CutApply(r) PROVE DOMAIN imports' = DOMAIN imports
  BY <1>2 DEF MarkImport, CutApply, tableVars
<1> QED
  BY <1>1, <1>2
  DEF Next, vars, tableVars, StartUpload, ReadChunk, StartMatching, MatchLine, RefuseUpload, LoseUpload,
      LoadEntry, CommitDelete, CutDelete, LoadReferences

(* A line with the key of one that was matched inherits its decision.      *)
LEMMA InheritsMatch ==
  ASSUME UploadInv, Matched, NEW i \in DOMAIN lines, NEW j \in DOMAIN decided, SameKey(lines[i], lines[j])
  PROVE  DecisionOf(i) = decided[j]
<1>1. PICK n \in Nat : DOMAIN lines = 1 .. n
  BY DEF UploadInv, Grouped, Matched
<1>2. j \in 1 .. n /\ Representative(lines, j) = j
  BY <1>1 DEF UploadInv, Grouped, Matched
<1>3. Representative(lines, i) = j
  BY <1>1, <1>2, RepresentativeOfKey
<1> QED BY <1>3 DEF DecisionOf

LEMMA NewReachReview ==
  ASSUME UploadInv, StoreImport, NEW k \in DOMAIN imports' \ DOMAIN imports,
         NEW i \in DOMAIN lines, NEW j \in DOMAIN decided,
         SameKey(lines[i], lines[j]), decided[j].action = "match"
  PROVE  /\ i \in DOMAIN imports'[k].entries
         /\ imports'[k].entries[i].matched = decided[j].material
<1>1. Matched /\ imports'[k].entries = NewEntries
  BY StoredEntries
<1>2. DecisionOf(i) = decided[j]
  BY <1>1, InheritsMatch
<1>3. i \in Kept
  BY <1>2 DEF Kept
<1>4. NewEntries[i].matched = DecisionOf(i).material /\ i \in DOMAIN NewEntries
  BY <1>3 DEF NewEntries
<1> QED BY <1>1, <1>2, <1>4

(* Two kept lines are linked exactly when they propose the same.           *)
LEMMA NewAreFlagged ==
  ASSUME UploadInv, StoreImport, NEW k \in DOMAIN imports' \ DOMAIN imports,
         NEW e \in DOMAIN imports'[k].entries, NEW f \in DOMAIN imports'[k].entries,
         e # f, ~imports'[k].entries[e].failed
  PROVE  f \in imports'[k].entries[e].links <=>
           imports'[k].entries[e].matched = imports'[k].entries[f].matched
<1>1. Matched /\ imports'[k].entries = NewEntries
  BY StoredEntries
<1>2. e \in Kept /\ f \in Kept
  BY <1>1 DEF NewEntries
<1>3. e \in DOMAIN lines /\ f \in DOMAIN lines
  BY <1>2 DEF Kept
<1>4. \A i \in {e, f} : /\ NewEntries[i].matched = DecisionOf(i).material
                        /\ NewEntries[i].failed = DecisionOf(i).failed
                        /\ NewEntries[i].links = Duplicates(i) \cap Kept
  BY <1>2 DEF NewEntries
<1>5. /\ Sensible(DecisionOf(e)) /\ Sensible(DecisionOf(f)) /\ ~DecisionOf(e).failed
      /\ DecisionOf(e) \in Decision /\ DecisionOf(f) \in Decision
  BY <1>1, <1>3, <1>4, DecisionKnown
<1>6. DecisionOf(e).action = "match" /\ DecisionOf(e).material \in Materials
  BY <1>2, <1>5 DEF Kept, Sensible
<1>7. DecisionOf(f).action # "match" => DecisionOf(f).material = NULL
  BY <1>5 DEF Sensible
<1>8. ASSUME f = Representative(lines, e) PROVE DecisionOf(f) = DecisionOf(e)
  <2>1. PICK n \in Nat : DOMAIN lines = 1 .. n
    BY <1>1 DEF UploadInv, Grouped, Matched
  <2> QED BY <1>3, <1>8, <2>1, RepresentativeSelf DEF DecisionOf
<1>9. f \in Duplicates(e) <=> f = Representative(lines, e) \/ SameMatch(e, f)
  BY <1>3 DEF Duplicates
<1>10. f \in Duplicates(e) <=> DecisionOf(e).material = DecisionOf(f).material
  <2>1. NULL \notin Materials
    BY IngestionAssumption
  <2> QED BY <1>6, <1>7, <1>8, <1>9, <2>1 DEF SameMatch
<1> QED BY <1>1, <1>2, <1>4, <1>10

-----------------------------------------------------------------------------
IngestionInv == UploadInv /\ ReviewInv /\ TablesInv /\ DecidedMeansApproved

LEMMA IngestionInvHolds == Spec => []IngestionInv
<1>1. Init => IngestionInv
  <2> SUFFICES ASSUME Init PROVE DecidedMeansApproved
    BY UploadInit, InitHolds, TablesInit DEF IngestionInv
  <2> QED BY DEF Init, DecidedMeansApproved
<1>2. IngestionInv /\ [Next]_vars => IngestionInv'
  BY UploadStep, StepHolds, TablesStep, MarkedStep DEF IngestionInv
<1> QED BY <1>1, <1>2, PTL DEF Spec

(* An import maybe_mark_import_approved has approved keeps no undecided    *)
(* entry, however many requests apply its entries.                         *)
THEOREM ApprovedCorrect == Spec => []ApprovedMeansDecided
<1>1. IngestionInv => ApprovedMeansDecided
  BY DEF IngestionInv, ReviewInv
<1> QED BY <1>1, IngestionInvHolds, PTL

(* What _apply_match or _apply_new books stays booked, and the entry names *)
(* it, also after UPDATEs have mixed; only a deletion that had read the    *)
(* entry before can leave it without a material.                           *)
THEOREM AppliedCorrect == Spec => []AppliedIsPriced
<1>1. IngestionInv => AppliedIsPriced
  <2> SUFFICES ASSUME IngestionInv, NEW k \in DOMAIN imports, NEW e \in DOMAIN imports[k].entries,
                      Entry(k, e).action \in {"match", "new"}
               PROVE  LET booked == {m \in catalog : <<k, m>> \in priced /\ <<Entry(k, e).name, m>> \in aliases}
                      IN /\ booked # {}
                         /\ Entry(k, e).matched \in booked \/ (Entry(k, e).matched = NULL /\ <<k, e>> \in wiped)
    BY DEF AppliedIsPriced
  <2>1. PICK m : /\ Booked(k, Entry(k, e).name, m)
                 /\ Entry(k, e).matched = m \/ (Entry(k, e).matched = NULL /\ <<k, e>> \in wiped)
    BY DEF IngestionInv, ReviewInv, EntriesBacked, Backed
  <2>2. m \in catalog /\ <<k, m>> \in priced /\ <<Entry(k, e).name, m>> \in aliases
    BY <2>1 DEF Booked, IngestionInv, TablesInv, TablesTyped
  <2> QED BY <2>1, <2>2
<1> QED BY <1>1, IngestionInvHolds, PTL

(* Every printed line is matched once: the chunks extract_price_list_lines *)
(* cuts cover the file, and group_duplicate_lines leaves one line of each  *)
(* page and name, for files of any length and any answers of the model.    *)
THEOREM MatchedOnceCorrect == Spec => []PrintedMatchedOnce
<1>1. IngestionInv => PrintedMatchedOnce
  <2> SUFFICES ASSUME IngestionInv PROVE PrintedMatchedOnce
    OBVIOUS
  <2>1. TypeOK
    BY DEF IngestionInv, UploadInv, TablesInv, TablesTyped, RequestsTyped, RowTyped, TypeOK, Entry
  <2> QED BY <2>1, MatchedOnce DEF IngestionInv, PrintedMatchedOnce
<1> QED BY <1>1, IngestionInvHolds, PTL

(* No line excluded: what create_price_list_import stores has an entry for *)
(* every copy of a line matched, with the proposal of its representative.  *)
THEOREM ReachReviewCorrect == Spec => MatchesReachReview
<1>1. IngestionInv /\ [Next]_vars =>
        [\A k \in DOMAIN imports' \ DOMAIN imports : \A i \in DOMAIN lines, j \in DOMAIN decided :
           SameKey(lines[i], lines[j]) /\ decided[j].action = "match" =>
             /\ i \in DOMAIN imports'[k].entries
             /\ imports'[k].entries[i].matched = decided[j].material]_vars
  BY OnlyStoreAdds, NewReachReview DEF IngestionInv
<1> QED BY <1>1, IngestionInvHolds, PTL DEF Spec, MatchesReachReview

(* Entries stored together point at each other exactly when they propose   *)
(* the same material: _flag_duplicate_lines misses no pair and invents none*)
THEOREM FlaggedCorrect == Spec => SameMaterialIsFlagged
<1>1. IngestionInv /\ [Next]_vars =>
        [\A k \in DOMAIN imports' \ DOMAIN imports :
           LET new == imports'[k].entries
           IN \A e, f \in DOMAIN new :
                e # f /\ ~new[e].failed => (f \in new[e].links <=> new[e].matched = new[f].matched)]_vars
  BY OnlyStoreAdds, NewAreFlagged DEF IngestionInv
<1> QED BY <1>1, IngestionInvHolds, PTL DEF Spec, SameMaterialIsFlagged

(* Between them the second commits of overlapping reviews mark every import*)
(* whose entries are all decided, unless one of them was stopped before it.*)
THEOREM MarkedCorrect == Spec => []DecidedMeansApproved
<1>1. IngestionInv => DecidedMeansApproved
  BY DEF IngestionInv
<1> QED BY <1>1, IngestionInvHolds, PTL

-----------------------------------------------------------------------------
(* Replies to orders: the invariant of the link requests.                  *)

(* What the variables hold.                                                *)
ReplyTypes ==
  /\ aliasRows \in [Alias -> AliasSet \union {None, GONE}]
  /\ tx \in [Worker -> LinkSet \union {None}]
  /\ overlapped \in BOOLEAN
  /\ items \in Copies
  /\ call \in Copies \union {None}

(* Row a was taught by a link, for spelling s.                             *)
Taught(a, s) == There(a) /\ aliasRows[a].origin = "order_response" /\ aliasRows[a].spelling = s

(* What an open request read is still so, but for a row deleted meanwhile. *)
StillSo(t) ==
  /\ t.existing = None => \A a \in Alias : ~Taught(a, t.spelling)
  /\ t.existing # None => aliasRows[t.existing] = GONE \/ Taught(t.existing, t.spelling)

(* While no two requests overlap: one is open at most, what it read is     *)
(* still so, and a spelling is taught by one row.                          *)
SerialInv ==
  ~overlapped =>
    /\ \A v, w \in Worker : tx[v] # None /\ tx[w] # None => v = w
    /\ \A w \in Worker : tx[w] # None => StillSo(tx[w])
    /\ \A a, b \in Alias, s \in Spelling : Taught(a, s) /\ Taught(b, s) => a = b

ReplyInv == ReplyTypes /\ SerialInv

LEMMA ReplyInitHolds == ReplyInit => ReplyInv
<1> SUFFICES ASSUME ReplyInit PROVE ReplyInv
  OBVIOUS
<1> USE ReplyAssumption
<1>1. PICK imported \in [spelling : Spelling, material : Material, origin : {"price_import"}] :
       \/ aliasRows = [a \in Alias |-> None]
       \/ \E a \in Alias : aliasRows = [b \in Alias |-> IF b = a THEN imported ELSE None]
  BY DEF ReplyInit
<1>2. imported \in AliasSet /\ imported.origin # "order_response"
  BY DEF AliasSet
<1>3. aliasRows \in [Alias -> AliasSet \union {None, GONE}] /\ \A a \in Alias : aliasRows[a] \in {imported, None}
  BY <1>1, <1>2
<1>4. \A a \in Alias : \A s : ~Taught(a, s)
  BY <1>2, <1>3 DEF Taught, There
<1>5. ReplyTypes
  <2>1. items \in Copies
    BY DEF ReplyInit, Copies
  <2>2. tx \in [Worker -> LinkSet \union {None}] /\ overlapped = FALSE /\ call = None
    BY DEF ReplyInit
  <2> QED BY <1>3, <2>1, <2>2 DEF ReplyTypes
<1>6. SerialInv
  BY <1>4 DEF ReplyInit, SerialInv
<1> QED BY <1>5, <1>6 DEF ReplyInv

LEMMA OpenLinkKeeps ==
  ASSUME ReplyInv, NEW w \in Worker, NEW s \in Spelling, NEW m \in Material, NEW force \in BOOLEAN,
         OpenLink(w, s, m, force)
  PROVE  ReplyInv'
<1> USE ReplyAssumption
<1>1. PICK existing \in Existing(s) :
         tx' = [tx EXCEPT ![w] = [existing |-> existing, spelling |-> s, material |-> m]]
  BY DEF OpenLink
<1> DEFINE t == [existing |-> existing, spelling |-> s, material |-> m]
<1>2. UNCHANGED <<items, aliasRows, call>> /\ tx[w] = None /\ overlapped \in BOOLEAN
      /\ overlapped' = (overlapped \/ \E v \in Worker : tx[v] # None)
  BY DEF OpenLink, ReplyInv, ReplyTypes
<1>3. \/ existing = None /\ \A a \in Alias : ~Taught(a, s)
      \/ existing \in Alias /\ Taught(existing, s)
  BY DEF Existing, Learnt, Taught
<1>4. t \in LinkSet /\ t # None
  BY <1>3 DEF LinkSet
<1>5. tx' \in [Worker -> LinkSet \union {None}] /\ tx'[w] = t /\ \A v \in Worker : v # w => tx'[v] = tx[v]
  BY <1>1, <1>4 DEF ReplyInv, ReplyTypes
<1>6. ReplyTypes'
  BY <1>2, <1>5 DEF ReplyInv, ReplyTypes
<1>7. StillSo(t)'
  BY <1>2, <1>3 DEF StillSo, Taught, There
<1>8. SUFFICES ASSUME ~overlapped' PROVE SerialInv'
  BY <1>6 DEF ReplyInv, SerialInv
<1>9. ~overlapped /\ \A v \in Worker : tx[v] = None
  BY <1>2, <1>8
<1>10. \A v \in Worker : tx'[v] # None => v = w
  BY <1>5, <1>9
<1>11. \A a, b \in Alias, z \in Spelling : (Taught(a, z) /\ Taught(b, z))' => a = b
  BY <1>2, <1>9 DEF ReplyInv, SerialInv, Taught, There
<1>12. \A v \in Worker : tx'[v] # None => StillSo(tx[v])'
  BY <1>5, <1>7, <1>10
<1> QED BY <1>10, <1>11, <1>12 DEF SerialInv

LEMMA CommitLinkKeeps ==
  ASSUME ReplyInv, NEW w \in Worker, CommitLink(w)
  PROVE  ReplyInv'
<1> USE ReplyAssumption
<1> DEFINE t == tx[w]
           learnt == [spelling |-> t.spelling, material |-> t.material, origin |-> "order_response"]
<1>1. t \in LinkSet /\ t # None /\ learnt \in AliasSet /\ learnt # None /\ learnt # GONE
      /\ t.existing \in Alias \union {None} /\ t.spelling \in Spelling
  BY DEF CommitLink, ReplyInv, ReplyTypes, LinkSet, AliasSet
<1>2. UNCHANGED <<items, call, overlapped>> /\ tx' = [tx EXCEPT ![w] = None]
  BY DEF CommitLink
<1>3. \/ aliasRows' = aliasRows
      \/ t.existing # None /\ There(t.existing) /\ aliasRows' = [aliasRows EXCEPT ![t.existing] = learnt]
      \/ t.existing = None /\ \E a \in Alias : aliasRows' = [aliasRows EXCEPT ![a] = learnt]
  BY DEF CommitLink, Rewrites
<1>4. aliasRows' \in [Alias -> AliasSet \union {None, GONE}]
  BY <1>1, <1>3 DEF ReplyInv, ReplyTypes
<1>5. tx' \in [Worker -> LinkSet \union {None}] /\ tx'[w] = None /\ \A v \in Worker : v # w => tx'[v] = tx[v]
  BY <1>2 DEF ReplyInv, ReplyTypes
<1>6. ReplyTypes'
  BY <1>2, <1>4, <1>5 DEF ReplyInv, ReplyTypes
<1>7. SUFFICES ASSUME ~overlapped PROVE SerialInv'
  BY <1>2, <1>6 DEF ReplyInv, SerialInv
<1>8. \A v \in Worker : tx'[v] = None
  BY <1>1, <1>5, <1>7 DEF ReplyInv, SerialInv
<1>9. StillSo(t) /\ \A a, b \in Alias, s \in Spelling : Taught(a, s) /\ Taught(b, s) => a = b
  BY <1>1, <1>7 DEF ReplyInv, SerialInv
<1>10. ASSUME NEW a \in Alias, NEW b \in Alias, NEW s \in Spelling, Taught(a, s)', Taught(b, s)'
       PROVE  a = b
  <2>1. CASE aliasRows' = aliasRows
    BY <1>9, <1>10, <2>1 DEF Taught, There
  <2>2. ASSUME NEW e \in Alias, aliasRows' = [aliasRows EXCEPT ![e] = learnt],
               \A c \in Alias : Taught(c, t.spelling) => c = e
        PROVE  a = b
    <3>1. aliasRows'[e] = learnt /\ \A c \in Alias : c # e => aliasRows'[c] = aliasRows[c]
      BY <2>2 DEF ReplyInv, ReplyTypes
    <3>2. \A c \in Alias, z \in Spelling : c # e => (Taught(c, z)' <=> Taught(c, z))
      BY <3>1 DEF Taught, There
    <3>3. \A z \in Spelling : Taught(e, z)' => z = t.spelling
      BY <3>1 DEF Taught, There
    <3>4. CASE a # e /\ b # e
      BY <1>9, <1>10, <3>2, <3>4
    <3>5. CASE a = e
      <4>1. s = t.spelling BY <1>10, <3>3, <3>5
      <4> QED BY <1>10, <2>2, <3>2, <3>5, <4>1
    <3>6. CASE b = e
      <4>1. s = t.spelling BY <1>10, <3>3, <3>6
      <4> QED BY <1>10, <2>2, <3>2, <3>6, <4>1
    <3> QED BY <3>4, <3>5, <3>6
  <2>3. CASE t.existing # None /\ There(t.existing) /\ aliasRows' = [aliasRows EXCEPT ![t.existing] = learnt]
    <3>1. t.existing \in Alias /\ Taught(t.existing, t.spelling)
      BY <1>1, <1>9, <2>3 DEF StillSo, There
    <3>2. \A c \in Alias : Taught(c, t.spelling) => c = t.existing
      BY <1>1, <1>9, <3>1
    <3> QED BY <2>2, <2>3, <3>1, <3>2
  <2>4. CASE t.existing = None /\ \E e \in Alias : aliasRows' = [aliasRows EXCEPT ![e] = learnt]
    <3>1. \A c \in Alias : ~Taught(c, t.spelling)
      BY <1>9, <2>4 DEF StillSo
    <3> QED BY <2>2, <2>4, <3>1
  <2> QED BY <1>3, <2>1, <2>3, <2>4
<1> QED BY <1>8, <1>10 DEF SerialInv

LEMMA UnlinkKeeps ==
  ASSUME ReplyInv, NEW a \in Alias, Unlink(a)
  PROVE  ReplyInv'
<1> USE ReplyAssumption
<1>1. UNCHANGED <<items, tx, overlapped, call>> /\ aliasRows' = [aliasRows EXCEPT ![a] = GONE]
  BY DEF Unlink
<1>2. aliasRows' \in [Alias -> AliasSet \union {None, GONE}] /\ aliasRows'[a] = GONE
      /\ \A c \in Alias : c # a => aliasRows'[c] = aliasRows[c]
  BY <1>1 DEF ReplyInv, ReplyTypes
<1>3. ReplyTypes'
  BY <1>1, <1>2 DEF ReplyInv, ReplyTypes
<1>4. \A c \in Alias : \A s : Taught(c, s)' <=> c # a /\ Taught(c, s)
  BY <1>2 DEF Taught, There
<1>5. ASSUME ~overlapped, NEW w \in Worker, tx[w] # None PROVE StillSo(tx[w])'
  <2>1. StillSo(tx[w]) /\ tx[w].existing \in Alias \union {None}
    BY <1>5 DEF ReplyInv, SerialInv, ReplyTypes, LinkSet
  <2>2. tx'[w] = tx[w]
    BY <1>1
  <2>3. /\ tx[w].existing = None => \A c \in Alias : ~Taught(c, tx[w].spelling)'
        /\ tx[w].existing # None => \/ aliasRows'[tx[w].existing] = GONE
                                   \/ Taught(tx[w].existing, tx[w].spelling)'
    BY <1>1, <1>2, <1>4, <2>1 DEF StillSo
  <2> QED BY <2>2, <2>3 DEF StillSo
<1>6. SerialInv'
  BY <1>1, <1>4, <1>5 DEF ReplyInv, SerialInv
<1> QED BY <1>3, <1>6 DEF ReplyInv

LEMMA ReplyQuiet ==
  ASSUME ReplyInv, UNCHANGED <<aliasRows, tx, overlapped>>,
         items' \in Copies, call' \in Copies \union {None}
  PROVE  ReplyInv'
BY DEF ReplyInv, ReplyTypes, SerialInv, StillSo, Taught, There

LEMMA ReplyStep == ReplyInv /\ [ReplyNext]_replyVars => ReplyInv'
<1> SUFFICES ASSUME ReplyInv, [ReplyNext]_replyVars PROVE ReplyInv'
  OBVIOUS
<1> USE ReplyAssumption
<1>0. items \in Copies /\ call \in Copies \union {None}
  BY DEF ReplyInv, ReplyTypes
<1>1. ASSUME NEW i \in Item, Decline(i) PROVE ReplyInv'
  <2>1. items' \in Copies
    BY <1>0, <1>1 DEF Decline, Copies
  <2> QED BY <1>0, <1>1, <2>1, ReplyQuiet DEF Decline
<1>2. ASSUME Send \/ Receive \/ Fail PROVE ReplyInv'
  BY <1>0, <1>2, ReplyQuiet DEF Send, Receive, Fail
<1>3. ASSUME UNCHANGED replyVars PROVE ReplyInv'
  BY <1>0, <1>3, ReplyQuiet DEF replyVars
<1> QED BY <1>1, <1>2, <1>3, OpenLinkKeeps, CommitLinkKeeps, UnlinkKeeps DEF ReplyNext

LEMMA ReplyInvHolds == ReplySpec => []ReplyInv
BY ReplyInitHolds, ReplyStep, PTL DEF ReplySpec

(* What create_response_alias checks before it writes is enough while the  *)
(* requests come one at a time: whatever links, corrections and deletions  *)
(* there are, no spelling gets two learnt aliases.                         *)
THEOREM SerialLinksCorrect == ReplySpec => []SerialLinksUnambiguous
<1>1. ReplyInv => SerialLinksUnambiguous
  <2> SUFFICES ASSUME ReplyInv, ~overlapped, NEW a \in Learnt, NEW b \in Learnt,
                      aliasRows[a].spelling = aliasRows[b].spelling
               PROVE  a = b
    BY DEF SerialLinksUnambiguous
  <2>1. aliasRows[a] \in AliasSet
    BY DEF Learnt, There, ReplyInv, ReplyTypes
  <2>2. aliasRows[a].spelling \in Spelling
    BY <2>1 DEF AliasSet
  <2> QED BY <2>2 DEF Learnt, ReplyInv, SerialInv, Taught
<1> QED BY <1>1, ReplyInvHolds, PTL

-----------------------------------------------------------------------------
(* The price of a printed line.                                            *)

(* Rounding to the nearest is off by at most half.                         *)
LEMMA HalfUpNear ==
  ASSUME NEW n \in Nat, NEW d \in Nat \ {0}
  PROVE  /\ HalfUp(n, d) \in Nat
         /\ 2 * Distance(HalfUp(n, d) * d, n) <= d
<1> DEFINE p == (2 * n + d) \div (2 * d)
<1>1. HalfUp(n, d) = p
  BY DEF HalfUp
<1>2. 2 * d \in Nat \ {0} /\ 2 * n + d \in Nat
  OBVIOUS
<1>3. \A a \in Nat, b \in Nat \ {0} : a \div b \in Nat /\ b * (a \div b) <= a /\ a < b * (a \div b) + b
  OBVIOUS
<1>4. p \in Nat /\ (2 * d) * p <= 2 * n + d /\ 2 * n + d < (2 * d) * p + 2 * d
  BY <1>2, <1>3
<1> HIDE DEF p
<1>5. PICK z \in Nat : z = p * d
  BY <1>4
<1>6. (2 * d) * p = 2 * z
  BY <1>4, <1>5
<1>7. 2 * z <= 2 * n + d /\ 2 * n + d < 2 * z + 2 * d
  BY <1>4, <1>6
<1>8. 2 * Distance(z, n) <= d
  BY <1>7 DEF Distance
<1> QED BY <1>1, <1>4, <1>5, <1>8

LEMMA RawLineTypes ==
  ASSUME NEW raw \in RawLine
  PROVE  /\ raw.printed \in Nat /\ raw.quantity \in Nat /\ raw.total \in Nat \union {None}
         /\ raw.pricedQty \in (Nat \ {0}) \union {None}
<1>1. /\ raw.printed \in PriceTag /\ raw.quantity \in Pieces \union {0}
      /\ raw.total \in LineTotal \union {None} /\ raw.pricedQty \in PricedQuantity \union {None}
  BY DEF RawLine
<1>2. PriceTag \subseteq Nat /\ LineTotal \subseteq Nat
  BY ReplyAssumption
<1>3. PricedQuantity \subseteq Nat \ {0} /\ Pieces \subseteq Nat
  BY ReplyAssumption
<1>4. 0 \in Nat
  OBVIOUS
<1>5. raw.printed \in Nat
  BY <1>1, <1>2, Zenon
<1>6. raw.quantity \in Nat
  BY <1>1, <1>3, <1>4, Zenon
<1> QED BY <1>1, <1>2, <1>3, <1>5, <1>6

LEMMA PieceAddsUp ==
  ASSUME NEW raw \in RawLine, raw.basis = "piece"
  PROVE  AddsUp(raw)
<1> USE ReplyAssumption
<1> DEFINE cost == raw.printed * raw.quantity
<1>1. raw.printed \in Nat /\ raw.quantity \in Nat /\ raw.total \in Nat \union {None}
  BY RawLineTypes
<1>2. cost \in Nat
  BY <1>1
<1>3. PICK off \in BOOLEAN :
        off <=> raw.quantity # 0 /\ raw.total # None /\ Distance(cost, raw.total) > Cent
  <2> DEFINE w == raw.quantity # 0 /\ raw.total # None /\ Distance(cost, raw.total) > Cent
  <2>1. w \/ ~w OBVIOUS
  <2> HIDE DEF w
  <2> QED BY <2>1, Zenon DEF w
<1>4. NormalizeLine(raw).price = raw.printed /\ NormalizeLine(raw).warning = off
  <2>1. CASE off
    BY <1>3, <2>1 DEF NormalizeLine
  <2>2. CASE ~off
    BY <1>3, <2>2 DEF NormalizeLine
  <2> QED BY <2>1, <2>2
<1>5. raw.quantity # None
  BY <1>1
<1> SUFFICES ASSUME ~NormalizeLine(raw).warning, raw.quantity # 0,
                    NEW amount \in ({raw.total} \union {cost}) \ {None}
             PROVE  2 * Distance(cost, amount) <= 2 * Cent + raw.quantity
  BY <1>4, <1>5 DEF AddsUp
<1>6. CASE amount = cost
  BY <1>1, <1>2, <1>6 DEF Distance, Cent
<1>7. CASE amount = raw.total
  <2>1. amount \in Nat
    BY <1>1, <1>7
  <2>2. Distance(cost, amount) \in Int /\ ~(Distance(cost, amount) > Cent)
    BY <1>2, <1>3, <1>4, <1>7, <2>1 DEF Distance
  <2> QED BY <1>1, <2>2 DEF Cent
<1> QED BY <1>6, <1>7

LEMMA OtherAddsUp ==
  ASSUME NEW raw \in RawLine, raw.basis # "piece", raw.quantity # 0, ~NormalizeLine(raw).warning
  PROVE  /\ raw.total # None \/ raw.pricedQty # None
         /\ raw.total # None =>
              2 * Distance(NormalizeLine(raw).price * raw.quantity, raw.total) <= 2 * Cent + raw.quantity
         /\ raw.pricedQty # None =>
              2 * Distance(NormalizeLine(raw).price * raw.quantity, raw.printed * raw.pricedQty)
                <= 2 * Cent + raw.quantity
<1> USE ReplyAssumption
<1> DEFINE cost == raw.printed * raw.pricedQty
           amount == IF raw.total # None THEN raw.total ELSE cost
           price == HalfUp(amount, raw.quantity)
<1>1. raw.printed \in Nat /\ raw.quantity \in Nat \ {0} /\ raw.total \in Nat \union {None}
      /\ raw.pricedQty \in (Nat \ {0}) \union {None}
  BY RawLineTypes
<1>2. raw.total # None \/ raw.pricedQty # None
  BY DEF NormalizeLine
<1>3. NormalizeLine(raw) =
        [price |-> price, warning |-> raw.pricedQty # None /\ raw.total # None
                                        /\ Distance(cost, raw.total) > Cent]
  BY <1>2 DEF NormalizeLine, PerPiece
<1>4. NormalizeLine(raw).price = price
      /\ ~(raw.pricedQty # None /\ raw.total # None /\ Distance(cost, raw.total) > Cent)
  <2> HIDE DEF price, cost
  <2>1. CASE raw.pricedQty # None /\ raw.total # None /\ Distance(cost, raw.total) > Cent
    <3>1. NormalizeLine(raw) = [price |-> price, warning |-> TRUE]
      BY <1>3, <2>1
    <3> QED BY <3>1
  <2>2. CASE ~(raw.pricedQty # None /\ raw.total # None /\ Distance(cost, raw.total) > Cent)
    <3>1. NormalizeLine(raw) = [price |-> price, warning |-> FALSE]
      BY <1>3, <2>2
    <3> QED BY <2>2, <3>1
  <2> QED BY <2>1, <2>2
<1>5. (raw.pricedQty # None => cost \in Nat) /\ amount \in Nat
  BY <1>1, <1>2
<1>6. price \in Nat /\ 2 * Distance(price * raw.quantity, amount) <= raw.quantity
  <2> HIDE DEF amount
  <2> QED BY <1>1, <1>5, HalfUpNear
<1> HIDE DEF price, cost
<1>7. price * raw.quantity \in Int
  BY <1>1, <1>6
<1> DEFINE paid == price * raw.quantity
<1> HIDE DEF paid
<1>8. raw.total # None => 2 * Distance(paid, raw.total) <= 2 * Cent + raw.quantity
  BY <1>1, <1>6, <1>7 DEF Cent, paid, Distance
<1>9. raw.pricedQty # None => 2 * Distance(paid, cost) <= 2 * Cent + raw.quantity
  <2>1. CASE raw.total = None
    BY <1>1, <1>5, <1>6, <1>7, <2>1 DEF Cent, paid, Distance
  <2>2. CASE raw.total # None /\ raw.pricedQty # None
    <3>1. paid \in Int /\ cost \in Int /\ raw.total \in Int /\ raw.quantity \in Int
      BY <1>1, <1>5, <1>7, <2>2 DEF paid
    <3>2. 2 * Distance(paid, raw.total) <= raw.quantity
      BY <1>6, <2>2 DEF paid
    <3>3. Distance(cost, raw.total) <= 10
      BY <1>4, <2>2, <3>1 DEF Cent, Distance
    <3>4. 2 * Distance(paid, cost) <= 20 + raw.quantity
      BY <3>1, <3>2, <3>3 DEF Distance
    <3> QED BY <3>4 DEF Cent
  <2> QED BY <2>1, <2>2
<1> QED BY <1>2, <1>4, <1>8, <1>9 DEF paid, cost

(* The price paid without a warning is within a cent, and half a          *)
(* thousandth for each piece, of every amount stated.                      *)
LEMMA LinesAddUp == EveryLineAddsUp
<1> SUFFICES ASSUME NEW raw \in RawLine, raw.basis # "piece", raw.quantity # 0,
                    ~NormalizeLine(raw).warning
             PROVE  AddsUp(raw)
  BY PieceAddsUp DEF EveryLineAddsUp, AddsUp
<1> USE ReplyAssumption
<1>1. raw.pricedQty # None => raw.printed * raw.pricedQty \in Nat /\ raw.printed * raw.pricedQty # None
  <2>1. raw.printed \in Nat /\ raw.pricedQty \in Nat \union {None} /\ None \notin Nat
    BY RawLineTypes
  <2>2. \A a, b \in Nat : a * b \in Nat
    OBVIOUS
  <2> QED BY <2>1, <2>2
<1> QED BY <1>1, OtherAddsUp DEF AddsUp

(* A line normalize_line shows without a warning costs what the document   *)
(* says it costs, whichever amounts it states.                             *)
THEOREM SilentPriceCorrect == ReplySpec => []SilentPriceAddsUp
<1>1. SilentPriceAddsUp
  BY LinesAddUp DEF SilentPriceAddsUp
<1> QED BY <1>1, PTL

-----------------------------------------------------------------------------
(* The loop over the lines of an answer, as FoldLeft runs it.              *)

Biggest(S) == CHOOSE x \in S : \A y \in S : x >= y
Start(answer) == [lines |-> <<>>, claimed |-> ItemsOf(answer), linked |-> {}]
Unroll(answer, it, s) ==
  IF s = {} THEN Start(answer)
  ELSE PostMatchLine(it[s \ {Biggest(s)}], answer[Biggest(s)])
(* it is the loop over the first n lines (and every selection of them).    *)
FoldsTo(answer, it, n) == it = [s \in SUBSET (1 .. n) |-> Unroll(answer, it, s)]

LEMMA PostMatchIsFold ==
  ASSUME NEW answer
  PROVE  \E it : /\ it = (CHOOSE g : g = [s \in SUBSET (DOMAIN answer) |-> Unroll(answer, g, s)])
                 /\ PostMatch(answer) = it[DOMAIN answer]
<1>1. \E it : /\ it = (CHOOSE g : g = [s \in SUBSET (DOMAIN answer) |->
                         IF s = {} THEN Start(answer)
                         ELSE PostMatchLine(g[s \ {CHOOSE x \in s : \A y \in s : x >= y}],
                                answer[CHOOSE x \in s : \A y \in s : x >= y])])
              /\ PostMatch(answer) = it[DOMAIN answer]
  BY Zenon DEF PostMatch, FoldLeft, MapThenFoldSet, Max, Start
<1> QED BY <1>1, Zenon DEF Unroll, Biggest

LEMMA BiggestIs ==
  ASSUME NEW S \in SUBSET Nat, NEW x \in S, \A y \in S : y <= x
  PROVE  Biggest(S) = x
<1>1. \E z \in S : \A y \in S : z >= y
  OBVIOUS
<1>2. Biggest(S) \in S /\ \A y \in S : Biggest(S) >= y
  BY <1>1, Zenon DEF Biggest
<1>3. \A z \in S : (\A y \in S : z >= y) => z = x
  OBVIOUS
<1> QED BY <1>2, <1>3, Zenon

(* The fold exists for answers of every length.                            *)
LEMMA FoldExists ==
  ASSUME NEW answer, NEW n \in Nat
  PROVE  \E it : FoldsTo(answer, it, n)
<1> DEFINE bad == {m \in 0 .. n : ~ \E it : FoldsTo(answer, it, m)}
<1>1. SUFFICES ASSUME bad # {} PROVE FALSE
  <2>1. n \in 0 .. n OBVIOUS
  <2> QED BY <2>1
<1>2. PICK m \in bad : \A y \in bad : m <= y
  <2>1. bad \in SUBSET Nat
    OBVIOUS
  <2> HIDE DEF bad
  <2> QED BY <1>1, <2>1, LeastNat
<1>3. m # 0
  <2>1. PICK f : f = [s \in SUBSET (1 .. 0) |-> Start(answer)]
    OBVIOUS
  <2>2. FoldsTo(answer, f, 0)
    <3>1. \A s \in SUBSET (1 .. 0) : s = {}
      OBVIOUS
    <3>2. \A s \in SUBSET (1 .. 0) : Unroll(answer, f, s) = Start(answer)
      BY <3>1 DEF Unroll
    <3>3. [s \in SUBSET (1 .. 0) |-> Unroll(answer, f, s)] = [s \in SUBSET (1 .. 0) |-> Start(answer)]
      BY <3>2
    <3> QED BY <2>1, <3>3 DEF FoldsTo
  <2> QED BY <2>2
<1>4. PICK f : FoldsTo(answer, f, m - 1)
  <2>1. m - 1 \in 0 .. n /\ ~(m <= m - 1)
    BY <1>2, <1>3
  <2>2. m - 1 \notin bad
    BY <1>2, <2>1
  <2> QED BY <2>1, <2>2
<1>5. PICK g : g = [s \in SUBSET (1 .. m) |->
                      IF m \in s THEN PostMatchLine(f[s \ {m}], answer[m]) ELSE f[s]]
  OBVIOUS
<1>6. ASSUME NEW s \in SUBSET (1 .. m) PROVE g[s] = Unroll(answer, g, s)
  <2>1. m \in Nat \ {0}
    BY <1>2, <1>3
  <2>2. CASE m \in s
    <3>1. Biggest(s) = m
      <4>1. s \in SUBSET Nat /\ \A y \in s : y <= m
        BY <2>1
      <4> QED BY <2>2, <4>1, BiggestIs
    <3>2. s \ {m} \in SUBSET (1 .. m) /\ m \notin s \ {m}
      OBVIOUS
    <3>3. g[s \ {m}] = f[s \ {m}]
      BY <1>5, <3>2
    <3>4. g[s] = PostMatchLine(f[s \ {m}], answer[m])
      BY <1>5, <2>2
    <3> QED BY <2>2, <3>1, <3>3, <3>4 DEF Unroll
  <2>3. CASE m \notin s
    <3>1. s \in SUBSET (1 .. m - 1)
      BY <2>1, <2>3
    <3>2. g[s] = f[s] /\ f[s] = Unroll(answer, f, s)
      BY <1>4, <1>5, <2>3, <3>1 DEF FoldsTo
    <3>3. s \ {Biggest(s)} \in SUBSET (1 .. m) /\ m \notin s \ {Biggest(s)}
      BY <2>3
    <3>4. g[s \ {Biggest(s)}] = f[s \ {Biggest(s)}]
      BY <1>5, <3>3
    <3> QED BY <3>2, <3>4 DEF Unroll
  <2> QED BY <2>2, <2>3
<1>7. FoldsTo(answer, g, m)
  BY <1>5, <1>6 DEF FoldsTo
<1> QED BY <1>2, <1>7

(* So the lines are matched one after the other, in the answer's order.    *)
LEMMA LineByLine ==
  ASSUME NEW X, NEW answer \in Seq(X)
  PROVE  \E acc : /\ acc[0] = Start(answer)
                  /\ \A k \in DOMAIN answer : acc[k] = PostMatchLine(acc[k - 1], answer[k])
                  /\ PostMatch(answer) = acc[Len(answer)]
<1> DEFINE n == Len(answer)
<1>1. n \in Nat /\ DOMAIN answer = 1 .. n
  OBVIOUS
<1>2. PICK it : FoldsTo(answer, it, n) /\ PostMatch(answer) = it[1 .. n]
  <2>1. \E it : it = [s \in SUBSET (DOMAIN answer) |-> Unroll(answer, it, s)]
    <3>1. PICK it : FoldsTo(answer, it, n)
      <4> HIDE DEF n
      <4> QED BY <1>1, FoldExists
    <3> QED BY <1>1, <3>1 DEF FoldsTo
  <2>2. PICK it : /\ it = (CHOOSE g : g = [s \in SUBSET (DOMAIN answer) |-> Unroll(answer, g, s)])
                  /\ PostMatch(answer) = it[DOMAIN answer]
    BY PostMatchIsFold, Zenon
  <2>3. it = [s \in SUBSET (DOMAIN answer) |-> Unroll(answer, it, s)]
    BY <2>1, <2>2, Zenon
  <2> QED BY <1>1, <2>2, <2>3 DEF FoldsTo
<1>3. PICK acc : acc = [k \in 0 .. n |-> it[1 .. k]]
  OBVIOUS
<1>4. \A s \in SUBSET (1 .. n) : it[s] = Unroll(answer, it, s)
  BY <1>2 DEF FoldsTo
<1>5. acc[0] = Start(answer)
  <2>1. 1 .. 0 = {} /\ 0 \in 0 .. n
    BY <1>1
  <2>2. it[{}] = Start(answer)
    BY <1>4 DEF Unroll
  <2> QED BY <1>3, <2>1, <2>2
<1>6. ASSUME NEW k \in DOMAIN answer PROVE acc[k] = PostMatchLine(acc[k - 1], answer[k])
  <2>1. k \in 1 .. n /\ k \in 0 .. n /\ k - 1 \in 0 .. n /\ 1 .. k \in SUBSET (1 .. n) /\ 1 .. k # {}
    BY <1>1
  <2>2. Biggest(1 .. k) = k
    <3>1. 1 .. k \in SUBSET Nat /\ k \in 1 .. k /\ \A y \in 1 .. k : y <= k
      BY <2>1
    <3> QED BY <3>1, BiggestIs
  <2>3. (1 .. k) \ {k} = 1 .. (k - 1)
    BY <2>1
  <2>4. it[1 .. k] = PostMatchLine(it[1 .. (k - 1)], answer[k])
    BY <1>4, <2>1, <2>2, <2>3 DEF Unroll
  <2> QED BY <1>3, <2>1, <2>4
<1>7. PostMatch(answer) = acc[n]
  BY <1>1, <1>2, <1>3
<1> QED BY <1>5, <1>6, <1>7

-----------------------------------------------------------------------------
(* What the aliases add to the model's matches.                            *)

AnswerLine == [text : Spelling, item : Item \union {None, Invented}]

(* The items linked by the first k lines.                                  *)
LinkedBy(answer, k) == {i \in Alone(answer) : \E p \in 1 .. k : Names(answer[p], i)}

(* The item a line ends with.                                              *)
Given(answer, n) ==
  IF answer[n].item # None THEN answer[n].item
  ELSE IF FirstNamed(answer, n) = {} THEN None ELSE Only(FirstNamed(answer, n))

LEMMA OnlyOne ==
  ASSUME NEW U, IsFiniteSet(U), NEW S \in SUBSET U
  PROVE  /\ Cardinality(S) = 1 <=> \E x \in U : S = {x}
         /\ \A x : S = {x} => Only(S) = x
<1>1. IsFiniteSet(S)
  BY FS_Subset
<1>2. Cardinality(S) = 1 <=> \E x : S = {x}
  BY <1>1, FS_Singleton
<1>3. ASSUME NEW x, S = {x} PROVE Only(S) = x
  BY <1>3 DEF Only
<1> QED BY <1>2, <1>3

(* One alias of a name has one material.                                   *)
LEMMA NamesMeans ==
  ASSUME ReplyInv, call # None, NEW line
  PROVE  /\ \A i \in Item : Names(line, i) =>
              \E a \in Alias : /\ Candidates(line.text) = {a} /\ aliasRows[a].material \in Material
                               /\ call[i].material = aliasRows[a].material
         /\ \A a \in Alias : Candidates(line.text) = {a} => aliasRows[a].material \in Material
<1>1. \A a \in Learnt : aliasRows[a].material \in Material
  <2>1. \A a \in Learnt : aliasRows[a] \in AliasSet
    BY DEF Learnt, There, ReplyInv, ReplyTypes
  <2> QED BY <2>1 DEF AliasSet
<1>2. \A a \in Alias : Candidates(line.text) = {a} => a \in Learnt
  BY DEF Candidates
<1> QED BY <1>1, <1>2 DEF Names

(* What a line that alias a names fits, the lines before it done.          *)
Fitting(answer, n, a) ==
  Eligible(aliasRows[a].material, ItemsOf(answer) \union LinkedBy(answer, n - 1))

(* The items a line fits are those it names first, of the ones alone.      *)
LEMMA FitsAreFirst ==
  ASSUME ReplyInv, call # None, NEW answer, NEW n \in Nat \ {0}, answer[n].item = None,
         NEW a \in Alias, Candidates(answer[n].text) = {a}
  PROVE  /\ \A i : Fitting(answer, n, a) = {i} => FirstNamed(answer, n) = {i}
         /\ \A i \in FirstNamed(answer, n) : Fitting(answer, n, a) = {i}
<1> DEFINE fits == Fitting(answer, n, a)
           m == aliasRows[a].material
           taken == LinkedBy(answer, n - 1)
<1>1. m \in Material /\ m # None
  BY NamesMeans, ReplyAssumption
<1>2. \A i \in Item : Names(answer[n], i) <=> call[i].material = m
  <2>1. \A b \in Alias : Candidates(answer[n].text) = {b} => b = a
    OBVIOUS
  <2> QED BY <2>1 DEF Names
<1>3. fits = {i \in Unclaimed(answer) : call[i].material = m /\ i \notin taken}
  BY DEF Fitting, Eligible, Unclaimed
<1>4. \A i \in taken : i \in Alone(answer)
  BY DEF LinkedBy
<1>5. \A i \in Alone(answer) : /\ i \in Unclaimed(answer) /\ i \in Item
                               /\ \A j \in Unclaimed(answer) : call[j].material = call[i].material => j = i
  BY DEF Alone, Unclaimed
<1>6. \A i \in Unclaimed(answer) :
        /\ i \in Item
        /\ call[i].material # None /\ (\A j \in Unclaimed(answer) : call[j].material = call[i].material => j = i)
             => i \in Alone(answer)
  BY DEF Alone, Unclaimed
<1>7. \A i \in Alone(answer) : i \notin taken <=> \A p \in 1 .. n - 1 : ~Names(answer[p], i)
  BY DEF LinkedBy
<1>8. FirstNamed(answer, n) = {i \in Alone(answer) : call[i].material = m /\ i \notin taken}
  BY <1>2, <1>5, <1>7 DEF FirstNamed
<1> HIDE DEF m, taken, fits
<1>9. ASSUME NEW i, fits = {i} PROVE FirstNamed(answer, n) = {i}
  <2>1. i \in Unclaimed(answer) /\ call[i].material = m /\ i \notin taken
    BY <1>3, <1>9
  <2>2. ASSUME NEW j \in Unclaimed(answer), call[j].material = m PROVE j = i
    <3>1. CASE j \in taken
      BY <1>4, <1>5, <2>1, <2>2, <3>1
    <3>2. CASE j \notin taken
      BY <1>3, <1>9, <2>2, <3>2
    <3> QED BY <3>1, <3>2
  <2>3. i \in Alone(answer)
    BY <1>1, <1>6, <2>1, <2>2
  <2> QED BY <1>5, <1>8, <2>1, <2>2, <2>3
<1>10. ASSUME NEW i \in FirstNamed(answer, n) PROVE fits = {i}
  <2>1. i \in Alone(answer) /\ call[i].material = m /\ i \notin taken /\ i \in Unclaimed(answer)
    BY <1>5, <1>8, <1>10
  <2>2. i \in fits
    BY <1>3, <2>1
  <2>3. \A j \in fits : j = i
    BY <1>3, <1>5, <2>1
  <2> QED BY <2>2, <2>3
<1> QED BY <1>9, <1>10 DEF fits

(* What one line of the loop does, the lines before it done.               *)
LEMMA LineMatched ==
  ASSUME ReplyInv, call # None, NEW answer, NEW n \in Nat \ {0},
         NEW acc, acc.claimed = ItemsOf(answer) \union LinkedBy(answer, n - 1),
         acc.linked = LinkedBy(answer, n - 1),
         NEW next, next = PostMatchLine(acc, answer[n])
  PROVE  /\ next.claimed = ItemsOf(answer) \union LinkedBy(answer, n)
         /\ next.linked = LinkedBy(answer, n)
         /\ next.lines = Append(acc.lines, [answer[n] EXCEPT !.item = Given(answer, n)])
<1> USE ReplyAssumption
<1> DEFINE line == answer[n]
           first == FirstNamed(answer, n)
           named == Candidates(line.text)
           fits == IF Cardinality(named) = 1
                   THEN Eligible(aliasRows[Only(named)].material, acc.claimed) ELSE {}
<1>1. named \in SUBSET Alias
  BY DEF Candidates, Learnt
<1>2. Cardinality(named) = 1 <=> \E a \in Alias : named = {a}
  <2> HIDE DEF named
  <2> QED BY <1>1, OnlyOne
<1>3. \A a : named = {a} => Only(named) = a
  <2> HIDE DEF named
  <2> QED BY <1>1, OnlyOne
<1>4. fits \in SUBSET Item
  BY DEF Eligible
<1>5. Cardinality(fits) = 1 <=> \E i \in Item : fits = {i}
  <2> HIDE DEF fits
  <2> QED BY <1>4, OnlyOne
<1>6. first # {} => line.item = None
  BY DEF FirstNamed, Names
<1>7. ASSUME line.item = None
      PROVE  /\ Cardinality(fits) = 1 <=> first # {}
             /\ Cardinality(fits) = 1 => fits = first
  <2>1. CASE Cardinality(named) = 1
    <3>1. PICK a \in Alias : named = {a} /\ Only(named) = a
      BY <1>2, <1>3, <2>1
    <3>2. fits = Fitting(answer, n, a)
      BY <2>1, <3>1 DEF Fitting
    <3>3. /\ \A i : fits = {i} => first = {i}
          /\ \A i \in first : fits = {i}
      <4>1. answer[n].item = None /\ Candidates(answer[n].text) = {a}
        BY <1>7, <3>1
      <4>2. /\ \A i : Fitting(answer, n, a) = {i} => FirstNamed(answer, n) = {i}
            /\ \A i \in FirstNamed(answer, n) : Fitting(answer, n, a) = {i}
        <5> HIDE DEF fits
        <5> QED BY <4>1, FitsAreFirst
      <4> HIDE DEF fits
      <4> QED BY <3>2, <4>2
    <3>4. first \in SUBSET Item
      BY DEF FirstNamed, Alone, Unclaimed
    <3> HIDE DEF fits, first
    <3> QED BY <1>5, <3>3, <3>4
  <2>2. CASE Cardinality(named) # 1
    <3>1. fits = {}
      BY <2>2
    <3>2. first = {}
      BY <1>2, <2>2 DEF FirstNamed, Names, Alone, Unclaimed
    <3> HIDE DEF fits, first
    <3> QED BY <1>5, <3>1, <3>2
  <2> QED BY <2>1, <2>2
<1>8. LinkedBy(answer, n) = LinkedBy(answer, n - 1) \union first
  <2>1. 1 .. n = 1 .. (n - 1) \union {n}
    OBVIOUS
  <2> QED BY <2>1 DEF LinkedBy, FirstNamed
<1>9. first # {} => first = {Only(first)}
  <2>1. \A i, j \in first : i = j
    <3>1. \A i \in first : i \in Alone(answer) /\ i \in Item /\ i \in Unclaimed(answer) /\ Names(line, i)
      BY DEF FirstNamed, Alone, Unclaimed
    <3>2. ASSUME NEW i \in first, NEW j \in first PROVE call[i].material = call[j].material
      BY <3>1 DEF Names
    <3> QED BY <3>1, <3>2 DEF Alone
  <2>2. first # {} => Only(first) \in first
    BY DEF Only
  <2> HIDE DEF first
  <2> QED BY <2>1, <2>2
<1>10. CASE first # {}
  <2>1. line.item = None /\ Cardinality(fits) = 1 /\ fits = first
    BY <1>6, <1>7, <1>10
  <2>2. Given(answer, n) = Only(first)
    BY <1>10, <2>1 DEF Given
  <2>3. next = [lines |-> Append(acc.lines, [line EXCEPT !.item = Only(fits)]),
                claimed |-> acc.claimed \union {Only(fits)}, linked |-> acc.linked \union {Only(fits)}]
    BY <2>1 DEF PostMatchLine
  <2> HIDE DEF fits, first
  <2> QED BY <1>8, <1>9, <1>10, <2>1, <2>2, <2>3
<1>11. CASE first = {}
  <2>1. ~(line.item = None /\ Cardinality(fits) = 1)
    BY <1>7, <1>11
  <2>2. Given(answer, n) = line.item
    BY <1>11 DEF Given
  <2>3. next = [lines |-> Append(acc.lines, [line EXCEPT !.item = line.item]),
                claimed |-> acc.claimed, linked |-> acc.linked]
    BY <2>1 DEF PostMatchLine
  <2> HIDE DEF fits, first
  <2> QED BY <1>8, <1>11, <2>2, <2>3
<1> QED BY <1>10, <1>11

(* So each line ends with the item it is given, and the linked items are   *)
(* those the answer names.                                                 *)
LEMMA AllMatched ==
  ASSUME ReplyInv, call # None, NEW answer \in Seq(AnswerLine)
  PROVE  /\ PostMatch(answer).linked = LinkedBy(answer, Len(answer))
         /\ \A n \in DOMAIN answer : PostMatch(answer).lines[n].item = Given(answer, n)
<1>1. PICK acc : /\ acc[0] = Start(answer)
                 /\ \A k \in DOMAIN answer : acc[k] = PostMatchLine(acc[k - 1], answer[k])
                 /\ PostMatch(answer) = acc[Len(answer)]
  BY LineByLine
<1> DEFINE N == Len(answer)
           Out == [text : Spelling, item : {Given(answer, p) : p \in 1 .. N}]
           Upto(k) == /\ acc[k].claimed = ItemsOf(answer) \union LinkedBy(answer, k)
                      /\ acc[k].linked = LinkedBy(answer, k)
                      /\ acc[k].lines \in Seq(Out) /\ Len(acc[k].lines) = k
                      /\ \A p \in 1 .. k : acc[k].lines[p].item = Given(answer, p)
           bad == {k \in 0 .. N : ~Upto(k)}
<1>2. N \in Nat /\ DOMAIN answer = 1 .. N /\ \A k \in 1 .. N : answer[k] \in AnswerLine
  OBVIOUS
<1>3. SUFFICES bad = {}
  <2>1. N \in 0 .. N BY <1>2
  <2>2. bad = {} => Upto(N) BY <2>1
  <2> HIDE DEF N
  <2> SUFFICES ASSUME Upto(N) PROVE /\ PostMatch(answer).linked = LinkedBy(answer, N)
         /\ \A n \in 1 .. N : PostMatch(answer).lines[n].item = Given(answer, n)
    BY <1>2, <2>2 DEF N
  <2> QED BY <1>1 DEF N
<1>4. SUFFICES ASSUME bad # {} PROVE FALSE
  OBVIOUS
<1>5. PICK k \in bad : \A y \in bad : k <= y
  <2>1. bad \in SUBSET Nat
    BY <1>2
  <2> HIDE DEF bad
  <2> QED BY <1>4, <2>1, LeastNat
<1> HIDE DEF Out
<1>6. k # 0
  <2>1. 1 .. 0 = {} /\ LinkedBy(answer, 0) = {}
    BY DEF LinkedBy
  <2>2. acc[0].claimed = ItemsOf(answer) /\ acc[0].linked = {} /\ acc[0].lines = <<>>
    BY <1>1 DEF Start
  <2>3. <<>> \in Seq(Out) /\ Len(<<>>) = 0
    OBVIOUS
  <2>4. Upto(0)
    BY <2>1, <2>2, <2>3
  <2> QED BY <2>4
<1>7. k \in 1 .. N /\ k \in Nat \ {0} /\ Upto(k - 1)
  <2>1. k - 1 \in 0 .. N /\ ~(k <= k - 1) /\ k \in 1 .. N /\ k \in Nat \ {0}
    BY <1>2, <1>5, <1>6
  <2>2. k - 1 \notin bad
    BY <1>5, <2>1
  <2> QED BY <2>1, <2>2
<1>8. acc[k] = PostMatchLine(acc[k - 1], answer[k])
  BY <1>1, <1>2, <1>7
<1> DEFINE last == [answer[k] EXCEPT !.item = Given(answer, k)]
<1>9. /\ acc[k].claimed = ItemsOf(answer) \union LinkedBy(answer, k)
      /\ acc[k].linked = LinkedBy(answer, k)
      /\ acc[k].lines = Append(acc[k - 1].lines, last)
  BY <1>7, <1>8, LineMatched
<1>10. last \in Out /\ last.item = Given(answer, k)
  BY <1>2, <1>7 DEF AnswerLine, Out
<1> HIDE DEF last
<1>11. ASSUME NEW before \in Seq(Out), Len(before) = k - 1,
              \A p \in 1 .. k - 1 : before[p].item = Given(answer, p)
       PROVE  /\ Append(before, last) \in Seq(Out) /\ Len(Append(before, last)) = k
              /\ \A p \in 1 .. k : Append(before, last)[p].item = Given(answer, p)
  <2>1. Append(before, last) \in Seq(Out) /\ Len(Append(before, last)) = k
    BY <1>7, <1>10, <1>11
  <2>2. Append(before, last)[k] = last /\ \A p \in 1 .. k - 1 : Append(before, last)[p] = before[p]
    BY <1>7, <1>10, <1>11
  <2>3. \A p \in 1 .. k : p \in 1 .. k - 1 \/ p = k
    BY <1>7
  <2> QED BY <1>10, <1>11, <2>1, <2>2, <2>3
<1>12. Upto(k)
  BY <1>7, <1>9, <1>11
<1> QED BY <1>5, <1>12

LEMMA ReceiveLinks ==
  ASSUME ReplyInv, [ReplyNext]_replyVars
  PROVE  LinksExactly
<1>1. SUFFICES ASSUME preview' # preview PROVE LinksExactly
  BY DEF LinksExactly
<1>2. Receive
  BY <1>1 DEF ReplyNext, replyVars, Decline, OpenLink, CommitLink, Unlink, Send, Fail
<1>3. PICK answer \in Answers :
         preview' = [answer |-> answer, lines |-> PostMatch(answer).lines,
                     linked |-> PostMatch(answer).linked,
                     missing |-> {i \in Item : call[i].live} \ ItemsOf(PostMatch(answer).lines)]
  BY <1>2, Zenon DEF Receive
<1>4. call # None
  BY <1>2 DEF Receive
<1>5. answer \in Seq(AnswerLine)
  <2>1. PICK n \in 0 .. MaxLines : answer \in [1 .. n -> AnswerLine]
    BY DEF Answers, AnswerLine
  <2> QED BY <2>1
<1>6. /\ preview'.answer = answer /\ preview'.lines = PostMatch(answer).lines
      /\ preview'.linked = PostMatch(answer).linked
  BY <1>3
<1>7. /\ PostMatch(answer).linked = LinkedBy(answer, Len(answer))
      /\ \A n \in DOMAIN answer : PostMatch(answer).lines[n].item = Given(answer, n)
  BY <1>4, <1>5, AllMatched
<1>8. DOMAIN answer = 1 .. Len(answer)
  BY <1>5
<1>9. /\ preview'.linked = {i \in Alone(answer) : \E n \in DOMAIN answer : Names(answer[n], i)}
      /\ \A n \in DOMAIN answer : preview'.lines[n].item = Given(answer, n)
  BY <1>6, <1>7, <1>8 DEF LinkedBy
<1> QED BY <1>6, <1>9 DEF LinksExactly, Given

(* _apply_alias_post_match, line by line, arrives at the links that the    *)
(* aliases, the order and the answer determine: no line is given an item   *)
(* another claims, none that could be matched without doubt is left out.   *)
THEOREM PostMatchCorrect == ReplySpec => PostMatchIsExact
<1>1. ReplyInv /\ [ReplyNext]_replyVars => LinksExactly
  BY ReceiveLinks
<1>2. ReplyInv /\ [ReplyNext]_replyVars => [LinksExactly]_replyVars
  BY <1>1
<1> QED BY <1>2, ReplyInvHolds, PTL DEF ReplySpec, PostMatchIsExact
=============================================================================
