------------------------ MODULE ReferenceData_proofs ------------------------
(***************************************************************************)
(* TLAPS proofs about ReferenceData, for any rows, requests and policies:  *)
(* the numbers of materials, the partial updates of delivery policies, the *)
(* offices of contacts and what a deletion takes with it.                  *)
(***************************************************************************)
EXTENDS ReferenceData, TLAPS

(* An open request, or its end, replaces the entry of its worker only.     *)
Requests == tx = [w \in Worker |-> tx[w]]

LEMMA Entry ==
  ASSUME Requests, NEW w \in Worker, NEW u, tx' = [tx EXCEPT ![w] = u]
  PROVE  Requests' /\ \A v \in Worker : tx'[v] = IF v = w THEN u ELSE tx[v]
BY DEF Requests

LEMMA EntryEnds ==
  ASSUME Requests, NEW w \in Worker, tx' = [tx EXCEPT ![w] = NULL]
  PROVE  Requests' /\ \A v \in Worker : tx'[v] = IF v = w THEN NULL ELSE tx[v]
BY DEF Requests

-----------------------------------------------------------------------------
(* Numbers                                                                   *)

(* An open creation that has taken a number.                               *)
Numbered(t) == t # NULL /\ t.op = "insert" /\ t.number # NULL

(* A committed number is behind its category's counter; the number of an   *)
(* open creation is the counter's value, and no two have one category.     *)
Behind(n) == \E c \in Rows("category"), i \in Nat : n = <<c, i>> /\ i < counter[c]
AtCounter(n) == \E c \in Rows("category") : n = <<c, counter[c]>>

NumberTypes ==
  /\ Requests /\ counter \in [Rows("category") -> Nat]
  /\ number = [r \in Row |-> number[r]]

NumbersInv ==
  /\ NumberTypes
  /\ \A r \in Row : number[r] # NULL => Behind(number[r])
  /\ \A r, q \in Row : number[r] # NULL /\ number[r] = number[q] => r = q
  /\ \A w \in Worker : Numbered(tx[w]) => AtCounter(tx[w].number)
  /\ \A v, w \in Worker :
       Numbered(tx[v]) /\ Numbered(tx[w]) /\ tx[v].number = tx[w].number => v = w

(* A step that takes no number and commits none.                           *)
LEMMA NoNumber ==
  ASSUME NumbersInv, NEW w \in Worker, NEW u, tx' = [tx EXCEPT ![w] = u], ~Numbered(u),
         UNCHANGED <<number, counter>>
  PROVE  NumbersInv'
<1>1. Requests' /\ \A v \in Worker : tx'[v] = IF v = w THEN u ELSE tx[v]
  <2>1. Requests
    BY DEF NumbersInv, NumberTypes
  <2> QED BY <2>1, Entry
<1>2. \A v \in Worker : Numbered(tx'[v]) => v # w /\ Numbered(tx[v]) /\ tx'[v] = tx[v]
  BY <1>1
<1>3. \A v \in Worker : Numbered(tx'[v]) => AtCounter(tx'[v].number)
  BY <1>2 DEF NumbersInv
<1>4. \A v, x \in Worker :
        Numbered(tx'[v]) /\ Numbered(tx'[x]) /\ tx'[v].number = tx'[x].number => v = x
  BY <1>2 DEF NumbersInv
<1>5. NumberTypes' /\ \A n : Behind(n)' <=> Behind(n)
  BY <1>1 DEF NumbersInv, NumberTypes, Behind
<1>6. \A n : AtCounter(n)' <=> AtCounter(n)
  BY DEF AtCounter
<1>7. \A r \in Row : number'[r] # NULL => Behind(number'[r])
  BY DEF NumbersInv
<1>8. \A r, q \in Row : number'[r] # NULL /\ number'[r] = number'[q] => r = q
  BY DEF NumbersInv
<1> QED BY <1>3, <1>4, <1>5, <1>6, <1>7, <1>8 DEF NumbersInv, Numbered, Behind, AtCounter

LEMMA NumberTaken ==
  ASSUME NumbersInv, NEW w \in Worker, NEW r \in Row, MayBegin(w), CreateMaterial(w, r)
  PROVE  NumbersInv'
<1>1. PICK c \in Rows("category") :
        /\ MayCount(c)
        /\ Begin(w, [op |-> "insert", row |-> r, values |-> [column \in {"category"} |-> c],
                     number |-> <<c, counter[c]>>])
  BY DEF CreateMaterial
<1>2. PICK u : u = [op |-> "insert", row |-> r, values |-> [column \in {"category"} |-> c],
                    number |-> <<c, counter[c]>>]
  OBVIOUS
<1>3. u.op = "insert" /\ u.number = <<c, counter[c]>>
  BY <1>2
<1>4. tx' = [tx EXCEPT ![w] = u]
  BY <1>1, <1>2 DEF Begin
<1>5. Requests' /\ \A v \in Worker : tx'[v] = IF v = w THEN u ELSE tx[v]
  <2>1. Requests
    BY DEF NumbersInv, NumberTypes
  <2> QED BY <1>4, <2>1, Entry
<1>6. UNCHANGED <<number, counter>>
  BY DEF CreateMaterial
<1>7. ASSUME NEW v \in Worker, v # w, Numbered(tx[v]) PROVE tx[v].number # u.number
  <2>1. tx[v].number[1] # c
    BY <1>1, <1>7 DEF MayCount, Locked, Busy, Numbered
  <2> QED BY <1>3, <2>1
<1>8. \A v \in Worker : Numbered(tx'[v]) => AtCounter(tx'[v].number)
  BY <1>3, <1>5 DEF NumbersInv, AtCounter
<1>9. \A v, x \in Worker :
        Numbered(tx'[v]) /\ Numbered(tx'[x]) /\ tx'[v].number = tx'[x].number => v = x
  BY <1>5, <1>7 DEF NumbersInv
<1>10. NumberTypes' /\ \A n : Behind(n)' <=> Behind(n)
  BY <1>5, <1>6 DEF NumbersInv, NumberTypes, Behind
<1>11. \A n : AtCounter(n)' <=> AtCounter(n)
  BY <1>6 DEF AtCounter
<1>12. /\ \A q \in Row : number'[q] # NULL => Behind(number'[q])
       /\ \A q, p \in Row : number'[q] # NULL /\ number'[q] = number'[p] => q = p
  BY <1>6 DEF NumbersInv
<1> QED BY <1>8, <1>9, <1>10, <1>11, <1>12 DEF NumbersInv, Numbered, Behind, AtCounter

LEMMA NumberCommitted ==
  ASSUME NumbersInv, NEW w \in Worker, CommitInsert(w)
  PROVE  NumbersInv'
<1>1. PICK t : t = tx[w]
  OBVIOUS
<1>2. t # NULL /\ t.op = "insert" /\ tx' = [tx EXCEPT ![w] = NULL]
  BY <1>1 DEF CommitInsert, Busy
<1>3. CASE UNCHANGED <<number, counter>>
  BY <1>2, <1>3, NoNumber DEF Numbered
<1>4. CASE number' = [number EXCEPT ![t.row] = t.number] /\ counter' = Counted(t.number)
  <2>1. CASE t.number = NULL
    <3>1. counter' = counter /\ \A r \in Row : number'[r] \in {number[r], NULL}
      BY <1>4, <2>1 DEF Counted, NumbersInv, NumberTypes
    <3>2. number' = [r \in Row |-> number'[r]]
      BY <1>4 DEF NumbersInv, NumberTypes
    <3>3. Requests' /\ \A v \in Worker : tx'[v] = IF v = w THEN NULL ELSE tx[v]
      BY <1>2, EntryEnds DEF NumbersInv, NumberTypes
    <3>4. /\ \A r \in Row : number'[r] # NULL => Behind(number'[r])
          /\ \A r, q \in Row : number'[r] # NULL /\ number'[r] = number'[q] => r = q
      BY <3>1 DEF NumbersInv
    <3>5. \A v \in Worker : Numbered(tx'[v]) => v # w /\ Numbered(tx[v]) /\ tx'[v] = tx[v]
      BY <3>3 DEF Numbered
    <3>6. /\ \A v \in Worker : Numbered(tx'[v]) => AtCounter(tx'[v].number)
          /\ \A v, x \in Worker :
               Numbered(tx'[v]) /\ Numbered(tx'[x]) /\ tx'[v].number = tx'[x].number => v = x
      BY <3>5 DEF NumbersInv
    <3> QED BY <3>1, <3>2, <3>3, <3>4, <3>6 DEF NumbersInv, NumberTypes, Numbered, Behind, AtCounter
  <2>2. CASE t.number # NULL
    <3>1. PICK c \in Rows("category") : t.number = <<c, counter[c]>>
      BY <1>1, <1>2, <2>2 DEF NumbersInv, Numbered, AtCounter
    <3>2. counter' = [counter EXCEPT ![c] = counter[c] + 1]
      BY <1>4, <2>2, <3>1 DEF Counted
    <3>3. counter[c] \in Nat
      BY DEF NumbersInv, NumberTypes
    <3>4. /\ counter' \in [Rows("category") -> Nat]
          /\ \A d \in Rows("category") : counter'[d] = IF d = c THEN counter[c] + 1 ELSE counter[d]
      BY <3>2, <3>3 DEF NumbersInv, NumberTypes
    <3>5. \A n : Behind(n) => Behind(n)'
      <4> SUFFICES ASSUME NEW n, NEW d \in Rows("category"), NEW i \in Nat,
                          n = <<d, i>>, i < counter[d]
                   PROVE  i < counter'[d]
        BY DEF Behind
      <4>1. counter[d] \in Nat
        BY DEF NumbersInv, NumberTypes
      <4> QED BY <3>3, <3>4, <4>1
    <3>6. Behind(t.number)'
      BY <3>1, <3>3, <3>4 DEF Behind
    <3>7. /\ number' = [r \in Row |-> number'[r]]
          /\ \A r \in Row : number'[r] = IF r = t.row THEN t.number ELSE number[r]
      BY <1>4 DEF NumbersInv, NumberTypes
    <3>8. \A r \in Row : number'[r] # NULL => Behind(number[r])'
      <4> SUFFICES ASSUME NEW r \in Row, number'[r] # NULL PROVE Behind(number[r])'
        OBVIOUS
      <4>1. CASE r = t.row
        BY <3>6, <3>7, <4>1 DEF Behind
      <4>2. CASE r # t.row
        <5>1. Behind(number[r]) /\ number'[r] = number[r]
          BY <3>7, <4>2 DEF NumbersInv
        <5>2. PICK n : n = number[r]
          OBVIOUS
        <5>3. Behind(n)'
          BY <3>5, <5>1, <5>2
        <5> QED BY <5>1, <5>2, <5>3 DEF Behind
      <4> QED BY <4>1, <4>2
    <3>9. \A r \in Row : number[r] # NULL => number[r] # t.number
      <4> SUFFICES ASSUME NEW r \in Row, number[r] # NULL, number[r] = t.number PROVE FALSE
        OBVIOUS
      <4>1. PICK d \in Rows("category"), i \in Nat : number[r] = <<d, i>> /\ i < counter[d]
        BY DEF NumbersInv, Behind
      <4>2. d = c /\ i = counter[c]
        BY <3>1, <4>1
      <4> QED BY <3>3, <4>1, <4>2
    <3>10. \A r, q \in Row : number'[r] # NULL /\ number'[r] = number'[q] => r = q
      BY <2>2, <3>7, <3>9 DEF NumbersInv
    <3>11. Requests' /\ \A v \in Worker : tx'[v] = IF v = w THEN NULL ELSE tx[v]
      BY <1>2, EntryEnds DEF NumbersInv, NumberTypes
    <3>12. \A v \in Worker : Numbered(tx'[v]) => v # w /\ Numbered(tx[v]) /\ tx'[v] = tx[v]
      BY <3>11 DEF Numbered
    <3>13. \A v \in Worker : Numbered(tx'[v]) => AtCounter(tx[v].number)'
      <4> SUFFICES ASSUME NEW v \in Worker, Numbered(tx'[v]) PROVE AtCounter(tx[v].number)'
        OBVIOUS
      <4>1. PICK d \in Rows("category") : tx[v].number = <<d, counter[d]>>
        BY <3>12 DEF NumbersInv, AtCounter
      <4>2. d # c
        BY <1>1, <1>2, <2>2, <3>1, <3>12, <4>1 DEF NumbersInv, Numbered
      <4>3. counter'[d] = counter[d] /\ tx'[v] = tx[v]
        BY <3>4, <3>12, <4>2
      <4> QED BY <4>1, <4>3 DEF AtCounter
    <3>14. \A v, x \in Worker :
             Numbered(tx'[v]) /\ Numbered(tx'[x]) /\ tx'[v].number = tx'[x].number => v = x
      BY <3>12 DEF NumbersInv
    <3> QED BY <3>4, <3>7, <3>8, <3>10, <3>11, <3>13, <3>14
            DEF NumbersInv, NumberTypes, Numbered, Behind, AtCounter
  <2> QED BY <2>1, <2>2
<1> QED BY <1>1, <1>3, <1>4 DEF CommitInsert

-----------------------------------------------------------------------------
(* The steps                                                                 *)

(* What an opening does: a request without a number, over unchanged tables.*)
Opens(w, u) == tx' = [tx EXCEPT ![w] = u] /\ UNCHANGED <<db, number, counter, policy>>

(* The openings of each kind, with what they have checked.                 *)
Inserts(w, r) ==
  \/ CreateCategory(w, r) \/ CreateSupplier(w, r) \/ CreateTemplate(w, r)
  \/ AddTemplateItem(w, r) \/ CreateOffice(w, r) \/ CreateContact(w, r)
  \/ CreatePurchase(w, r) \/ InsertElsewhere(w, r)
Updates(w, r) == UpdateMaterial(w, r) \/ UpdateContact(w, r) \/ UpdatePurchase(w, r)
Deletes(w, r) ==
  \/ DeleteCategory(w, r) \/ DeleteMaterial(w, r) \/ DeleteSupplier(w, r)
  \/ DeleteOffice(w, r) \/ DeleteContact(w, r) \/ DeleteTemplate(w, r)
  \/ RemoveTemplateItem(w, r) \/ DeletePurchase(w, r)

LEMMA InsertOpens ==
  ASSUME NEW w \in Worker, NEW r \in Row, Inserts(w, r)
  PROVE  \E v : OpenInsert(w, r, v)
BY DEF Inserts, CreateCategory, CreateSupplier, CreateTemplate, AddTemplateItem, CreateOffice,
       CreateContact, CreatePurchase, InsertElsewhere

LEMMA UpdateOpens ==
  ASSUME NEW w \in Worker, NEW r \in Row, Updates(w, r)
  PROVE  \E v : OpenUpdate(w, r, v)
BY DEF Updates, UpdateMaterial, UpdateContact, UpdatePurchase

LEMMA DeleteOpens ==
  ASSUME NEW w \in Worker, NEW r \in Row, Deletes(w, r)
  PROVE  OpenDelete(w, r)
BY DEF Deletes, DeleteCategory, DeleteMaterial, DeleteSupplier, DeleteOffice, DeleteContact,
       DeleteTemplate, RemoveTemplateItem, DeletePurchase

LEMMA Steps ==
  ASSUME Next
  PROVE  \E w \in Worker :
           \/ \E r \in Row :
                /\ MayBegin(w)
                /\ \/ Inserts(w, r) \/ CreateMaterial(w, r)
                   \/ Updates(w, r) \/ OpenPolicy(w, r) \/ Deletes(w, r)
           \/ CommitInsert(w) \/ CommitUpdate(w) \/ CommitPolicy(w) \/ CommitDelete(w)
           \/ Abort(w)
BY DEF Next, Inserts, Updates, Deletes

LEMMA NumbersStep == NumbersInv /\ [Next]_vars => NumbersInv'
<1> SUFFICES ASSUME NumbersInv, [Next]_vars PROVE NumbersInv'
  OBVIOUS
<1>1. ASSUME UNCHANGED vars PROVE NumbersInv'
  BY <1>1 DEF vars, NumbersInv, NumberTypes, Requests, Numbered, Behind, AtCounter
<1>2. ASSUME NEW w \in Worker, NEW r \in Row, Inserts(w, r) PROVE NumbersInv'
  <2>1. PICK v : OpenInsert(w, r, v)
    BY <1>2, InsertOpens
  <2>2. PICK u : u = [op |-> "insert", row |-> r, values |-> v, number |-> NULL]
    OBVIOUS
  <2> QED BY <2>1, <2>2, NoNumber DEF OpenInsert, Begin, Numbered
<1>3. ASSUME NEW w \in Worker, NEW r \in Row, Updates(w, r) PROVE NumbersInv'
  <2>1. PICK v : OpenUpdate(w, r, v)
    BY <1>3, UpdateOpens
  <2>2. PICK u : u = [op |-> "update", row |-> r, values |-> v,
                      columns |-> {c \in DOMAIN v : v[c] # db[r][c]}]
    OBVIOUS
  <2>3. u.op # "insert"
    BY <2>2
  <2> QED BY <2>1, <2>2, <2>3, NoNumber DEF OpenUpdate, Begin, Numbered
<1>4. ASSUME NEW w \in Worker, NEW r \in Row, OpenPolicy(w, r) PROVE NumbersInv'
  <2>1. PICK k \in PolicyKey, x \in 0..1 :
          Begin(w, [op |-> "policy", row |-> r, key |-> k,
                    read |-> policy[r], write |-> Merged(policy[r], k, x)])
    BY <1>4 DEF OpenPolicy
  <2>2. PICK u : u = [op |-> "policy", row |-> r, key |-> k,
                      read |-> policy[r], write |-> Merged(policy[r], k, x)]
    OBVIOUS
  <2>3. u.op # "insert"
    BY <2>2
  <2> QED BY <1>4, <2>1, <2>2, <2>3, NoNumber DEF OpenPolicy, Begin, Numbered
<1>5. ASSUME NEW w \in Worker, NEW r \in Row, Deletes(w, r) PROVE NumbersInv'
  <2>1. OpenDelete(w, r)
    BY <1>5, DeleteOpens
  <2>2. PICK u : u = [op |-> "delete", row |-> r,
                      loaded |-> {ck \in Children(r) : ck[2].orm # "none"},
                      seen |-> {c \in Row : Live(c)}]
    OBVIOUS
  <2>3. u.op # "insert"
    BY <2>2
  <2> QED BY <2>1, <2>2, <2>3, NoNumber DEF OpenDelete, Begin, Numbered
<1>6. ASSUME NEW w \in Worker, CommitUpdate(w) \/ CommitPolicy(w) \/ CommitDelete(w) \/ Abort(w)
      PROVE  NumbersInv'
  BY <1>6, NoNumber DEF CommitUpdate, CommitPolicy, CommitDelete, Abort, Numbered
<1> QED BY <1>1, <1>2, <1>3, <1>4, <1>5, <1>6, NumberTaken, NumberCommitted, Steps

LEMMA NumbersInit == Init => NumbersInv
<1> SUFFICES ASSUME Init PROVE NumbersInv
  OBVIOUS
<1>1. \A w \in Worker : tx[w] = NULL
  BY DEF Init
<1>2. NumberTypes
  BY DEF Init, NumberTypes, Requests
<1> QED BY <1>1, <1>2 DEF Init, NumbersInv, Numbered

-----------------------------------------------------------------------------
(* Delivery policies                                                         *)

IsPolicy(p) == p = [k \in PolicyKey |-> p[k]]

(* An open update writes the policy it read with its own key changed.      *)
MergeOpen(t) ==
  t # NULL /\ t.op = "policy" =>
    /\ t.row \in Rows("supplier") /\ IsPolicy(t.write)
    /\ \A k \in PolicyKey \ {t.key} : t.write[k] = t.read[k]

PolicyInv ==
  /\ Requests
  /\ policy = [s \in Rows("supplier") |-> policy[s]]
  /\ \A s \in Rows("supplier") : IsPolicy(policy[s])
  /\ \A w \in Worker : MergeOpen(tx[w])

LEMMA PolicyKept ==
  ASSUME PolicyInv, NEW w \in Worker, NEW u, tx' = [tx EXCEPT ![w] = u], UNCHANGED policy,
         MergeOpen(u)
  PROVE  PolicyInv'
<1>0. Requests
  BY DEF PolicyInv
<1>1. Requests' /\ \A v \in Worker : tx'[v] = IF v = w THEN u ELSE tx[v]
  BY <1>0, Entry
<1>2. \A v \in Worker : MergeOpen(tx'[v])
  BY <1>1 DEF PolicyInv
<1>3. /\ policy' = [s \in Rows("supplier") |-> policy'[s]]
      /\ \A s \in Rows("supplier") : IsPolicy(policy'[s])
  BY DEF PolicyInv
<1> QED BY <1>1, <1>2, <1>3 DEF PolicyInv, MergeOpen, IsPolicy

LEMMA PolicyStep == PolicyInv /\ [Next]_vars => PolicyInv'
<1> SUFFICES ASSUME PolicyInv, [Next]_vars PROVE PolicyInv'
  OBVIOUS
<1>1. ASSUME UNCHANGED vars PROVE PolicyInv'
  BY <1>1 DEF vars, PolicyInv, Requests, MergeOpen, IsPolicy
<1>2. ASSUME NEW w \in Worker, NEW r \in Row, Inserts(w, r) \/ CreateMaterial(w, r) PROVE PolicyInv'
  <2>1. PICK v, n : /\ tx' = [tx EXCEPT ![w] = [op |-> "insert", row |-> r, values |-> v, number |-> n]]
                    /\ UNCHANGED policy
    <3>1. CASE Inserts(w, r)
      BY <3>1, InsertOpens DEF OpenInsert, Begin
    <3>2. CASE CreateMaterial(w, r)
      BY <3>2 DEF CreateMaterial, Begin
    <3> QED BY <1>2, <3>1, <3>2
  <2>2. PICK u : u = [op |-> "insert", row |-> r, values |-> v, number |-> n]
    OBVIOUS
  <2>3. u.op # "policy"
    BY <2>2
  <2> QED BY <2>1, <2>2, <2>3, PolicyKept DEF MergeOpen
<1>3. ASSUME NEW w \in Worker, NEW r \in Row, Updates(w, r) PROVE PolicyInv'
  <2>1. PICK v : OpenUpdate(w, r, v)
    BY <1>3, UpdateOpens
  <2>2. PICK u : u = [op |-> "update", row |-> r, values |-> v,
                      columns |-> {c \in DOMAIN v : v[c] # db[r][c]}]
    OBVIOUS
  <2>3. u.op # "policy"
    BY <2>2
  <2> QED BY <2>1, <2>2, <2>3, PolicyKept DEF OpenUpdate, Begin, MergeOpen
<1>4. ASSUME NEW w \in Worker, NEW r \in Row, OpenPolicy(w, r) PROVE PolicyInv'
  <2>1. PICK k \in PolicyKey, x \in 0..1 :
          Begin(w, [op |-> "policy", row |-> r, key |-> k,
                    read |-> policy[r], write |-> Merged(policy[r], k, x)])
    BY <1>4 DEF OpenPolicy
  <2>2. PICK read, write : read = policy[r] /\ write = Merged(policy[r], k, x)
    OBVIOUS
  <2>3. PICK u : u = [op |-> "policy", row |-> r, key |-> k, read |-> read, write |-> write]
    OBVIOUS
  <2>4. r \in Rows("supplier")
    BY <1>4 DEF OpenPolicy, Rows
  <2>5. write = [read EXCEPT ![k] = x] /\ read = [j \in PolicyKey |-> read[j]]
    BY <2>2, <2>4 DEF Merged, PolicyInv, IsPolicy
  <2>6. /\ IsPolicy(write)
        /\ \A j \in PolicyKey \ {k} : write[j] = read[j]
    BY <2>5 DEF IsPolicy
  <2>7. u.op = "policy" /\ u.row = r /\ u.key = k /\ u.read = read /\ u.write = write
    BY <2>3
  <2>8. MergeOpen(u)
    BY <2>4, <2>6, <2>7 DEF MergeOpen
  <2>9. tx' = [tx EXCEPT ![w] = u]
    BY <2>1, <2>2, <2>3 DEF Begin
  <2> QED BY <1>4, <2>6, <2>7, <2>8, <2>9, PolicyKept DEF OpenPolicy
<1>5. ASSUME NEW w \in Worker, NEW r \in Row, Deletes(w, r) PROVE PolicyInv'
  <2>1. OpenDelete(w, r)
    BY <1>5, DeleteOpens
  <2>2. PICK u : u = [op |-> "delete", row |-> r,
                      loaded |-> {ck \in Children(r) : ck[2].orm # "none"},
                      seen |-> {c \in Row : Live(c)}]
    OBVIOUS
  <2>3. u.op # "policy"
    BY <2>2
  <2> QED BY <2>1, <2>2, <2>3, PolicyKept DEF OpenDelete, Begin, MergeOpen
<1>6. ASSUME NEW w \in Worker, CommitInsert(w) \/ CommitUpdate(w) \/ CommitDelete(w) \/ Abort(w)
      PROVE  PolicyInv'
  BY <1>6, PolicyKept DEF CommitInsert, CommitUpdate, CommitDelete, Abort, MergeOpen
<1>7. ASSUME NEW w \in Worker, CommitPolicy(w) PROVE PolicyInv'
  <2>1. PICK t : t = tx[w]
    OBVIOUS
  <2>2. /\ t # NULL /\ t.op = "policy" /\ t.row \in Rows("supplier")
        /\ IsPolicy(t.write)
    BY <1>7, <2>1 DEF CommitPolicy, Busy, PolicyInv, MergeOpen
  <2>3. policy' = policy \/ policy' = [policy EXCEPT ![t.row] = t.write]
    BY <1>7, <2>1 DEF CommitPolicy
  <2>4. /\ policy' = [s \in Rows("supplier") |-> policy'[s]]
        /\ \A s \in Rows("supplier") : policy'[s] = policy[s] \/ policy'[s] = t.write
    BY <2>3 DEF PolicyInv
  <2>5. \A s \in Rows("supplier") : IsPolicy(policy'[s])
    BY <2>2, <2>4 DEF PolicyInv
  <2>6. Requests' /\ \A v \in Worker : tx'[v] = IF v = w THEN NULL ELSE tx[v]
    <3>1. Requests /\ tx' = [tx EXCEPT ![w] = NULL]
      BY <1>7 DEF CommitPolicy, PolicyInv
    <3> QED BY <3>1, EntryEnds
  <2>7. \A v \in Worker : MergeOpen(tx'[v])
    BY <2>6 DEF PolicyInv, MergeOpen
  <2> QED BY <2>4, <2>5, <2>6, <2>7 DEF PolicyInv, MergeOpen, IsPolicy
<1> QED BY <1>1, <1>2, <1>3, <1>4, <1>5, <1>6, <1>7, Steps

(* A partial update of a delivery policy changes only the key it was given,*)
(* unless another update has committed since it read the policy.           *)
THEOREM PolicyCorrect == Spec => PartialPolicyKeepsTheRest
<1>1. Init => PolicyInv
  <2> SUFFICES ASSUME Init PROVE PolicyInv
    OBVIOUS
  <2>1. \A w \in Worker : tx[w] = NULL
    BY DEF Init
  <2>2. \A s \in Rows("supplier") : IsPolicy(policy[s])
    BY DEF Init, IsPolicy
  <2> QED BY <2>1, <2>2 DEF Init, PolicyInv, Requests, MergeOpen
<1>2. ASSUME PolicyInv, [Next]_vars, NEW w \in Busy("policy"), tx'[w] = NULL,
             policy'[tx[w].row] # policy[tx[w].row], policy[tx[w].row] = tx[w].read,
             NEW k \in PolicyKey \ {tx[w].key}
      PROVE  policy'[tx[w].row][k] = policy[tx[w].row][k]
  <2>1. policy' # policy /\ w \in Worker /\ tx[w] # NULL /\ tx[w].op = "policy"
    BY <1>2 DEF Busy
  <2>2. PICK v \in Worker : CommitPolicy(v)
    <3>1. /\ \A v \in Worker, r \in Row : Inserts(v, r) => UNCHANGED policy
          /\ \A v \in Worker, r \in Row : Updates(v, r) => UNCHANGED policy
          /\ \A v \in Worker, r \in Row : Deletes(v, r) => UNCHANGED policy
      BY InsertOpens, UpdateOpens, DeleteOpens DEF OpenInsert, OpenUpdate, OpenDelete
    <3> QED BY <1>2, <2>1, <3>1, Steps
            DEF vars, CreateMaterial, OpenPolicy, CommitInsert, CommitUpdate, CommitDelete, Abort
  <2>3. \A x \in Worker : tx'[x] = IF x = v THEN NULL ELSE tx[x]
    <3>1. Requests /\ tx' = [tx EXCEPT ![v] = NULL]
      BY <1>2, <2>2 DEF CommitPolicy, PolicyInv
    <3> QED BY <3>1, EntryEnds
  <2>4. v = w
    BY <1>2, <2>1, <2>3
  <2>5. policy' = [policy EXCEPT ![tx[w].row] = tx[w].write]
    BY <2>1, <2>2, <2>4 DEF CommitPolicy
  <2>6. tx[w].row \in Rows("supplier") /\ tx[w].write[k] = tx[w].read[k]
    BY <1>2, <2>1 DEF PolicyInv, MergeOpen
  <2>7. policy'[tx[w].row] = tx[w].write
    BY <1>2, <2>5, <2>6 DEF PolicyInv
  <2> QED BY <1>2, <2>6, <2>7
<1>3. PolicyInv /\ [Next]_vars =>
        \A w \in Busy("policy") :
          LET s == tx[w].row IN
          (tx'[w] = NULL /\ policy'[s] # policy[s] /\ policy[s] = tx[w].read) =>
            \A k \in PolicyKey \ {tx[w].key} : policy'[s][k] = policy[s][k]
  BY <1>2
<1> QED BY PolicyStep, <1>1, <1>3, PTL DEF Spec, PartialPolicyKeepsTheRest

-----------------------------------------------------------------------------
(* Rows and the keys between them                                            *)

LEMMA KeyFacts ==
  /\ \A k \in ForeignKeys : k.orm = "nulls" /\ k.nullable =>
       k.from \in {"entry", "contact"} /\ (k.from = "contact" => k.column = "office")
  /\ \A k \in ForeignKeys : k.orm # "none" /\ k.orm # "nulls" => k.from = "item"
  /\ \A k \in ForeignKeys : k.onDelete = "cascade" => k.from \in {"alias", "item"}
  /\ \A k \in ForeignKeys : k.onDelete = "set_null" => k.from = "contact" /\ k.column = "office"
  /\ \A k \in ForeignKeys : k.onDelete \in {"cascade", "set_null", "restrict"}
  /\ \A k \in ForeignKeys : k.from = "alias" => k.orm = "nulls" /\ ~k.nullable
BY DEF ForeignKeys, Key, AliasesOnDelete

LEMMA ColumnFacts ==
  /\ Columns("office") = {"supplier"} /\ Columns("contact") = {"supplier", "office"}
  /\ Columns("alias") = {"supplier", "material"} /\ Columns("material") = {"category"}
  /\ \A table \in {"category", "supplier", "template"} : Columns(table) = {}
<1>1. Columns("office") = {"supplier"}
  <2>1. \A k \in ForeignKeys : k.from = "office" => k.column = "supplier"
    BY DEF ForeignKeys, Key, AliasesOnDelete
  <2>2. \E k \in ForeignKeys : k.from = "office" /\ k.column = "supplier"
    BY DEF ForeignKeys, Key, AliasesOnDelete
  <2> QED BY <2>1, <2>2 DEF Columns, KeysOf
<1>2. Columns("contact") = {"supplier", "office"}
  <2>1. \A k \in ForeignKeys : k.from = "contact" => k.column \in {"supplier", "office"}
    BY DEF ForeignKeys, Key, AliasesOnDelete
  <2>2. /\ \E k \in ForeignKeys : k.from = "contact" /\ k.column = "supplier"
        /\ \E k \in ForeignKeys : k.from = "contact" /\ k.column = "office"
    BY DEF ForeignKeys, Key, AliasesOnDelete
  <2> QED BY <2>1, <2>2 DEF Columns, KeysOf
<1>3. Columns("alias") = {"supplier", "material"}
  <2>1. \A k \in ForeignKeys : k.from = "alias" => k.column \in {"supplier", "material"}
    BY DEF ForeignKeys, Key, AliasesOnDelete
  <2>2. /\ \E k \in ForeignKeys : k.from = "alias" /\ k.column = "supplier"
        /\ \E k \in ForeignKeys : k.from = "alias" /\ k.column = "material"
    BY DEF ForeignKeys, Key, AliasesOnDelete
  <2> QED BY <2>1, <2>2 DEF Columns, KeysOf
<1>4. Columns("material") = {"category"}
  <2>1. \A k \in ForeignKeys : k.from = "material" => k.column = "category"
    BY DEF ForeignKeys, Key, AliasesOnDelete
  <2>2. \E k \in ForeignKeys : k.from = "material" /\ k.column = "category"
    BY DEF ForeignKeys, Key, AliasesOnDelete
  <2> QED BY <2>1, <2>2 DEF Columns, KeysOf
<1>5. ASSUME NEW table \in {"category", "supplier", "template"} PROVE Columns(table) = {}
  <2>1. \A k \in ForeignKeys : k.from \notin {"category", "supplier", "template"}
    BY DEF ForeignKeys, Key, AliasesOnDelete
  <2> QED BY <2>1 DEF Columns, KeysOf
<1> QED BY <1>1, <1>2, <1>3, <1>4, <1>5

(* The one key that leads to an office.                                    *)
LEMMA OfficeKey ==
  \E k \in ForeignKeys : /\ k.from = "contact" /\ k.column = "office" /\ k.to = "office"
                         /\ k.orm = "nulls" /\ k.onDelete = "set_null"
BY DEF ForeignKeys, Key, AliasesOnDelete

LEMMA ValuesAreRecords ==
  ASSUME NEW table, NEW v \in Values(table)
  PROVE  v \in Record(table)
<1>1. PICK S : v \in [Columns(table) -> S]
  BY DEF Values
<1>2. ASSUME NEW c \in Columns(table) PROVE v[c] \in Row \union {NULL}
  <2>1. PICK k \in KeysOf(table) : k.column = c
    BY <1>2 DEF Columns
  <2>2. v[c] \in Known(k.to) \/ v[c] = NULL
    BY <2>1 DEF Values
  <2> QED BY <2>2 DEF Known, Rows
<1> QED BY <1>1, <1>2 DEF Record

(* An office that was there when it was looked up for a supplier.          *)
Checked(office, supplier) ==
  office # NULL =>
    /\ office \in Rows("office") /\ db[office] # NULL
    /\ Live(office) => db[office]["supplier"] = supplier

InsertOk(t) == t.op = "insert" =>
  /\ t.row \in Row /\ t.values \in Record(TableOf[t.row])
  /\ TableOf[t.row] = "contact" => Checked(t.values["office"], t.values["supplier"])

UpdateOk(t) == t.op = "update" =>
  /\ t.row \in Row /\ db[t.row] # NULL
  /\ TableOf[t.row] \in {"material", "contact", "purchase"}
  /\ t.values \in Record(TableOf[t.row])
  /\ TableOf[t.row] = "contact" =>
       /\ "supplier" \notin t.columns
       /\ Live(t.row) => t.values["supplier"] = db[t.row]["supplier"]
       /\ Checked(t.values["office"], t.values["supplier"])

(* The children a deletion may change are of tables that allow it, and no  *)
(* alias it has seen refers to its row.                                    *)
Loaded(ck) ==
  /\ ck[2] \in ForeignKeys /\ ck[2].orm # "none" /\ TableOf[ck[1]] = ck[2].from
  /\ ck[2].orm = "nulls" => ck[2].nullable

DeleteOk(t) == t.op = "delete" =>
  /\ t.row \in Row /\ db[t.row] # NULL
  /\ \A ck \in t.loaded : Loaded(ck) /\ ck[1] \in Row /\ db[ck[1]] # NULL
  /\ \A a \in t.seen : TableOf[a] = "alias" =>
       /\ a \in Row /\ db[a] # NULL
       /\ \A k \in ForeignKeys :
            Live(a) /\ k.from = "alias" /\ k.to = TableOf[t.row] => db[a][k.column] # t.row

RequestOk(t) == InsertOk(t) /\ UpdateOk(t) /\ DeleteOk(t)
Inserting(t) == t # NULL /\ t.op = "insert"

Contents == db = [r \in Row |-> db[r]] /\ \A r \in Row : Live(r) => db[r] \in Record(TableOf[r])

DataInv ==
  /\ Requests /\ Contents
  /\ \A w \in Worker : tx[w] # NULL => RequestOk(tx[w])
  /\ \A w \in Worker : Inserting(tx[w]) => db[tx[w].row] = NULL
  /\ \A v, w \in Worker : Inserting(tx[v]) /\ Inserting(tx[w]) /\ tx[v].row = tx[w].row => v = w

(* A row, once there, is never created again, and the keys that tell whose *)
(* an office, a contact or an alias is never change.                       *)
Steady ==
  \A r \in Row : db[r] # NULL =>
    /\ db'[r] # NULL
    /\ Live(r)' =>
         /\ Live(r)
         /\ TableOf[r] \in {"office", "contact", "alias"} => db'[r]["supplier"] = db[r]["supplier"]
         /\ TableOf[r] = "alias" => db'[r]["material"] = db[r]["material"]

LEMMA CheckedStays ==
  ASSUME Steady, NEW office, NEW supplier, Checked(office, supplier)
  PROVE  Checked(office, supplier)'
BY DEF Steady, Checked, Rows

LEMMA RequestStays ==
  ASSUME Steady, NEW t, RequestOk(t)
  PROVE  RequestOk(t)'
<1>1. PICK office, supplier : office = t.values["office"] /\ supplier = t.values["supplier"]
  OBVIOUS
<1>2. Checked(office, supplier) => Checked(office, supplier)'
  BY CheckedStays
<1>3. InsertOk(t)'
  BY <1>1, <1>2 DEF RequestOk, InsertOk
<1>4. UpdateOk(t)'
  BY <1>1, <1>2 DEF RequestOk, UpdateOk, Steady
<1>5. DeleteOk(t)'
  <2>1. ASSUME t.op = "delete", NEW a \in t.seen, TableOf[a] = "alias"
        PROVE  /\ db'[a] # NULL
               /\ \A k \in ForeignKeys :
                    Live(a)' /\ k.from = "alias" /\ k.to = TableOf[t.row] => db'[a][k.column] # t.row
    <3>1. a \in Row /\ db[a] # NULL
      BY <2>1 DEF RequestOk, DeleteOk
    <3>2. \A k \in ForeignKeys : k.from = "alias" => k.column \in {"supplier", "material"}
      BY ColumnFacts DEF Columns, KeysOf
    <3>3. Live(a)' => Live(a) /\ db'[a]["supplier"] = db[a]["supplier"]
                              /\ db'[a]["material"] = db[a]["material"]
      BY <2>1, <3>1 DEF Steady
    <3> QED BY <2>1, <3>1, <3>2, <3>3 DEF RequestOk, DeleteOk, Steady
  <2> QED BY <2>1 DEF RequestOk, DeleteOk, Loaded, Steady
<1> QED BY <1>3, <1>4, <1>5 DEF RequestOk

(* A request opens over unchanged rows.                                    *)
LEMMA DataOpens ==
  ASSUME DataInv, NEW w \in Worker, NEW u, tx' = [tx EXCEPT ![w] = u], UNCHANGED db,
         RequestOk(u), Inserting(u) => Fresh(u.row), tx[w] = NULL
  PROVE  DataInv'
<1>1. Requests' /\ \A v \in Worker : tx'[v] = IF v = w THEN u ELSE tx[v]
  <2>1. Requests
    BY DEF DataInv
  <2> QED BY <2>1, Entry
<1>2. Steady
  BY DEF Steady, Live
<1>3. \A v \in Worker : tx'[v] # NULL => RequestOk(tx'[v])
  BY <1>1 DEF DataInv
<1>4. ASSUME NEW v \in Worker, tx'[v] # NULL PROVE RequestOk(tx[v])'
  <2>1. PICK t : t = tx'[v]
    OBVIOUS
  <2>2. RequestOk(t)'
    BY <1>2, <1>3, <1>4, <2>1, RequestStays
  <2> QED BY <2>1, <2>2 DEF RequestOk, InsertOk, UpdateOk, DeleteOk, Checked
<1>5. \A v \in Worker : Inserting(tx'[v]) => db'[tx'[v].row] = NULL
  BY <1>1 DEF DataInv, Fresh
<1>6. \A v, x \in Worker :
        Inserting(tx'[v]) /\ Inserting(tx'[x]) /\ tx'[v].row = tx'[x].row => v = x
  <2>1. \A v \in Worker \ {w} : Inserting(u) /\ Inserting(tx[v]) => tx[v].row # u.row
    BY DEF Fresh, Busy, Inserting
  <2> QED BY <1>1, <2>1 DEF DataInv
<1>7. Contents'
  BY DEF DataInv, Contents, Live
<1> QED BY <1>1, <1>4, <1>5, <1>6, <1>7 DEF DataInv, Inserting

(* A request ends.                                                         *)
LEMMA DataEnds ==
  ASSUME DataInv, NEW w \in Worker, tx' = [tx EXCEPT ![w] = NULL], Steady, Contents',
         \A v \in Worker \ {w} : Inserting(tx[v]) => db'[tx[v].row] = NULL
  PROVE  DataInv'
<1>1. Requests' /\ \A v \in Worker : tx'[v] = IF v = w THEN NULL ELSE tx[v]
  <2>1. Requests
    BY DEF DataInv
  <2> QED BY <2>1, EntryEnds
<1>2. ASSUME NEW v \in Worker, tx'[v] # NULL PROVE RequestOk(tx[v])'
  <2>1. PICK t : t = tx'[v]
    OBVIOUS
  <2>2. RequestOk(t)
    BY <1>1, <1>2, <2>1 DEF DataInv
  <2>3. RequestOk(t)'
    BY <2>2, RequestStays
  <2> QED BY <2>1, <2>3 DEF RequestOk, InsertOk, UpdateOk, DeleteOk, Checked
<1>3. \A v \in Worker : Inserting(tx'[v]) => v # w /\ tx'[v] = tx[v] /\ Inserting(tx[v])
  BY <1>1 DEF Inserting
<1>4. \A v \in Worker : Inserting(tx'[v]) => db'[tx'[v].row] = NULL
  BY <1>3
<1>5. \A v, x \in Worker :
        Inserting(tx'[v]) /\ Inserting(tx'[x]) /\ tx'[v].row = tx'[x].row => v = x
  BY <1>3 DEF DataInv
<1> QED BY <1>1, <1>2, <1>4, <1>5 DEF DataInv, Inserting

(* What the handler of a contact has checked.                              *)
LEMMA OfficeChecked ==
  ASSUME NEW v \in Values("contact"), OfficeFits(v["office"], v["supplier"])
  PROVE  Checked(v["office"], v["supplier"])
<1>1. PICK k \in ForeignKeys : k.from = "contact" /\ k.column = "office" /\ k.to = "office"
  BY OfficeKey
<1>2. v["office"] # NULL => v["office"] \in Known("office")
  BY <1>1 DEF Values, KeysOf
<1> QED BY <1>2 DEF OfficeFits, Checked, Known

(* An insertion opens with values that fit its table.                      *)
OpensWith(w, r, v) ==
  /\ OpenInsert(w, r, v) /\ v \in Record(TableOf[r])
  /\ TableOf[r] = "contact" => Checked(v["office"], v["supplier"])

LEMMA InsertFits ==
  ASSUME NEW w \in Worker, NEW r \in Row, Inserts(w, r)
  PROVE  \E v : OpensWith(w, r, v)
<1>1. CASE CreateCategory(w, r) \/ CreateSupplier(w, r) \/ CreateTemplate(w, r)
  <2>1. TableOf[r] \in {"category", "supplier", "template"} /\ OpenInsert(w, r, <<>>)
    BY <1>1 DEF CreateCategory, CreateSupplier, CreateTemplate
  <2>2. <<>> \in [{} -> Row \union {NULL}]
    OBVIOUS
  <2>3. <<>> \in Record(TableOf[r])
    BY <2>1, <2>2, ColumnFacts DEF Record
  <2> QED BY <2>1, <2>3 DEF OpensWith
<1>2. CASE CreateContact(w, r)
  <2>1. PICK v \in Values("contact") : OfficeFits(v["office"], v["supplier"]) /\ OpenInsert(w, r, v)
    BY <1>2 DEF CreateContact
  <2> QED BY <1>2, <2>1, OfficeChecked, ValuesAreRecords DEF CreateContact, OpensWith
<1>3. CASE AddTemplateItem(w, r) \/ CreateOffice(w, r) \/ CreatePurchase(w, r) \/ InsertElsewhere(w, r)
  <2>1. PICK v \in Values(TableOf[r]) : OpenInsert(w, r, v)
    BY <1>3 DEF AddTemplateItem, CreateOffice, CreatePurchase, InsertElsewhere
  <2>2. TableOf[r] # "contact"
    BY <1>3 DEF AddTemplateItem, CreateOffice, CreatePurchase, InsertElsewhere
  <2> QED BY <2>1, <2>2, ValuesAreRecords DEF OpensWith
<1> QED BY <1>1, <1>2, <1>3 DEF Inserts

LEMMA InsertData ==
  ASSUME DataInv, NEW w \in Worker, tx[w] = NULL, NEW r \in Row,
         Inserts(w, r) \/ CreateMaterial(w, r)
  PROVE  DataInv'
<1>1. PICK v, n : /\ tx' = [tx EXCEPT ![w] = [op |-> "insert", row |-> r, values |-> v, number |-> n]]
                  /\ UNCHANGED db /\ Fresh(r) /\ v \in Record(TableOf[r])
                  /\ TableOf[r] = "contact" => Checked(v["office"], v["supplier"])
  <2>1. CASE Inserts(w, r)
    <3>1. PICK v : OpensWith(w, r, v)
      BY <2>1, InsertFits
    <3>2. tx' = [tx EXCEPT ![w] = [op |-> "insert", row |-> r, values |-> v, number |-> NULL]]
      BY <3>1 DEF OpensWith, OpenInsert, Begin
    <3> QED BY <3>1, <3>2 DEF OpensWith, OpenInsert
  <2>2. CASE CreateMaterial(w, r)
    <3>1. PICK c \in Rows("category") :
            Begin(w, [op |-> "insert", row |-> r, values |-> [column \in {"category"} |-> c],
                      number |-> <<c, counter[c]>>])
      BY <2>2 DEF CreateMaterial
    <3>2. PICK v : v = [column \in {"category"} |-> c]
      OBVIOUS
    <3>3. v \in [{"category"} -> Row \union {NULL}] /\ TableOf[r] = "material"
      BY <2>2, <3>2 DEF CreateMaterial, Rows
    <3>4. v \in Record(TableOf[r])
      BY <3>3, ColumnFacts DEF Record
    <3> QED BY <2>2, <3>1, <3>2, <3>3, <3>4 DEF CreateMaterial, Begin
  <2> QED BY <2>1, <2>2
<1>2. PICK u : u = [op |-> "insert", row |-> r, values |-> v, number |-> n]
  OBVIOUS
<1>3. u.op = "insert" /\ u.row = r /\ u.values = v
  BY <1>2
<1>4. RequestOk(u)
  BY <1>1, <1>3 DEF RequestOk, InsertOk, UpdateOk, DeleteOk
<1> QED BY <1>1, <1>2, <1>3, <1>4, DataOpens

LEMMA UpdateData ==
  ASSUME DataInv, NEW w \in Worker, tx[w] = NULL, NEW r \in Row, Updates(w, r)
  PROVE  DataInv'
<1>1. PICK v \in Values(TableOf[r]) :
        /\ OpenUpdate(w, r, v) /\ Live(r) /\ TableOf[r] \in {"material", "contact", "purchase"}
        /\ TableOf[r] = "contact" =>
             v["supplier"] = db[r]["supplier"] /\ OfficeFits(v["office"], v["supplier"])
  BY DEF Updates, UpdateMaterial, UpdateContact, UpdatePurchase
<1>2. PICK cols : cols = {c \in DOMAIN v : v[c] # db[r][c]}
  OBVIOUS
<1>3. PICK u : u = [op |-> "update", row |-> r, values |-> v, columns |-> cols]
  OBVIOUS
<1>4. u.op = "update" /\ u.row = r /\ u.values = v /\ u.columns = cols
  BY <1>3
<1>5. TableOf[r] = "contact" => "supplier" \notin cols /\ Checked(v["office"], v["supplier"])
  BY <1>1, <1>2, OfficeChecked
<1>6. RequestOk(u)
  BY <1>1, <1>4, <1>5, ValuesAreRecords DEF RequestOk, InsertOk, UpdateOk, DeleteOk, Live
<1> QED BY <1>1, <1>2, <1>3, <1>4, <1>6, DataOpens DEF OpenUpdate, Begin, Inserting

LEMMA DeleteData ==
  ASSUME DataInv, NEW w \in Worker, tx[w] = NULL, NEW r \in Row, OpenDelete(w, r)
  PROVE  DataInv'
<1>1. PICK loaded, seen : /\ loaded = {ck \in Children(r) : ck[2].orm # "none"}
                          /\ seen = {c \in Row : Live(c)}
  OBVIOUS
<1>2. PICK u : u = [op |-> "delete", row |-> r, loaded |-> loaded, seen |-> seen]
  OBVIOUS
<1>3. u.op = "delete" /\ u.row = r /\ u.loaded = loaded /\ u.seen = seen
  BY <1>2
<1>4. db[r] # NULL /\ \A ck \in Children(r) : ck[2].orm = "nulls" => ck[2].nullable
  BY DEF OpenDelete, Live
<1>5. ASSUME NEW ck \in loaded PROVE Loaded(ck) /\ ck[1] \in Row /\ db[ck[1]] # NULL
  <2>1. PICK k \in {f \in ForeignKeys : f.to = TableOf[r]} :
          ck \in {<<c, k>> : c \in {x \in Rows(k.from) : Live(x) /\ db[x][k.column] = r}}
    BY <1>1, <1>5 DEF Children
  <2>2. PICK c \in Rows(k.from) : ck = <<c, k>> /\ Live(c)
    BY <2>1
  <2> QED BY <1>1, <1>4, <1>5, <2>1, <2>2 DEF Loaded, Rows, Live
<1>6. ASSUME NEW a \in seen, TableOf[a] = "alias", NEW k \in ForeignKeys,
             k.from = "alias", k.to = TableOf[r], db[a][k.column] = r
      PROVE  FALSE
  <2>1. <<a, k>> \in Children(r)
    BY <1>1, <1>6 DEF Children, Rows
  <2> QED BY <1>4, <1>6, <2>1, KeyFacts
<1>7. RequestOk(u)
  BY <1>1, <1>3, <1>4, <1>5, <1>6 DEF RequestOk, InsertOk, UpdateOk, DeleteOk, Live
<1> QED BY <1>1, <1>2, <1>3, <1>7, DataOpens DEF OpenDelete, Begin, Inserting

-----------------------------------------------------------------------------
(* The commits: what each leaves of the rows and of the contacts.            *)

(* An office a contact may name.                                           *)
Own(office, supplier) ==
  office # NULL => office \in Rows("office") /\ Live(office) /\ db[office]["supplier"] = supplier

ContactsOwn ==
  \A k \in Rows("contact") : Live(k) => Own(db[k]["office"], db[k]["supplier"])

(* A step that leaves every row as it is.                                  *)
LEMMA RowsStay ==
  ASSUME DataInv, UNCHANGED db
  PROVE  Steady /\ Contents' /\ (ContactsOwn => ContactsOwn')
<1>1. Steady
  BY DEF Steady, Live
<1>2. Contents'
  BY DEF DataInv, Contents, Live
<1>3. ContactsOwn => ContactsOwn'
  BY DEF ContactsOwn, Own, Live
<1> QED BY <1>1, <1>2, <1>3

(* A row written by a commit, all others as they were.                     *)
LEMMA RowWritten ==
  ASSUME DataInv, NEW r \in Row, NEW v \in Record(TableOf[r]), db' = [db EXCEPT ![r] = v]
  PROVE  /\ Contents'
         /\ \A q \in Row : db'[q] = IF q = r THEN v ELSE db[q]
         /\ Live(r)'
<1>1. db' = [q \in Row |-> IF q = r THEN v ELSE db[q]]
  BY DEF DataInv, Contents
<1>2. v # NULL /\ v # GONE
  BY ReferenceAssumption
<1> QED BY <1>1, <1>2 DEF DataInv, Contents, Live

LEMMA InsertSteady ==
  ASSUME DataInv, NEW r \in Row, NEW v \in Record(TableOf[r]), db' = [db EXCEPT ![r] = v],
         db[r] = NULL
  PROVE  Steady
BY RowWritten DEF Steady, Live

LEMMA UpdateSteady ==
  ASSUME DataInv, NEW r \in Row, NEW v \in Record(TableOf[r]), db' = [db EXCEPT ![r] = v],
         Live(r), TableOf[r] \in {"material", "contact", "purchase"},
         TableOf[r] = "contact" => v["supplier"] = db[r]["supplier"]
  PROVE  Steady
<1>1. \A q \in Row : db'[q] = IF q = r THEN v ELSE db[q]
  BY RowWritten
<1>2. v # NULL
  BY ReferenceAssumption
<1>3. ASSUME NEW q \in Row, db[q] # NULL, q # r PROVE db'[q] = db[q] /\ (Live(q)' => Live(q))
  BY <1>1, <1>3 DEF Live
<1>4. TableOf[r] # "office" /\ TableOf[r] # "alias"
  OBVIOUS
<1>5. db'[r] = v /\ Live(r)
  BY <1>1
<1> QED BY <1>2, <1>3, <1>4, <1>5 DEF Steady

(* In either case a contact written names an office of its own, and every  *)
(* other one still does.                                                   *)
LEMMA WrittenOwn ==
  ASSUME DataInv, ContactsOwn, NEW r \in Row, NEW v \in Record(TableOf[r]),
         db' = [db EXCEPT ![r] = v], TableOf[r] = "office" => db[r] = NULL,
         TableOf[r] = "contact" => Own(v["office"], v["supplier"])
  PROVE  ContactsOwn'
<1>1. \A q \in Row : db'[q] = IF q = r THEN v ELSE db[q]
  BY RowWritten
<1>2. \A o \in Rows("office") : Live(o) => db'[o] = db[o]
  BY <1>1 DEF Rows, Live
<1>3. ASSUME NEW office, NEW supplier, Own(office, supplier) PROVE Own(office, supplier)'
  BY <1>2, <1>3 DEF Own, Live
<1>4. ASSUME NEW k \in Rows("contact"), Live(k)' PROVE Own(db[k]["office"], db[k]["supplier"])'
  <2>1. PICK office, supplier : office = db'[k]["office"] /\ supplier = db'[k]["supplier"]
    OBVIOUS
  <2>2. Own(office, supplier)
    BY <1>1, <1>4, <2>1 DEF ContactsOwn, Rows, Live
  <2>3. Own(office, supplier)'
    BY <1>3, <2>2
  <2> QED BY <2>1, <2>3 DEF Own
<1> QED BY <1>4 DEF ContactsOwn

LEMMA CheckedOwn ==
  ASSUME NEW office, NEW supplier, Checked(office, supplier), office # NULL => Live(office)
  PROVE  Own(office, supplier)
BY DEF Checked, Own

LEMMA CommitInsertHolds ==
  ASSUME DataInv, NEW w \in Worker, CommitInsert(w)
  PROVE  DataInv' /\ (ContactsOwn => ContactsOwn')
<1>1. PICK t : t = tx[w]
  OBVIOUS
<1>2. t # NULL /\ t.op = "insert" /\ tx' = [tx EXCEPT ![w] = NULL] /\ Inserting(tx[w])
  BY <1>1 DEF CommitInsert, Busy, Inserting
<1>3. CASE UNCHANGED db
  BY <1>2, <1>3, RowsStay, DataEnds DEF DataInv
<1>4. CASE Admitted(t.values) /\ db' = [db EXCEPT ![t.row] = t.values]
  <2>1. PICK r, v : r = t.row /\ v = t.values
    OBVIOUS
  <2>2. /\ r \in Row /\ v \in Record(TableOf[r]) /\ db[r] = NULL
        /\ TableOf[r] = "contact" => Checked(v["office"], v["supplier"])
    BY <1>1, <1>2, <2>1 DEF DataInv, RequestOk, InsertOk
  <2>3. Steady /\ Contents' /\ \A q \in Row : db'[q] = IF q = r THEN v ELSE db[q]
    BY <1>4, <2>1, <2>2, InsertSteady, RowWritten
  <2>4. ASSUME NEW x \in Worker \ {w}, Inserting(tx[x]) PROVE db'[tx[x].row] = NULL
    <3>1. tx[x].row # r /\ tx[x].row \in Row /\ db[tx[x].row] = NULL
      BY <1>1, <1>2, <2>1, <2>4 DEF DataInv, RequestOk, InsertOk, Inserting
    <3> QED BY <2>3, <3>1
  <2>5. DataInv'
    BY <1>2, <2>3, <2>4, DataEnds
  <2>6. ASSUME TableOf[r] = "contact" PROVE Own(v["office"], v["supplier"])
    <3>1. DOMAIN v = {"supplier", "office"}
      BY <2>2, <2>6, ColumnFacts DEF Record
    <3>2. v["office"] # NULL => Live(v["office"])
      BY <1>4, <2>1, <3>1 DEF Admitted
    <3> QED BY <2>2, <2>6, <3>2, CheckedOwn
  <2> QED BY <1>4, <2>1, <2>2, <2>5, <2>6, WrittenOwn
<1> QED BY <1>1, <1>3, <1>4 DEF CommitInsert, Refused

LEMMA CommitUpdateHolds ==
  ASSUME DataInv, NEW w \in Worker, CommitUpdate(w)
  PROVE  DataInv' /\ (ContactsOwn => ContactsOwn')
<1>1. PICK t : t = tx[w]
  OBVIOUS
<1>2. t # NULL /\ t.op = "update" /\ tx' = [tx EXCEPT ![w] = NULL] /\ w \in Busy("update")
  BY <1>1 DEF CommitUpdate, Busy
<1>3. CASE UNCHANGED db
  BY <1>2, <1>3, RowsStay, DataEnds DEF DataInv
<1>4. CASE ~UNCHANGED db
  <2>1. PICK r, v, cols : r = t.row /\ v = t.values /\ cols = t.columns
    OBVIOUS
  <2>2. /\ Live(r) /\ Admitted([c \in cols |-> v[c]])
        /\ db' = [db EXCEPT ![r] = [c \in DOMAIN @ |-> IF c \in cols THEN v[c] ELSE @[c]]]
    BY <1>1, <1>4, <2>1 DEF CommitUpdate
  <2>3. /\ r \in Row /\ v \in Record(TableOf[r])
        /\ TableOf[r] \in {"material", "contact", "purchase"}
        /\ TableOf[r] = "contact" =>
             /\ "supplier" \notin cols /\ v["supplier"] = db[r]["supplier"]
             /\ Checked(v["office"], v["supplier"])
    BY <1>1, <1>2, <2>1, <2>2 DEF DataInv, RequestOk, UpdateOk
  <2>4. PICK new : new = [c \in DOMAIN db[r] |-> IF c \in cols THEN v[c] ELSE db[r][c]]
    OBVIOUS
  <2>5. db' = [db EXCEPT ![r] = new]
    BY <2>2, <2>4
  <2>6. db[r] \in Record(TableOf[r])
    BY <2>2, <2>3 DEF DataInv, Contents
  <2>7. new \in Record(TableOf[r])
    BY <2>3, <2>4, <2>6 DEF Record
  <2>8. TableOf[r] = "contact" =>
          /\ new["supplier"] = db[r]["supplier"]
          /\ new["office"] = IF "office" \in cols THEN v["office"] ELSE db[r]["office"]
    BY <2>3, <2>4, <2>6, ColumnFacts DEF Record
  <2>9. Steady /\ Contents' /\ \A q \in Row : db'[q] = IF q = r THEN new ELSE db[q]
    BY <2>2, <2>3, <2>5, <2>7, <2>8, UpdateSteady, RowWritten
  <2>10. ASSUME NEW x \in Worker \ {w}, Inserting(tx[x]) PROVE db'[tx[x].row] = NULL
    <3>1. tx[x].row \in Row /\ db[tx[x].row] = NULL
      BY <2>10 DEF DataInv, RequestOk, InsertOk, Inserting
    <3> QED BY <2>2, <2>9, <3>1 DEF Live
  <2>11. DataInv'
    BY <1>2, <2>9, <2>10, DataEnds
  <2>12. ASSUME ContactsOwn, TableOf[r] = "contact" PROVE Own(new["office"], new["supplier"])
    <3>1. CASE "office" \in cols
      <4>1. v["office"] # NULL => Live(v["office"])
        BY <2>2, <3>1 DEF Admitted
      <4> QED BY <2>3, <2>8, <2>12, <3>1, <4>1, CheckedOwn
    <3>2. CASE "office" \notin cols
      BY <2>2, <2>3, <2>8, <2>12, <3>2 DEF ContactsOwn, Rows
    <3> QED BY <3>1, <3>2
  <2>13. ContactsOwn => ContactsOwn'
    BY <2>3, <2>5, <2>7, <2>12, WrittenOwn
  <2> QED BY <2>11, <2>13
<1> QED BY <1>3, <1>4

LEMMA ChildFacts ==
  ASSUME NEW r, NEW ck \in Children(r)
  PROVE  /\ ck[1] \in Row /\ ck[2] \in ForeignKeys /\ TableOf[ck[1]] = ck[2].from
         /\ ck[2].to = TableOf[r] /\ Live(ck[1]) /\ db[ck[1]][ck[2].column] = r
<1>1. PICK k \in {f \in ForeignKeys : f.to = TableOf[r]} :
        ck \in {<<c, k>> : c \in {x \in Rows(k.from) : Live(x) /\ db[x][k.column] = r}}
  BY DEF Children
<1>2. PICK c \in Rows(k.from) : ck = <<c, k>> /\ Live(c) /\ db[c][k.column] = r
  BY <1>1
<1> QED BY <1>1, <1>2 DEF Rows

(* What a deletion that is not refused does: the rows that go, and the     *)
(* columns it clears.                                                      *)
Goes(dropped) ==
  db' = [r \in Row |->
           IF r \in dropped THEN GONE ELSE IF ~Live(r) THEN db[r] ELSE db'[r]]
Cleared(freed, dropped) ==
  \A r \in Row \ dropped : Live(r) =>
    db'[r] = [c \in DOMAIN db[r] |->
                IF \E ck \in freed : ck[1] = r /\ ck[2].column = c THEN NULL ELSE db[r][c]]

LEMMA Deletion ==
  ASSUME DataInv, NEW w \in Worker, CommitDelete(w), ~UNCHANGED db
  PROVE  \E dropped, freed :
           /\ Goes(dropped) /\ Cleared(freed, dropped)
           /\ \A x \in dropped : /\ db[x] # NULL
                                 /\ \/ x = tx[w].row
                                    \/ TableOf[x] = "item"
                                    \/ (TableOf[x] = "alias" /\ x \notin tx[w].seen)
           /\ \A ck \in freed : /\ TableOf[ck[1]] \in {"entry", "contact"}
                                /\ TableOf[ck[1]] = "contact" => ck[2].column = "office"
           /\ \A k \in Rows("contact") : 
                Live(k) /\ TableOf[tx[w].row] = "office" /\ db[k]["office"] = tx[w].row =>
                  \E ck \in freed : ck[1] = k /\ ck[2].column = "office"
<1>1. PICK t : t = tx[w]
  OBVIOUS
<1>2. t # NULL /\ t.op = "delete" /\ RequestOk(t)
  BY <1>1 DEF CommitDelete, Busy, DataInv
<1>3. PICK nulled, left :
        /\ nulled = {ck \in t.loaded : ck[2].orm = "nulls"} /\ left = Children(t.row) \ t.loaded
  OBVIOUS
<1>4. PICK dropped, freed :
        /\ dropped = {t.row} \union {ck[1] : ck \in t.loaded \ nulled}
                       \union {ck[1] : ck \in {l \in left : l[2].onDelete = "cascade"}}
        /\ freed = nulled \union {l \in left : l[2].onDelete = "set_null"}
  OBVIOUS
<1>5. /\ t.row \notin Locked /\ \A l \in left : l[2].onDelete # "restrict"
      /\ db' = [r \in Row |->
                  IF r \in dropped THEN GONE
                  ELSE IF ~Live(r) THEN db[r]
                  ELSE [c \in DOMAIN db[r] |->
                          IF \E ck \in freed : ck[1] = r /\ ck[2].column = c
                          THEN NULL ELSE db[r][c]]]
  BY <1>1, <1>3, <1>4 DEF CommitDelete
<1>6. Goes(dropped) /\ Cleared(freed, dropped)
  BY <1>5 DEF Goes, Cleared
<1>7. ASSUME NEW ck \in t.loaded PROVE Loaded(ck) /\ db[ck[1]] # NULL
  BY <1>2 DEF RequestOk, DeleteOk
<1>8. ASSUME NEW ck \in left
      PROVE  /\ ck[1] \in Row /\ ck[2] \in ForeignKeys /\ TableOf[ck[1]] = ck[2].from
             /\ ck[2].to = TableOf[t.row] /\ Live(ck[1]) /\ db[ck[1]][ck[2].column] = t.row
  BY <1>3, ChildFacts
<1>9. ASSUME NEW x \in dropped
      PROVE  /\ db[x] # NULL
             /\ \/ x = t.row
                \/ TableOf[x] = "item"
                \/ (TableOf[x] = "alias" /\ x \notin t.seen)
  <2>1. CASE x = t.row
    BY <1>2, <2>1 DEF RequestOk, DeleteOk
  <2>2. ASSUME NEW ck \in t.loaded \ nulled, x = ck[1] PROVE db[x] # NULL /\ TableOf[x] = "item"
    BY <1>3, <1>7, <2>2, KeyFacts DEF Loaded
  <2>3. ASSUME NEW ck \in left, ck[2].onDelete = "cascade", x = ck[1]
        PROVE  db[x] # NULL /\ (TableOf[x] = "item" \/ (TableOf[x] = "alias" /\ x \notin t.seen))
    <3>1. TableOf[x] \in {"alias", "item"} /\ db[x] # NULL
      BY <1>8, <2>3, KeyFacts DEF Live
    <3>2. TableOf[x] = "alias" => x \notin t.seen
      BY <1>2, <1>8, <2>3 DEF RequestOk, DeleteOk
    <3> QED BY <3>1, <3>2
  <2> QED BY <1>4, <2>1, <2>2, <2>3
<1>10. ASSUME NEW ck \in freed
       PROVE  /\ TableOf[ck[1]] \in {"entry", "contact"}
              /\ TableOf[ck[1]] = "contact" => ck[2].column = "office"
  <2>1. CASE ck \in nulled
    BY <1>3, <1>7, <2>1, KeyFacts DEF Loaded
  <2>2. CASE ck \in left /\ ck[2].onDelete = "set_null"
    BY <1>8, <2>2, KeyFacts
  <2> QED BY <1>4, <2>1, <2>2
<1>11. ASSUME NEW k \in Rows("contact"), Live(k), TableOf[t.row] = "office", db[k]["office"] = t.row
       PROVE  \E ck \in freed : ck[1] = k /\ ck[2].column = "office"
  <2>1. PICK f \in ForeignKeys : /\ f.from = "contact" /\ f.column = "office" /\ f.to = "office"
                                /\ f.orm = "nulls" /\ f.onDelete = "set_null"
    BY OfficeKey
  <2>2. <<k, f>> \in Children(t.row)
    BY <1>11, <2>1 DEF Children
  <2>3. <<k, f>> \in nulled \/ <<k, f>> \in {l \in left : l[2].onDelete = "set_null"}
    BY <1>3, <2>1, <2>2
  <2> QED BY <1>4, <2>1, <2>3
<1> QED BY <1>1, <1>6, <1>9, <1>10, <1>11

LEMMA CommitDeleteHolds ==
  ASSUME DataInv, NEW w \in Worker, CommitDelete(w)
  PROVE  DataInv' /\ (ContactsOwn => ContactsOwn')
<1>1. tx' = [tx EXCEPT ![w] = NULL]
  BY DEF CommitDelete
<1>2. CASE UNCHANGED db
  BY <1>1, <1>2, RowsStay, DataEnds DEF DataInv
<1>3. CASE ~UNCHANGED db
  <2>1. PICK dropped, freed :
          /\ Goes(dropped) /\ Cleared(freed, dropped)
          /\ \A x \in dropped : /\ db[x] # NULL
                                /\ \/ x = tx[w].row
                                   \/ TableOf[x] = "item"
                                   \/ (TableOf[x] = "alias" /\ x \notin tx[w].seen)
          /\ \A ck \in freed : /\ TableOf[ck[1]] \in {"entry", "contact"}
                               /\ TableOf[ck[1]] = "contact" => ck[2].column = "office"
          /\ \A k \in Rows("contact") :
               Live(k) /\ TableOf[tx[w].row] = "office" /\ db[k]["office"] = tx[w].row =>
                 \E ck \in freed : ck[1] = k /\ ck[2].column = "office"
    BY <1>3, Deletion
  <2>2. /\ db' = [r \in Row |-> db'[r]]
        /\ \A r \in Row : r \in dropped => db'[r] = GONE
        /\ \A r \in Row : r \notin dropped /\ ~Live(r) => db'[r] = db[r]
    BY <2>1 DEF Goes
  <2>3. ASSUME NEW r \in Row, r \notin dropped, Live(r)
        PROVE  /\ db'[r] \in Record(TableOf[r])
               /\ \A c \in Columns(TableOf[r]) :
                    db'[r][c] = IF \E ck \in freed : ck[1] = r /\ ck[2].column = c
                                THEN NULL ELSE db[r][c]
    <3>1. db[r] \in Record(TableOf[r])
      BY <2>3 DEF DataInv, Contents
    <3>2. DOMAIN db[r] = Columns(TableOf[r]) /\ \A c \in Columns(TableOf[r]) : db[r][c] \in Row \union {NULL}
      BY <3>1 DEF Record
    <3>3. db'[r] = [c \in Columns(TableOf[r]) |->
                     IF \E ck \in freed : ck[1] = r /\ ck[2].column = c THEN NULL ELSE db[r][c]]
      BY <2>1, <2>3, <3>2 DEF Cleared
    <3> QED BY <3>2, <3>3 DEF Record
  <2>4. \A r \in Row : r \in dropped => db'[r] # NULL /\ ~(Live(r)')
    BY <2>2, ReferenceAssumption DEF Live
  <2>5. Contents'
    BY <2>2, <2>3, <2>4 DEF Contents, Live
  <2>6. ASSUME NEW r \in Row, r \notin dropped, Live(r), TableOf[r] \in {"office", "contact", "alias"}
        PROVE  db'[r]["supplier"] = db[r]["supplier"]
    BY <2>1, <2>3, <2>6, ColumnFacts
  <2>7. ASSUME NEW r \in Row, r \notin dropped, Live(r), TableOf[r] = "alias"
        PROVE  db'[r]["material"] = db[r]["material"]
    BY <2>1, <2>3, <2>7, ColumnFacts
  <2>8. ASSUME NEW r \in Row, db[r] # NULL
        PROVE  /\ db'[r] # NULL
               /\ Live(r)' =>
                    /\ Live(r)
                    /\ TableOf[r] \in {"office", "contact", "alias"} => db'[r]["supplier"] = db[r]["supplier"]
                    /\ TableOf[r] = "alias" => db'[r]["material"] = db[r]["material"]
    <3>1. CASE r \in dropped
      BY <2>4, <3>1
    <3>2. CASE r \notin dropped /\ ~Live(r)
      BY <2>2, <2>8, <3>2 DEF Live
    <3>3. CASE r \notin dropped /\ Live(r)
      BY <2>3, <2>6, <2>7, <3>3, ReferenceAssumption
    <3> QED BY <3>1, <3>2, <3>3
  <2>9. Steady
    BY <2>8 DEF Steady
  <2>10. ASSUME NEW v \in Worker \ {w}, Inserting(tx[v]) PROVE db'[tx[v].row] = NULL
    <3>1. tx[v].row \in Row /\ db[tx[v].row] = NULL
      BY <2>10 DEF DataInv, RequestOk, InsertOk, Inserting
    <3> QED BY <2>1, <2>2, <3>1 DEF Live
  <2>11. DataInv'
    BY <1>1, <2>5, <2>9, <2>10, DataEnds
  <2>12. ASSUME ContactsOwn, NEW k \in Rows("contact"), Live(k)'
         PROVE  Own(db[k]["office"], db[k]["supplier"])'
    <3>1. k \in Row /\ TableOf[k] = "contact"
      BY DEF Rows
    <3>2. k \notin dropped /\ Live(k)
      BY <2>2, <2>4, <2>12, <3>1 DEF Live
    <3>3. PICK o, s : o = db[k]["office"] /\ s = db[k]["supplier"]
      OBVIOUS
    <3>4. /\ db'[k]["supplier"] = s
          /\ db'[k]["office"] = IF \E ck \in freed : ck[1] = k /\ ck[2].column = "office"
                                 THEN NULL ELSE o
      BY <2>3, <2>6, <3>1, <3>2, <3>3, ColumnFacts
    <3>5. CASE db'[k]["office"] = NULL
      BY <3>5 DEF Own
    <3>6. CASE db'[k]["office"] # NULL
      <4>1. db'[k]["office"] = o /\ ~\E ck \in freed : ck[1] = k /\ ck[2].column = "office"
        BY <3>4, <3>6
      <4>2. o \in Rows("office") /\ Live(o) /\ db[o]["supplier"] = s
        BY <2>12, <3>2, <3>3, <3>6, <4>1 DEF ContactsOwn, Own
      <4>3. o \in Row /\ TableOf[o] = "office"
        BY <4>2 DEF Rows
      <4>4. o \notin dropped
        BY <2>1, <3>2, <3>3, <4>1, <4>3
      <4>5. Live(o)' /\ db'[o]["supplier"] = s
        BY <2>3, <2>6, <4>2, <4>3, <4>4, ReferenceAssumption DEF Live
      <4> QED BY <3>4, <4>1, <4>2, <4>5 DEF Own
    <3> QED BY <3>5, <3>6
  <2>13. ContactsOwn => ContactsOwn'
    BY <2>12 DEF ContactsOwn
  <2> QED BY <2>11, <2>13
<1> QED BY <1>2, <1>3

LEMMA DataInit == Init => DataInv /\ ContactsOwn
<1> SUFFICES ASSUME Init PROVE DataInv /\ ContactsOwn
  OBVIOUS
<1>1. \A w \in Worker : tx[w] = NULL
  BY DEF Init
<1>2. Requests
  BY DEF Init, Requests
<1>3. /\ db = [r \in Row |-> db[r]]
      /\ \A r \in Row : Live(r) => db[r] \in Record(TableOf[r]) /\ TableOf[r] # "contact"
  BY ReferenceAssumption DEF Init, Live
<1>4. ContactsOwn
  BY <1>3 DEF ContactsOwn, Rows
<1> QED BY <1>1, <1>2, <1>3, <1>4 DEF DataInv, Contents, Inserting

LEMMA DataStep == DataInv /\ [Next]_vars => DataInv' /\ (ContactsOwn => ContactsOwn')
<1> SUFFICES ASSUME DataInv, [Next]_vars PROVE DataInv' /\ (ContactsOwn => ContactsOwn')
  OBVIOUS
<1>1. ASSUME UNCHANGED vars PROVE DataInv' /\ (ContactsOwn => ContactsOwn')
  <2>1. UNCHANGED db /\ UNCHANGED tx
    BY <1>1 DEF vars
  <2>2. Contents' /\ (ContactsOwn => ContactsOwn')
    BY <2>1, RowsStay
  <2>3. Requests'
    BY <2>1 DEF DataInv, Requests
  <2>4. \A w \in Worker : tx'[w] # NULL => RequestOk(tx[w])'
    <3>1. \A r : Live(r)' = Live(r)
      BY <2>1 DEF Live
    <3>2. ASSUME NEW t PROVE RequestOk(t)' = RequestOk(t)
      BY <2>1, <3>1 DEF RequestOk, InsertOk, UpdateOk, DeleteOk, Checked
    <3> QED BY <2>1, <3>2 DEF DataInv
  <2> QED BY <2>1, <2>2, <2>3, <2>4 DEF DataInv, Inserting
<1>2. ASSUME NEW w \in Worker, MayBegin(w), NEW r \in Row, Inserts(w, r) \/ CreateMaterial(w, r)
      PROVE  DataInv' /\ UNCHANGED db
  BY <1>2, InsertData, InsertOpens DEF MayBegin, OpenInsert, CreateMaterial
<1>3. ASSUME NEW w \in Worker, MayBegin(w), NEW r \in Row, Updates(w, r)
      PROVE  DataInv' /\ UNCHANGED db
  BY <1>3, UpdateData, UpdateOpens DEF MayBegin, OpenUpdate
<1>4. ASSUME NEW w \in Worker, MayBegin(w), NEW r \in Row, Deletes(w, r)
      PROVE  DataInv' /\ UNCHANGED db
  BY <1>4, DeleteData, DeleteOpens DEF MayBegin, OpenDelete
<1>5. ASSUME NEW w \in Worker, MayBegin(w), NEW r \in Row, OpenPolicy(w, r)
      PROVE  DataInv' /\ UNCHANGED db
  <2>1. PICK k, read, write :
          tx' = [tx EXCEPT ![w] = [op |-> "policy", row |-> r, key |-> k, read |-> read, write |-> write]]
    BY <1>5 DEF OpenPolicy, Begin
  <2>2. PICK u : u = [op |-> "policy", row |-> r, key |-> k, read |-> read, write |-> write]
    OBVIOUS
  <2>3. u.op = "policy"
    BY <2>2
  <2>4. RequestOk(u) /\ ~Inserting(u)
    BY <2>3 DEF RequestOk, InsertOk, UpdateOk, DeleteOk, Inserting
  <2> QED BY <1>5, <2>1, <2>2, <2>4, DataOpens DEF OpenPolicy, MayBegin
<1>6. ASSUME NEW w \in Worker, CommitPolicy(w) \/ Abort(w)
      PROVE  DataInv' /\ (ContactsOwn => ContactsOwn')
  <2>1. tx' = [tx EXCEPT ![w] = NULL] /\ UNCHANGED db
    BY <1>6 DEF CommitPolicy, Abort
  <2> QED BY <2>1, RowsStay, DataEnds DEF DataInv
<1>7. UNCHANGED db => (ContactsOwn => ContactsOwn')
  BY RowsStay
<1> QED
  BY <1>1, <1>2, <1>3, <1>4, <1>5, <1>6, <1>7, CommitInsertHolds, CommitUpdateHolds,
     CommitDeleteHolds, Steps

(* A contact's office is always one of the contact's own supplier, however *)
(* creations, moves and deletions of the two overlap.                      *)
THEOREM ContactsCorrect == Spec => []ContactOfficeIsOwn
<1>1. ContactsOwn => ContactOfficeIsOwn
  BY DEF ContactsOwn, ContactOfficeIsOwn, Own
<1> QED BY DataInit, DataStep, <1>1, PTL DEF Spec

(* A deletion takes with it rows of templates and aliases that were created*)
(* after it had looked, and never a price, an entry, an office or a        *)
(* purchase record, for any tables' contents and any overlap.              *)
THEOREM DeletionCorrect == Spec => DeletionSparesHistory
<1>1. ASSUME DataInv, [Next]_vars, NEW w \in Busy("delete"), NEW r \in Row,
             tx'[w] = NULL, Live(r), db'[r] = GONE
      PROVE  \/ r = tx[w].row
             \/ TableOf[r] = "item"
             \/ (TableOf[r] = "alias" /\ r \notin tx[w].seen)
  <2>1. ~UNCHANGED db /\ w \in Worker /\ tx[w] # NULL /\ tx[w].op = "delete"
    BY <1>1 DEF Busy, Live
  <2>2. PICK v \in Worker : CommitInsert(v) \/ CommitUpdate(v) \/ CommitDelete(v)
    <3>1. /\ \A v \in Worker, q \in Row : Inserts(v, q) => UNCHANGED db
          /\ \A v \in Worker, q \in Row : Updates(v, q) => UNCHANGED db
          /\ \A v \in Worker, q \in Row : Deletes(v, q) => UNCHANGED db
      BY InsertOpens, UpdateOpens, DeleteOpens DEF OpenInsert, OpenUpdate, OpenDelete
    <3> QED BY <1>1, <2>1, <3>1, Steps DEF vars, CreateMaterial, OpenPolicy, CommitPolicy, Abort
  <2>3. Requests /\ tx' = [tx EXCEPT ![v] = NULL]
    BY <1>1, <2>2 DEF CommitInsert, CommitUpdate, CommitDelete, DataInv
  <2>4. v = w
    BY <1>1, <2>1, <2>3, EntryEnds
  <2>5. CommitDelete(w)
    BY <2>1, <2>2, <2>4 DEF CommitInsert, CommitUpdate, Busy
  <2>6. PICK dropped, freed :
          /\ Goes(dropped) /\ Cleared(freed, dropped)
          /\ \A x \in dropped : \/ x = tx[w].row
                                \/ TableOf[x] = "item"
                                \/ (TableOf[x] = "alias" /\ x \notin tx[w].seen)
    BY <1>1, <2>1, <2>5, Deletion
  <2>7. CASE r \in dropped
    BY <2>6, <2>7
  <2>8. CASE r \notin dropped
    <3>1. db[r] \in Record(TableOf[r])
      BY <1>1 DEF DataInv, Contents
    <3>2. db'[r] = [c \in Columns(TableOf[r]) |->
                     IF \E ck \in freed : ck[1] = r /\ ck[2].column = c THEN NULL ELSE db[r][c]]
      BY <1>1, <2>6, <2>8, <3>1 DEF Cleared, Record
    <3>3. db'[r] \in Record(TableOf[r])
      BY <3>1, <3>2 DEF Record
    <3> QED BY <1>1, <3>3, ReferenceAssumption
  <2> QED BY <2>7, <2>8
<1>2. DataInv /\ [Next]_vars =>
        \A w \in Busy("delete"), r \in Row :
          (tx'[w] = NULL /\ Live(r) /\ db'[r] = GONE) =>
            \/ r = tx[w].row
            \/ TableOf[r] = "item"
            \/ TableOf[r] = "alias" /\ r \notin tx[w].seen
  BY <1>1
<1> QED BY DataInit, DataStep, <1>2, PTL DEF Spec, DeletionSparesHistory

-----------------------------------------------------------------------------
(* The SKUs: a prefix with a number.                                         *)

(* No two categories that are there have one prefix, no two materials that *)
(* are there have one SKU, and a category is there as long as an open      *)
(* creation counts in it.                                                  *)
Prefixed ==
  \A c, d \in Rows("category") : Live(c) /\ Live(d) /\ PrefixOf[c] = PrefixOf[d] => c = d
Labelled ==
  \A r, q \in Rows("material") :
    Live(r) /\ number[r] # NULL /\ Live(q) /\ number[q] # NULL /\ Sku(number[r]) = Sku(number[q])
    => r = q
Held == \A v \in Worker : Numbered(tx[v]) => Live(tx[v].number[1])

SkuInv == Prefixed /\ Labelled /\ Held

(* Rows only go.                                                           *)
LEMMA SkusLeft ==
  ASSUME SkuInv, UNCHANGED number, \A r \in Row : Live(r)' => Live(r)
  PROVE  Prefixed' /\ Labelled'
<1>1. /\ \A r \in Rows("material") : Live(r)' => Live(r)
      /\ \A c \in Rows("category") : Live(c)' => Live(c)
  BY DEF Rows
<1>2. Prefixed'
  BY <1>1 DEF SkuInv, Prefixed
<1>3. Labelled'
  BY <1>1 DEF SkuInv, Labelled, Sku
<1> QED BY <1>2, <1>3

LEMMA SkusStay ==
  ASSUME SkuInv, Requests, NEW w \in Worker, NEW u, tx' = [tx EXCEPT ![w] = u],
         UNCHANGED <<db, number>>, Numbered(u) => Live(u.number[1])
  PROVE  SkuInv'
<1>1. \A v \in Worker : tx'[v] = IF v = w THEN u ELSE tx[v]
  BY Entry
<1>2. \A r : Live(r)' <=> Live(r)
  BY DEF Live
<1>3. Prefixed' /\ Labelled'
  BY <1>2, SkusLeft
<1>4. Held'
  BY <1>1, <1>2 DEF SkuInv, Held, Numbered
<1> QED BY <1>3, <1>4 DEF SkuInv

(* The category an open creation counts in.                                *)
LEMMA CountsIn ==
  ASSUME NumbersInv, SkuInv, NEW v \in Worker, Numbered(tx[v])
  PROVE  /\ tx[v].number[1] \in Rows("category") /\ Live(tx[v].number[1])
         /\ tx[v].number[1] \in Locked
<1>1. PICK c \in Rows("category") : tx[v].number = <<c, counter[c]>>
  BY DEF NumbersInv, AtCounter
<1>2. tx[v].number[1] = c
  BY <1>1
<1>3. tx[v].number[1] \in Locked
  BY DEF Numbered, Busy, Locked
<1> QED BY <1>2, <1>3 DEF SkuInv, Held

(* A row is inserted only under a prefix not in use and a SKU not taken.   *)
LEMMA SkuInserted ==
  ASSUME NumbersInv, DataInv, SkuInv, NEW w \in Worker, CommitInsert(w)
  PROVE  SkuInv'
<1>1. PICK t : t = tx[w]
  OBVIOUS
<1>2. /\ t # NULL /\ t.op = "insert" /\ tx' = [tx EXCEPT ![w] = NULL] /\ Requests
      /\ t.row \in Row /\ t.values \in Record(TableOf[t.row])
  BY <1>1 DEF CommitInsert, Busy, DataInv, RequestOk, InsertOk
<1>3. CASE UNCHANGED <<db, number>>
  BY <1>2, <1>3, SkusStay DEF Numbered
<1>4. CASE /\ ~Refused(t) /\ db' = [db EXCEPT ![t.row] = t.values]
           /\ number' = [number EXCEPT ![t.row] = t.number]
  <2>1. PICK r, n : r = t.row /\ n = t.number
    OBVIOUS
  <2>2. /\ r \in Row /\ Live(r)'
        /\ \A q \in Row : q # r => (Live(q)' <=> Live(q))
    <3>1. PICK v : v = t.values
      OBVIOUS
    <3>2. r \in Row /\ v \in Record(TableOf[r]) /\ db' = [db EXCEPT ![r] = v]
      BY <1>2, <1>4, <2>1, <3>1
    <3>3. Live(r)' /\ \A q \in Row : db'[q] = IF q = r THEN v ELSE db[q]
      BY <3>2, RowWritten
    <3> QED BY <3>2, <3>3 DEF Live
  <2>3. \A q \in Row : number'[q] = IF q = r THEN n ELSE number[q]
    BY <1>4, <2>1 DEF NumbersInv, NumberTypes
  <2>4. /\ TableOf[r] = "category" => ~PrefixInUse(r)
        /\ n # NULL => ~Taken(n)
    BY <1>4, <2>1 DEF Refused
  <2>5. ASSUME NEW c \in Rows("category"), NEW d \in Rows("category"),
               Live(c)', Live(d)', PrefixOf[c] = PrefixOf[d]
        PROVE  c = d
    <3>1. c \in Row /\ d \in Row /\ TableOf[c] = "category" /\ TableOf[d] = "category"
      BY DEF Rows
    <3>2. CASE c # r /\ d # r
      BY <2>2, <2>5, <3>1, <3>2 DEF SkuInv, Prefixed
    <3>3. CASE c = r /\ d # r
      BY <2>2, <2>4, <2>5, <3>1, <3>3 DEF PrefixInUse
    <3>4. CASE c # r /\ d = r
      BY <2>2, <2>4, <2>5, <3>1, <3>4 DEF PrefixInUse
    <3> QED BY <3>2, <3>3, <3>4
  <2>6. ASSUME NEW p \in Rows("material"), NEW q \in Rows("material"),
               Live(p)', number'[p] # NULL, Live(q)', number'[q] # NULL,
               Sku(number'[p]) = Sku(number'[q])
        PROVE  p = q
    <3>1. p \in Row /\ q \in Row
      BY DEF Rows
    <3>2. CASE p # r /\ q # r
      BY <2>2, <2>3, <2>6, <3>1, <3>2 DEF SkuInv, Labelled
    <3>3. CASE p = r /\ q # r
      BY <2>2, <2>3, <2>4, <2>6, <3>1, <3>3 DEF Taken
    <3>4. CASE p # r /\ q = r
      BY <2>2, <2>3, <2>4, <2>6, <3>1, <3>4 DEF Taken
    <3> QED BY <3>2, <3>3, <3>4
  <2>7. \A v \in Worker : tx'[v] = IF v = w THEN NULL ELSE tx[v]
    BY <1>2, EntryEnds
  <2>8. ASSUME NEW v \in Worker, Numbered(tx[v])' PROVE Live(tx[v].number[1])'
    <3>1. tx'[v] = tx[v] /\ Numbered(tx[v])
      BY <2>7, <2>8 DEF Numbered
    <3>2. PICK c : c = tx[v].number[1]
      OBVIOUS
    <3>3. c \in Row /\ Live(c)
      BY <3>1, <3>2, CountsIn DEF Rows
    <3>4. Live(c)' /\ tx'[v].number[1] = c
      BY <2>2, <3>1, <3>2, <3>3
    <3> QED BY <3>4 DEF Live
  <2>9. Prefixed' /\ Labelled'
    BY <2>5, <2>6 DEF Prefixed, Labelled, Sku
  <2>10. Held'
    BY <2>8 DEF Held
  <2> QED BY <2>9, <2>10 DEF SkuInv
<1> QED BY <1>1, <1>3, <1>4 DEF CommitInsert

(* An update leaves the rows that are there; a deletion leaves a category  *)
(* that is counted in.                                                     *)
LEMMA SkusThin ==
  ASSUME NumbersInv, SkuInv, NEW w \in Worker, tx' = [tx EXCEPT ![w] = NULL], UNCHANGED number,
         \A r \in Row : Live(r)' => Live(r),
         \A c \in Rows("category") : Live(c) /\ c \in Locked => Live(c)'
  PROVE  SkuInv'
<1>1. \A v \in Worker : tx'[v] = IF v = w THEN NULL ELSE tx[v]
  BY EntryEnds DEF NumbersInv, NumberTypes
<1>2. ASSUME NEW v \in Worker, Numbered(tx[v])' PROVE Live(tx[v].number[1])'
  <2>1. tx'[v] = tx[v] /\ Numbered(tx[v])
    BY <1>1, <1>2 DEF Numbered
  <2>2. PICK c : c = tx[v].number[1]
    OBVIOUS
  <2>3. Live(c)' /\ tx'[v].number[1] = c
    BY <2>1, <2>2, CountsIn
  <2> QED BY <2>3 DEF Live
<1>3. Held'
  BY <1>2 DEF Held
<1> QED BY <1>3, SkusLeft DEF SkuInv

LEMMA SkuUpdated ==
  ASSUME NumbersInv, DataInv, SkuInv, NEW w \in Worker, CommitUpdate(w)
  PROVE  SkuInv'
<1>1. PICK t : t = tx[w]
  OBVIOUS
<1>2. /\ t # NULL /\ t.op = "update" /\ tx' = [tx EXCEPT ![w] = NULL] /\ UNCHANGED number
      /\ t.row \in Row /\ Requests
  BY <1>1 DEF CommitUpdate, Busy, DataInv, RequestOk, UpdateOk
<1>3. CASE UNCHANGED db
  BY <1>2, <1>3, SkusStay DEF Numbered
<1>4. CASE ~UNCHANGED db
  <2>1. PICK r, new : r = t.row /\ Live(r) /\ db' = [db EXCEPT ![r] = new]
    BY <1>1, <1>4 DEF CommitUpdate
  <2>2. \A q \in Row : q # r => db'[q] = db[q]
    BY <2>1 DEF DataInv, Contents
  <2>3. TableOf[r] # "category"
    BY <1>1, <1>2, <2>1 DEF DataInv, RequestOk, UpdateOk
  <2>4. \A q \in Row : Live(q)' => Live(q)
    BY <2>1, <2>2 DEF Live
  <2>5. \A c \in Rows("category") : Live(c) => Live(c)'
    BY <2>2, <2>3 DEF Live, Rows
  <2> QED BY <1>2, <2>4, <2>5, SkusThin
<1> QED BY <1>3, <1>4

LEMMA SkuDeleted ==
  ASSUME NumbersInv, DataInv, SkuInv, NEW w \in Worker, CommitDelete(w)
  PROVE  SkuInv'
<1>1. tx' = [tx EXCEPT ![w] = NULL] /\ UNCHANGED number /\ tx[w].row \notin Locked /\ Requests
  BY DEF CommitDelete, DataInv
<1>2. CASE UNCHANGED db
  BY <1>1, <1>2, SkusStay DEF Numbered
<1>3. CASE ~UNCHANGED db
  <2>1. PICK dropped, freed :
          /\ Goes(dropped) /\ Cleared(freed, dropped)
          /\ \A x \in dropped : /\ db[x] # NULL
                                /\ \/ x = tx[w].row
                                   \/ TableOf[x] = "item"
                                   \/ (TableOf[x] = "alias" /\ x \notin tx[w].seen)
    BY <1>3, Deletion
  <2>2. /\ \A r \in Row : r \in dropped => db'[r] = GONE
        /\ \A r \in Row : r \notin dropped /\ ~Live(r) => db'[r] = db[r]
    BY <2>1 DEF Goes
  <2>3. \A r \in Row : Live(r)' => Live(r)
    BY <2>2 DEF Live
  <2>4. ASSUME NEW c \in Rows("category"), Live(c), c \in Locked PROVE Live(c)'
    <3>1. c \in Row /\ TableOf[c] = "category" /\ c \notin dropped
      BY <1>1, <2>1, <2>4 DEF Rows
    <3>2. db[c] \in Record("category")
      BY <2>4, <3>1 DEF DataInv, Contents
    <3>3. db'[c] = [k \in Columns("category") |->
                     IF \E ck \in freed : ck[1] = c /\ ck[2].column = k THEN NULL ELSE db[c][k]]
      BY <2>1, <2>4, <3>1, <3>2 DEF Cleared, Record
    <3>4. db'[c] \in Record(TableOf[c])
      BY <3>1, <3>2, <3>3 DEF Record
    <3> QED BY <3>1, <3>4, ReferenceAssumption DEF Live
  <2> QED BY <1>1, <2>3, <2>4, SkusThin
<1> QED BY <1>2, <1>3

LEMMA SkuStep == NumbersInv /\ DataInv /\ SkuInv /\ [Next]_vars => SkuInv'
<1> SUFFICES ASSUME NumbersInv, DataInv, SkuInv, [Next]_vars PROVE SkuInv'
  OBVIOUS
<1>0. Requests
  BY DEF DataInv
<1>1. ASSUME UNCHANGED vars PROVE SkuInv'
  BY <1>1 DEF vars, SkuInv, Prefixed, Labelled, Held, Live, Sku, Numbered
<1>2. ASSUME NEW w \in Worker, NEW r \in Row, Inserts(w, r) PROVE SkuInv'
  <2>1. PICK v : OpenInsert(w, r, v)
    BY <1>2, InsertOpens
  <2>2. PICK u : u = [op |-> "insert", row |-> r, values |-> v, number |-> NULL]
    OBVIOUS
  <2> QED BY <1>0, <2>1, <2>2, SkusStay DEF OpenInsert, Begin, Numbered
<1>3. ASSUME NEW w \in Worker, NEW r \in Row, CreateMaterial(w, r) PROVE SkuInv'
  <2>1. PICK c \in Rows("category") :
          /\ Live(c)
          /\ Begin(w, [op |-> "insert", row |-> r, values |-> [column \in {"category"} |-> c],
                       number |-> <<c, counter[c]>>])
    BY <1>3 DEF CreateMaterial
  <2>2. PICK u : u = [op |-> "insert", row |-> r, values |-> [column \in {"category"} |-> c],
                      number |-> <<c, counter[c]>>]
    OBVIOUS
  <2>3. u.number[1] = c
    BY <2>2
  <2> QED BY <1>0, <1>3, <2>1, <2>2, <2>3, SkusStay DEF CreateMaterial, Begin
<1>4. ASSUME NEW w \in Worker, NEW r \in Row, Updates(w, r) PROVE SkuInv'
  <2>1. PICK v : OpenUpdate(w, r, v)
    BY <1>4, UpdateOpens
  <2>2. PICK u : u = [op |-> "update", row |-> r, values |-> v,
                      columns |-> {c \in DOMAIN v : v[c] # db[r][c]}]
    OBVIOUS
  <2>3. u.op # "insert"
    BY <2>2
  <2> QED BY <1>0, <2>1, <2>2, <2>3, SkusStay DEF OpenUpdate, Begin, Numbered
<1>5. ASSUME NEW w \in Worker, NEW r \in Row, OpenPolicy(w, r) PROVE SkuInv'
  <2>1. PICK k, read, write :
          tx' = [tx EXCEPT ![w] = [op |-> "policy", row |-> r, key |-> k, read |-> read, write |-> write]]
    BY <1>5 DEF OpenPolicy, Begin
  <2>2. PICK u : u = [op |-> "policy", row |-> r, key |-> k, read |-> read, write |-> write]
    OBVIOUS
  <2>3. u.op # "insert"
    BY <2>2
  <2> QED BY <1>0, <1>5, <2>1, <2>2, <2>3, SkusStay DEF OpenPolicy, Numbered
<1>6. ASSUME NEW w \in Worker, NEW r \in Row, Deletes(w, r) PROVE SkuInv'
  <2>1. OpenDelete(w, r)
    BY <1>6, DeleteOpens
  <2>2. PICK u : u = [op |-> "delete", row |-> r,
                      loaded |-> {ck \in Children(r) : ck[2].orm # "none"},
                      seen |-> {c \in Row : Live(c)}]
    OBVIOUS
  <2>3. u.op # "insert"
    BY <2>2
  <2> QED BY <1>0, <2>1, <2>2, <2>3, SkusStay DEF OpenDelete, Begin, Numbered
<1>7. ASSUME NEW w \in Worker, CommitPolicy(w) \/ Abort(w) PROVE SkuInv'
  BY <1>0, <1>7, SkusStay DEF CommitPolicy, Abort, Numbered
<1> QED
  BY <1>1, <1>2, <1>3, <1>4, <1>5, <1>6, <1>7, SkuInserted, SkuUpdated, SkuDeleted, Steps

(* Two materials are given one SKU only across a category that is gone and *)
(* another that took its prefix, and no two that are there share one, for  *)
(* any categories, prefixes and number of requests.                        *)
THEOREM NumbersCorrect == Spec => []ClashOnlyOnReusedPrefix
<1>1. Init => SkuInv
  <2> SUFFICES ASSUME Init PROVE SkuInv
    OBVIOUS
  <2>1. \A w \in Worker : tx[w] = NULL
    BY DEF Init
  <2>2. \A r \in Row : number[r] = NULL /\ (Live(r) => r \in DOMAIN Seed)
    BY DEF Init, Live
  <2>3. Prefixed
    BY <2>2, ReferenceAssumption DEF Prefixed, Rows
  <2>4. Labelled
    BY <2>2 DEF Labelled, Rows
  <2> QED BY <2>1, <2>3, <2>4 DEF SkuInv, Held, Numbered
<1>2. ASSUME NumbersInv, SkuInv PROVE ClashOnlyOnReusedPrefix
  <2> DEFINE
      held == {<<r, number[r]>> : r \in {x \in Rows("material") : number[x] # NULL}}
      coming == {<<tx[w].row, tx[w].number>> : w \in {v \in Busy("insert") : tx[v].number # NULL}}
  <2>1. Rows("material") \subseteq Row
    BY DEF Rows
  <2>2. ASSUME NEW a \in held
        PROVE  /\ a = <<a[1], a[2]>> /\ a[1] \in Rows("material")
               /\ a[2] # NULL /\ a[2] = number[a[1]]
               /\ \E c \in Rows("category"), i \in Nat : a[2] = <<c, i>> /\ i < counter[c]
    <3>1. PICK r \in Rows("material") : number[r] # NULL /\ a = <<r, number[r]>>
      BY <2>2
    <3>2. Behind(number[r])
      BY <1>2, <2>1, <3>1 DEF NumbersInv
    <3> QED BY <3>1, <3>2 DEF Behind
  <2>3. ASSUME NEW a \in coming
        PROVE  /\ \E w \in Worker : Numbered(tx[w]) /\ a = <<tx[w].row, tx[w].number>>
               /\ \E c \in Rows("category") : a[2] = <<c, counter[c]>>
    <3>1. PICK w \in Worker : Numbered(tx[w]) /\ a = <<tx[w].row, tx[w].number>>
      BY <2>3 DEF Busy, Numbered
    <3>2. AtCounter(tx[w].number)
      BY <1>2, <3>1 DEF NumbersInv
    <3> QED BY <3>1, <3>2 DEF AtCounter
  <2>4. \A c \in Rows("category") : counter[c] \in Nat
    BY <1>2 DEF NumbersInv, NumberTypes
  <2>5. ASSUME NEW a \in held \union coming, NEW b \in held \union coming,
               Sku(a[2]) = Sku(b[2]), Live(a[2][1]), Live(b[2][1])
        PROVE  a[2] = b[2]
    <3>1. PICK c \in Rows("category") : a[2] = <<c, a[2][2]>>
      BY <2>2, <2>3
    <3>2. PICK d \in Rows("category") : b[2] = <<d, b[2][2]>>
      BY <2>2, <2>3
    <3>3. PrefixOf[c] = PrefixOf[d] /\ a[2][2] = b[2][2] /\ Live(c) /\ Live(d)
      BY <2>5, <3>1, <3>2 DEF Sku
    <3>4. c = d
      BY <1>2, <3>3 DEF SkuInv, Prefixed
    <3> QED BY <3>1, <3>2, <3>3, <3>4
  <2>6. ASSUME NEW a \in held, NEW b \in held, a[2] = b[2] PROVE a = b
    BY <1>2, <2>1, <2>2, <2>6 DEF NumbersInv
  <2>7. ASSUME NEW a \in coming, NEW b \in coming, a[2] = b[2] PROVE a = b
    <3>1. PICK v \in Worker : Numbered(tx[v]) /\ a = <<tx[v].row, tx[v].number>>
      BY <2>3
    <3>2. PICK w \in Worker : Numbered(tx[w]) /\ b = <<tx[w].row, tx[w].number>>
      BY <2>3
    <3> QED BY <1>2, <2>7, <3>1, <3>2 DEF NumbersInv
  <2>8. ASSUME NEW a \in held, NEW b \in coming PROVE a[2] # b[2]
    <3>1. PICK c \in Rows("category"), i \in Nat : a[2] = <<c, i>> /\ i < counter[c]
      BY <2>2
    <3>2. PICK d \in Rows("category") : b[2] = <<d, counter[d]>>
      BY <2>3
    <3> QED BY <2>4, <3>1, <3>2
  <2>9. \A a, b \in held \union coming :
          Sku(a[2]) = Sku(b[2]) /\ Live(a[2][1]) /\ Live(b[2][1]) => a = b
    BY <2>5, <2>6, <2>7, <2>8
  <2>10. ASSUME NEW a \in held, NEW b \in held, Sku(a[2]) = Sku(b[2]), Live(a[1]), Live(b[1])
         PROVE  a = b
    <3>1. a[1] = b[1]
      BY <1>2, <2>2, <2>10 DEF SkuInv, Labelled
    <3> QED BY <2>2, <3>1
  <2>11. ASSUME NEW a \in held PROVE a[2][2] < counter[a[2][1]]
    BY <2>2
  <2> QED BY <2>9, <2>10, <2>11 DEF ClashOnlyOnReusedPrefix
<1> QED BY NumbersInit, NumbersStep, DataInit, DataStep, SkuStep, <1>1, <1>2, PTL DEF Spec
=============================================================================
