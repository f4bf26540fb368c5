---------------------------- MODULE Access_proofs ----------------------------
(***************************************************************************)
(* TLAPS proofs about Access, for any number of persons, sessions and      *)
(* overlapping requests and any two lifetimes: sessions keep their limits  *)
(* although their renewals race, a session that was signed out of stays    *)
(* out, and an administrator remains as long as they leave by themselves.  *)
(***************************************************************************)
EXTENDS Access, TLAPS

Users    == [Emails -> User \cup {NULL}]
Valids   == [step : {"valid"}, session : Sessions, read : Session, op : Ops]
Renewals == [step : {"renewing"}, session : Sessions, op : Ops, read : Session, at : Nat]
Handled  == [step : {"handling"}, session : Sessions, op : Ops, user : Emails]
Patches  == [step : {"patching"}, op : Ops, user : Emails, basis : Users,
             role : {"admin", "employee"}, active : BOOLEAN]
SignIns  == [step : {"signing"}, user : Emails, sub : Subjects, link : BOOLEAN]

Types ==
  /\ users \in Users
  /\ sessions \in [Sessions -> Session \cup {NULL, GONE}]
  /\ tx \in [Workers -> Valids \cup Renewals \cup Handled \cup Patches \cup SignIns \cup {NULL}]
  /\ now \in Nat

(* The limits of one session row, at any time up to t.                     *)
Bounded(row, t) ==
  /\ row.created <= row.seen /\ row.seen <= t
  /\ row.expires <= row.seen + Idle
  /\ row.expires <= row.created + Absolute

SessionsInLimits == \A i \in Sessions : Live(i) => Bounded(sessions[i], now)

(* A renewal works on a row as it was at some time, of the session that is *)
(* still the same one if it is still there.                                *)
FromSession(t) ==
  /\ sessions[t.session] # NULL
  /\ Live(t.session) => sessions[t.session].created = t.read.created

(* What update_user has checked holds of the accounts it has read.         *)
AnotherAdmin(us, e) == \E f \in Emails : f # e /\ ActiveAdmin(us, f)

Checked(t) ==
  /\ t.op.email \in Emails
  /\ users[t.op.email] \in User /\ t.basis[t.op.email] \in User
  /\ t.op.active = FALSE /\ t.op.email = t.user /\ t.basis[t.op.email].role = "admin" =>
       AnotherAdmin(t.basis, t.op.email)

Good(t) == t # NULL =>
  /\ t \in Valids => Bounded(t.read, now) /\ FromSession(t)
  /\ t \in Renewals => Bounded(t.read, t.at) /\ t.at <= now /\ FromSession(t)
  /\ t \in SignIns => users[t.user] \in User
  /\ t \in Patches => Checked(t)

RequestsGood == \A w \in Workers : Good(tx[w])

AccessInv == Types /\ SessionsInLimits /\ RequestsGood /\ LastAdminStays

Requests == Valids \cup Renewals \cup Handled \cup Patches \cup SignIns

LEMMA InitHolds == Init => AccessInv
<1> SUFFICES ASSUME Init PROVE AccessInv
  OBVIOUS
<1>1. users \in Users
  BY AccessAssumption DEF Init, Users, User
<1>2. Types
  BY <1>1 DEF Init, Types
<1>3. SessionsInLimits
  BY AccessAssumption DEF Init, SessionsInLimits, Live, Session
<1>4. RequestsGood
  BY DEF Init, RequestsGood, Good
<1>5. LastAdminStays
  BY AccessAssumption DEF Init, LastAdminStays, ActiveAdmin, User
<1> QED BY <1>2, <1>3, <1>4, <1>5 DEF AccessInv

(* A request in each of its steps.                                         *)
LEMMA StepsApart ==
  ASSUME Types, NEW w \in Workers
  PROVE  /\ At(w, "valid") => tx[w] \in Valids
         /\ At(w, "renewing") => tx[w] \in Renewals
         /\ At(w, "handling") => tx[w] \in Handled
         /\ At(w, "patching") => tx[w] \in Patches
         /\ At(w, "signing") => tx[w] \in SignIns
  BY DEF Types, At, Valids, Renewals, Handled, Patches, SignIns

(* The minimum in _compute_expiry.                                         *)
LEMMA RenewedWithin ==
  ASSUME NEW read \in Session, NEW at \in Nat
  PROVE  /\ Renewed(read, at) \in Nat
         /\ Renewed(read, at) <= at + Idle
         /\ Renewed(read, at) <= read.created + Absolute
         /\ Renewed(read, at) \in {at + Idle, read.created + Absolute}
  BY AccessAssumption DEF Session, Renewed, Min2

(* A renewal leaves the row within its limits, though it may be older than *)
(* the row it meets.  It keeps expires_at only when what it has read had   *)
(* reached the ceiling, which no other renewal can then have passed.       *)
LEMMA TouchedBounded ==
  ASSUME NEW t \in Renewals, NEW row \in Session, NEW n \in Nat,
         Bounded(t.read, t.at), t.at <= n, row.created = t.read.created, Bounded(row, n)
  PROVE  Touched(row, t) \in Session /\ Bounded(Touched(row, t), n)
<1> DEFINE ex == IF t.at # t.read.seen /\ Renewed(t.read, t.at) = t.read.expires
                 THEN row.expires ELSE Renewed(t.read, t.at)
<1>1. /\ t.at \in Nat /\ t.read \in Session
      /\ t.read.created \in Nat /\ t.read.seen \in Nat /\ t.read.expires \in Nat
      /\ row.created \in Nat /\ row.seen \in Nat /\ row.expires \in Nat
  BY DEF Renewals, Session
<1>2. Touched(row, t) = [row EXCEPT !.seen = t.at, !.expires = ex]
  BY DEF Touched
<1>3. ex \in Nat
  BY <1>1, RenewedWithin
<1>4. /\ Touched(row, t) \in Session
      /\ Touched(row, t).created = row.created
      /\ Touched(row, t).seen = t.at /\ Touched(row, t).expires = ex
  BY <1>1, <1>2, <1>3 DEF Session
<1>5. ex <= t.at + Idle /\ ex <= row.created + Absolute
  <2>1. CASE t.at # t.read.seen /\ Renewed(t.read, t.at) = t.read.expires
    <3>1. Renewed(t.read, t.at) # t.at + Idle
      BY <1>1, <2>1, AccessAssumption DEF Bounded
    <3>2. Renewed(t.read, t.at) = t.read.created + Absolute
      BY <1>1, <3>1, RenewedWithin
    <3>3. t.read.created + Absolute <= t.at + Idle
      BY <1>1, <3>2, RenewedWithin
    <3> QED BY <1>1, <2>1, <3>3, AccessAssumption DEF Bounded
  <2>2. CASE ~(t.at # t.read.seen /\ Renewed(t.read, t.at) = t.read.expires)
    BY <1>1, <2>2, RenewedWithin
  <2> QED BY <2>1, <2>2
<1>6. row.created <= t.at
  BY <1>1 DEF Bounded
<1> QED BY <1>4, <1>5, <1>6 DEF Bounded

(* A request stays good while sessions do not change their owner or come   *)
(* back, accounts are not deleted and time does not run backwards.         *)
LEMMA GoodKept ==
  ASSUME Types, Types', NEW t, t \in Requests \cup {NULL}, Good(t), now <= now',
         \A i \in Sessions : sessions[i] # NULL =>
           /\ sessions'[i] # NULL
           /\ sessions'[i] \in Session =>
                sessions[i] \in Session /\ sessions'[i].created = sessions[i].created,
         \A e \in Emails : users[e] \in User => users'[e] \in User
  PROVE  Good(t)'
<1> SUFFICES ASSUME t # NULL PROVE Good(t)'
  BY DEF Good
<1>1. t \in Valids \cup Renewals => t.session \in Sessions /\ t.read \in Session
  BY DEF Valids, Renewals
<1>2. t \in Valids \cup Renewals => FromSession(t)'
  BY <1>1 DEF Good, FromSession, Live
<1>3. t \in Valids => Bounded(t.read, now')
  BY <1>1 DEF Good, Bounded, Types, Session
<1>4. t \in Renewals => Bounded(t.read, t.at) /\ t.at <= now'
  BY DEF Good, Types, Renewals
<1>5. t \in SignIns => users'[t.user] \in User
  BY DEF Good, SignIns
<1>6. t \in Patches => Checked(t)'
  BY DEF Good, Checked
<1> QED BY <1>2, <1>3, <1>4, <1>5, <1>6 DEF Good

(* A request that reads, or ends, beside which nothing changes.            *)
LEMMA QuietHolds ==
  ASSUME AccessInv, NEW w \in Workers, NEW t, t \in Requests \cup {NULL}, Good(t),
         tx' = [tx EXCEPT ![w] = t], UNCHANGED <<users, sessions, now, guarded>>
  PROVE  AccessInv'
<1>1. Types'
  BY DEF AccessInv, Types, Requests
<1>2. SessionsInLimits'
  BY DEF AccessInv, SessionsInLimits, Live
<1>3. RequestsGood'
  <2> SUFFICES ASSUME NEW v \in Workers PROVE Good(tx[v])'
    BY DEF RequestsGood
  <2>1. PICK u : u = tx'[v]
    OBVIOUS
  <2>2. u \in Requests \cup {NULL} /\ Good(u)
    BY <2>1 DEF AccessInv, Types, Requests, RequestsGood
  <2>3. Good(u)'
    BY <1>1, <2>2, GoodKept DEF AccessInv, Types
  <2> QED BY <2>1, <2>3
<1>4. LastAdminStays'
  BY DEF AccessInv, LastAdminStays
<1> QED BY <1>1, <1>2, <1>3, <1>4 DEF AccessInv

LEMMA ValidateHolds ==
  ASSUME AccessInv, NEW w \in Workers, NEW i \in Sessions, NEW op \in Ops, Validate(w, i, op)
  PROVE  AccessInv'
<1> DEFINE t == [step |-> "valid", session |-> i, read |-> sessions[i], op |-> op]
<1>1. t \in Valids
  BY DEF Validate, Valid, Live, Valids
<1>2. t \notin Renewals \cup SignIns \cup Patches
  BY DEF Renewals, SignIns, Patches
<1>3. Bounded(sessions[i], now) /\ sessions[i] # NULL
  BY AccessAssumption DEF Validate, Valid, AccessInv, SessionsInLimits, Live, Session
<1>4. Good(t)
  BY <1>1, <1>2, <1>3 DEF Good, FromSession
<1> QED BY <1>1, <1>4, QuietHolds DEF Validate, Requests

LEMMA ComputeHolds ==
  ASSUME AccessInv, NEW w \in Workers, Compute(w)
  PROVE  AccessInv'
<1> DEFINE t == [step |-> "renewing", session |-> tx[w].session, op |-> tx[w].op,
                 read |-> tx[w].read, at |-> now]
<1>1. tx[w] \in Valids /\ tx[w] # NULL /\ now \in Nat
  BY StepsApart DEF Compute, AccessInv, Types, At
<1>2. t \in Renewals
  BY <1>1 DEF Valids, Renewals
<1>3. t \notin Valids \cup SignIns \cup Patches
  BY DEF Valids, SignIns, Patches
<1>4. Bounded(tx[w].read, now) /\ FromSession(tx[w])
  BY <1>1 DEF AccessInv, RequestsGood, Good
<1>5. Good(t)
  BY <1>1, <1>2, <1>3, <1>4 DEF Good, FromSession
<1> QED BY <1>2, <1>5, QuietHolds DEF Compute, Requests

LEMMA EndHolds ==
  ASSUME AccessInv, NEW w \in Workers, Done(w), UNCHANGED <<users, sessions, now, guarded>>
  PROVE  AccessInv'
  BY QuietHolds DEF Done, Good

LEMMA DecidePatchHolds ==
  ASSUME AccessInv, NEW w \in Workers, DecidePatch(w)
  PROVE  AccessInv'
<1> DEFINE op == tx[w].op
           old == users[op.email]
           t == [step |-> "patching", op |-> op, user |-> tx[w].user, basis |-> users,
                 role |-> Given(op.role, old.role), active |-> Given(op.active, old.active)]
<1>1. tx[w] \in Handled
  BY StepsApart DEF DecidePatch, Asks, AccessInv
<1>2. /\ op \in Ops /\ tx[w].user \in Emails
      /\ op \in [kind : {"patch"}, email : Emails, role : {"admin", "employee", NULL},
                 active : BOOLEAN \cup {NULL}]
  BY <1>1, AccessAssumption DEF Handled, AllOps, DecidePatch, Asks
<1>3. op.email \in Emails /\ old \in User /\ users \in Users
  BY <1>2 DEF DecidePatch, Exists, AccessInv, Types
<1>4. Given(op.role, old.role) \in {"admin", "employee"}
  BY <1>2, <1>3 DEF Given, User
<1>5. Given(op.active, old.active) \in BOOLEAN
  BY <1>2, <1>3 DEF Given, User
<1>6. t \in Patches
  BY <1>2, <1>3, <1>4, <1>5 DEF Patches
<1>7. t \notin Valids \cup Renewals \cup SignIns
  BY DEF Valids, Renewals, SignIns
<1>8. op.active = FALSE /\ op.email = tx[w].user /\ old.role = "admin" =>
        AnotherAdmin(users, op.email)
  BY DEF DecidePatch, DeactivatesSelf, OtherActiveAdmin, AnotherAdmin
<1>9. Good(t)
  BY <1>3, <1>6, <1>7, <1>8 DEF Good, Checked
<1> QED BY <1>6, <1>9, QuietHolds DEF DecidePatch, Requests

LEMMA SignInHolds ==
  ASSUME AccessInv, NEW w \in Workers, SignIn(w)
  PROVE  AccessInv'
<1>0. PICK c \in Claims : \E e \in FoundBy(c) :
        tx' = [tx EXCEPT ![w] = [step |-> "signing", user |-> e, sub |-> c.sub,
                                 link |-> users[e].sub = NULL]]
  BY DEF SignIn
<1>1. PICK e \in FoundBy(c) :
        tx' = [tx EXCEPT ![w] = [step |-> "signing", user |-> e, sub |-> c.sub,
                                 link |-> users[e].sub = NULL]]
  BY <1>0
<1> DEFINE t == [step |-> "signing", user |-> e, sub |-> c.sub, link |-> users[e].sub = NULL]
<1>2. e \in Emails /\ users[e] \in User /\ c.sub \in Subjects
  BY AccessAssumption DEF FoundBy, Exists
<1>3. t \in SignIns
  BY <1>2 DEF SignIns
<1>4. t \notin Valids \cup Renewals \cup Patches
  BY DEF Valids, Renewals, Patches
<1>5. Good(t)
  BY <1>2, <1>4 DEF Good
<1> QED BY <1>1, <1>3, <1>5, QuietHolds DEF SignIn, Requests

(* A step that changes rows: what other requests have read stays good.     *)
LEMMA ChangeHolds ==
  ASSUME AccessInv, Types', SessionsInLimits', LastAdminStays', now <= now',
         \A v \in Workers : tx'[v] = tx[v] \/ tx'[v] \in Handled \cup {NULL},
         \A i \in Sessions : sessions[i] # NULL =>
           /\ sessions'[i] # NULL
           /\ sessions'[i] \in Session =>
                sessions[i] \in Session /\ sessions'[i].created = sessions[i].created,
         \A e \in Emails : users[e] \in User => users'[e] \in User
  PROVE  AccessInv'
<1>1. RequestsGood'
  <2> SUFFICES ASSUME NEW v \in Workers PROVE Good(tx[v])'
    BY DEF RequestsGood
  <2>1. PICK u : u = tx'[v]
    OBVIOUS
  <2>2. u \in Requests \cup {NULL} /\ Good(u)
    <3>1. CASE u = tx[v]
      BY <3>1 DEF AccessInv, Types, Requests, RequestsGood
    <3>2. CASE u \in Handled
      BY <3>2 DEF Requests, Good, Handled, Valids, Renewals, SignIns, Patches
    <3>3. CASE u = NULL
      BY <3>3 DEF Good
    <3> QED BY <2>1, <3>1, <3>2, <3>3
  <2>3. Good(u)'
    BY <2>2, GoodKept DEF AccessInv
  <2> QED BY <2>1, <2>3
<1> QED BY <1>1 DEF AccessInv

LEMMA RenewHolds ==
  ASSUME AccessInv, NEW w \in Workers, Renew(w)
  PROVE  AccessInv'
<1>1. PICK t : t = tx[w]
  OBVIOUS
<1> DEFINE i == t.session
           next == IF Live(i) THEN [step |-> "handling", session |-> i, op |-> t.op,
                                    user |-> t.read.user]
                   ELSE NULL
<1>2. t \in Renewals /\ t # NULL
  BY <1>1, StepsApart DEF Renew, AccessInv, At
<1>3. i \in Sessions /\ t.read \in Session /\ t.at \in Nat
  BY <1>2 DEF Renewals
<1>4. Bounded(t.read, t.at) /\ t.at <= now /\ FromSession(t)
  BY <1>1, <1>2 DEF AccessInv, RequestsGood, Good
<1>5. /\ sessions' = [sessions EXCEPT ![i] = Updated(i, t)]
      /\ tx' = [tx EXCEPT ![w] = next]
      /\ UNCHANGED <<users, now, guarded>>
  BY <1>1 DEF Renew
<1>6. next \in Handled \cup {NULL}
  BY <1>2, <1>3 DEF Handled, Renewals, Session
<1>7. CASE Live(i)
  <2>1. sessions[i] \in Session /\ Bounded(sessions[i], now) /\ now \in Nat
        /\ sessions[i].created = t.read.created
    BY <1>3, <1>4, <1>7 DEF Live, AccessInv, SessionsInLimits, FromSession, Types
  <2>2. Updated(i, t) \in Session /\ Bounded(Updated(i, t), now)
    BY <1>2, <1>4, <1>7, <2>1, TouchedBounded DEF Updated
  <2>3. Updated(i, t).created = sessions[i].created
    BY <1>7, <2>1 DEF Updated, Touched, Session
  <2>4. sessions'[i] = Updated(i, t) /\ \A j \in Sessions \ {i} : sessions'[j] = sessions[j]
    BY <1>3, <1>5 DEF AccessInv, Types
  <2>5. Types'
    BY <1>5, <1>6, <2>2 DEF AccessInv, Types
  <2>6. SessionsInLimits'
    BY <1>5, <2>2, <2>4 DEF AccessInv, SessionsInLimits, Live
  <2>7. LastAdminStays'
    BY <1>5 DEF AccessInv, LastAdminStays
  <2>8. now <= now' /\ \A v \in Workers : tx'[v] = tx[v] \/ tx'[v] \in Handled \cup {NULL}
    BY <1>5, <1>6 DEF AccessInv, Types
  <2>9. \A j \in Sessions : sessions[j] # NULL =>
           /\ sessions'[j] # NULL
           /\ sessions'[j] \in Session =>
                sessions[j] \in Session /\ sessions'[j].created = sessions[j].created
    BY <2>1, <2>2, <2>3, <2>4, AccessAssumption DEF Session
  <2> QED BY <1>5, <2>5, <2>6, <2>7, <2>8, <2>9, ChangeHolds
<1>8. CASE ~Live(i)
  <2>1. UNCHANGED <<users, sessions, now, guarded>>
    BY <1>3, <1>5, <1>8 DEF Updated, AccessInv, Types
  <2>2. next = NULL
    BY <1>8
  <2> QED BY <1>5, <2>1, <2>2, QuietHolds DEF Good
<1> QED BY <1>7, <1>8

LEMMA LogoutHolds ==
  ASSUME AccessInv, NEW w \in Workers, Logout(w)
  PROVE  AccessInv'
<1>1. PICK i : i = tx[w].session
  OBVIOUS
<1>2. i \in Sessions
  BY <1>1, StepsApart DEF Logout, Asks, AccessInv, Handled
<1>3. /\ sessions' = [sessions EXCEPT ![i] = GONE] /\ tx' = [tx EXCEPT ![w] = NULL]
      /\ UNCHANGED <<users, now, guarded>>
  BY <1>1 DEF Logout, Done
<1>4. sessions'[i] = GONE /\ GONE \notin Session /\ GONE # NULL
      /\ \A j \in Sessions \ {i} : sessions'[j] = sessions[j]
  BY <1>2, <1>3, AccessAssumption DEF AccessInv, Types, Session
<1>5. Types'
  BY <1>3 DEF AccessInv, Types
<1>6. SessionsInLimits'
  BY <1>3, <1>4 DEF AccessInv, SessionsInLimits, Live
<1>7. LastAdminStays'
  BY <1>3 DEF AccessInv, LastAdminStays
<1>8. now <= now' /\ \A v \in Workers : tx'[v] = tx[v] \/ tx'[v] \in Handled \cup {NULL}
  BY <1>3 DEF AccessInv, Types
<1>9. \A j \in Sessions : sessions[j] # NULL =>
         /\ sessions'[j] # NULL
         /\ sessions'[j] \in Session =>
              sessions[j] \in Session /\ sessions'[j].created = sessions[j].created
  BY <1>4
<1> QED BY <1>3, <1>5, <1>6, <1>7, <1>8, <1>9, ChangeHolds

LEMMA TickHolds ==
  ASSUME AccessInv, Tick
  PROVE  AccessInv'
<1>1. Types' /\ now <= now'
  BY DEF AccessInv, Types, Tick
<1>2. SessionsInLimits'
  <2> SUFFICES ASSUME NEW i \in Sessions, Live(i) PROVE Bounded(sessions[i], now')
    BY DEF SessionsInLimits, Tick, Live, Bounded
  <2>1. Bounded(sessions[i], now) /\ sessions[i].seen \in Nat
    BY DEF AccessInv, SessionsInLimits, Live, Session
  <2> QED BY <1>1, <2>1 DEF Bounded, Tick, AccessInv, Types
<1>3. LastAdminStays'
  BY DEF AccessInv, LastAdminStays, Tick
<1> QED BY <1>1, <1>2, <1>3, ChangeHolds DEF Tick

LEMMA CreateUserHolds ==
  ASSUME AccessInv, NEW w \in Workers, CreateUser(w)
  PROVE  AccessInv'
<1>1. PICK op : op = tx[w].op
  OBVIOUS
<1> DEFINE new == [role |-> op.role, active |-> op.active, sub |-> NULL]
<1>2. /\ users[op.email] = NULL /\ users' = [users EXCEPT ![op.email] = new]
      /\ tx' = [tx EXCEPT ![w] = NULL] /\ UNCHANGED <<sessions, now, guarded>>
  BY <1>1 DEF CreateUser, Done
<1>3. op \in [kind : {"create"}, email : Emails, role : {"admin", "employee"}, active : BOOLEAN]
  BY <1>1, StepsApart, AccessAssumption DEF CreateUser, Asks, AccessInv, Handled, AllOps
<1>4. op.email \in Emails /\ new \in User
  BY <1>3 DEF User
<1>5. users'[op.email] = new /\ \A e \in Emails \ {op.email} : users'[e] = users[e]
  BY <1>2, <1>4 DEF AccessInv, Types, Users
<1>6. Types'
  BY <1>2, <1>4 DEF AccessInv, Types, Users
<1>7. SessionsInLimits'
  BY <1>2 DEF AccessInv, SessionsInLimits, Live
<1>8. LastAdminStays'
  <2>1. NULL \notin User
    BY AccessAssumption DEF User
  <2>2. \A e \in Emails : ActiveAdmin(users, e) => e # op.email
    BY <1>2, <2>1 DEF ActiveAdmin
  <2> QED BY <1>2, <1>5, <2>2 DEF AccessInv, LastAdminStays, ActiveAdmin
<1>9. now <= now' /\ \A v \in Workers : tx'[v] = tx[v] \/ tx'[v] \in Handled \cup {NULL}
  BY <1>2 DEF AccessInv, Types
<1>10. \A e \in Emails : users[e] \in User => users'[e] \in User
  BY <1>4, <1>5
<1>11. \A i \in Sessions : sessions[i] # NULL =>
         /\ sessions'[i] # NULL
         /\ sessions'[i] \in Session =>
              sessions[i] \in Session /\ sessions'[i].created = sessions[i].created
  BY <1>2
<1> QED BY <1>6, <1>7, <1>8, <1>9, <1>10, <1>11, ChangeHolds

(* The administrator who leaves has seen another one, and no account has   *)
(* changed since; any other loss of an administrator ends the promise.     *)
LEMMA CommitPatchHolds ==
  ASSUME AccessInv, NEW w \in Workers, CommitPatch(w)
  PROVE  AccessInv'
<1>1. PICK t : t = tx[w]
  OBVIOUS
<1> DEFINE email == t.op.email
           read == t.basis[email]
           old == users[email]
           new == [role |-> Changed(t.role, read.role, old.role),
                   active |-> Changed(t.active, read.active, old.active), sub |-> old.sub]
<1>2. t \in Patches /\ t # NULL
  BY <1>1, StepsApart DEF CommitPatch, At, AccessInv
<1>3. Checked(t)
  BY <1>1, <1>2 DEF AccessInv, RequestsGood, Good
<1>4. email \in Emails /\ old \in User /\ t.role \in {"admin", "employee"} /\ t.active \in BOOLEAN
  BY <1>2, <1>3 DEF Checked, Patches
<1>5. /\ users' = [users EXCEPT ![email] = new]
      /\ tx' = [tx EXCEPT ![w] = NULL] /\ UNCHANGED <<sessions, now>>
  BY <1>1 DEF CommitPatch, Done
<1>6. new \in User
  <2>1. new.role \in {"admin", "employee"}
    BY <1>4 DEF Changed, User
  <2>2. new.active \in BOOLEAN
    BY <1>4 DEF Changed, User
  <2> QED BY <1>4, <2>1, <2>2 DEF User
<1>7. users'[email] = new /\ \A e \in Emails \ {email} : users'[e] = users[e]
  BY <1>4, <1>5 DEF AccessInv, Types, Users
<1>8. Types'
  BY <1>5, <1>6 DEF AccessInv, Types, Users
<1>9. SessionsInLimits'
  BY <1>5 DEF AccessInv, SessionsInLimits, Live
<1>10. LastAdminStays'
  <2> SUFFICES ASSUME guarded' PROVE \E e \in Emails : ActiveAdmin(users', e)
    BY DEF LastAdminStays, ActiveAdmin
  <2>1. /\ guarded
        /\ \/ ~ActiveAdmin(users, email) \/ ActiveAdmin(users', email)
           \/ t.op.active = FALSE /\ email = t.user /\ t.basis = users
    BY <1>1 DEF CommitPatch, DeactivatesSelf
  <2>2. PICK f \in Emails : ActiveAdmin(users, f)
    BY <2>1 DEF AccessInv, LastAdminStays
  <2>3. CASE ActiveAdmin(users', email)
    BY <1>4, <2>3
  <2>4. CASE ~ActiveAdmin(users, email)
    BY <1>7, <2>2, <2>4 DEF ActiveAdmin
  <2>5. CASE ActiveAdmin(users, email) /\ t.op.active = FALSE /\ email = t.user /\ t.basis = users
    <3>1. AnotherAdmin(users, email)
      BY <1>3, <2>5 DEF Checked, ActiveAdmin
    <3> QED BY <1>7, <3>1 DEF AnotherAdmin, ActiveAdmin
  <2> QED BY <2>1, <2>3, <2>4, <2>5
<1>11. now <= now' /\ \A v \in Workers : tx'[v] = tx[v] \/ tx'[v] \in Handled \cup {NULL}
  BY <1>5 DEF AccessInv, Types
<1>12. \A e \in Emails : users[e] \in User => users'[e] \in User
  BY <1>6, <1>7
<1>13. \A i \in Sessions : sessions[i] # NULL =>
         /\ sessions'[i] # NULL
         /\ sessions'[i] \in Session =>
              sessions[i] \in Session /\ sessions'[i].created = sessions[i].created
  BY <1>5
<1> QED BY <1>8, <1>9, <1>10, <1>11, <1>12, <1>13, ChangeHolds

LEMMA CreateSessionHolds ==
  ASSUME AccessInv, NEW w \in Workers, CreateSession(w)
  PROVE  AccessInv'
<1>1. PICK t : t = tx[w]
  OBVIOUS
<1> DEFINE row == [user |-> t.user, created |-> now, seen |-> now, expires |-> now + Idle]
           new == [users[t.user] EXCEPT !.sub = IF t.link THEN t.sub ELSE @]
<1>2. t \in SignIns /\ t # NULL
  BY <1>1, StepsApart DEF CreateSession, At, AccessInv
<1>3. t.user \in Emails /\ users[t.user] \in User /\ t.sub \in Subjects
  BY <1>1, <1>2 DEF AccessInv, RequestsGood, Good, SignIns
<1>4. PICK i \in Sessions : sessions[i] = NULL /\ sessions' = [sessions EXCEPT ![i] = row]
  BY <1>1 DEF CreateSession
<1>5. /\ users' = [users EXCEPT ![t.user] = new]
      /\ tx' = [tx EXCEPT ![w] = NULL] /\ UNCHANGED <<now, guarded>>
  BY <1>1, <1>3 DEF CreateSession, Done, AccessInv, Types, Users
<1>6. now \in Nat /\ row \in Session /\ Bounded(row, now)
  <2>1. now \in Nat /\ Idle \in Nat /\ Absolute \in Nat
    BY AccessAssumption DEF AccessInv, Types
  <2>2. row \in Session
    BY <1>3, <2>1 DEF Session
  <2>3. row.created = now /\ row.seen = now /\ row.expires = now + Idle
    OBVIOUS
  <2>4. now <= now /\ now + Idle <= now + Idle /\ now + Idle <= now + Absolute
    BY <2>1, AccessAssumption
  <2> QED BY <2>1, <2>2, <2>3, <2>4 DEF Bounded
<1>7. new \in User /\ new.role = users[t.user].role /\ new.active = users[t.user].active
  BY <1>3 DEF User
<1>8. /\ sessions'[i] = row /\ \A j \in Sessions \ {i} : sessions'[j] = sessions[j]
      /\ users'[t.user] = new /\ \A e \in Emails \ {t.user} : users'[e] = users[e]
  BY <1>3, <1>4, <1>5 DEF AccessInv, Types, Users
<1>9. Types'
  BY <1>4, <1>5, <1>6, <1>7 DEF AccessInv, Types, Users
<1>10. SessionsInLimits'
  BY <1>5, <1>6, <1>8 DEF AccessInv, SessionsInLimits, Live
<1>11. LastAdminStays'
  BY <1>5, <1>7, <1>8 DEF AccessInv, LastAdminStays, ActiveAdmin
<1>12. now <= now' /\ \A v \in Workers : tx'[v] = tx[v] \/ tx'[v] \in Handled \cup {NULL}
  BY <1>5 DEF AccessInv, Types
<1>13. \A e \in Emails : users[e] \in User => users'[e] \in User
  BY <1>7, <1>8
<1>14. \A j \in Sessions : sessions[j] # NULL =>
         /\ sessions'[j] # NULL
         /\ sessions'[j] \in Session =>
              sessions[j] \in Session /\ sessions'[j].created = sessions[j].created
  BY <1>4, <1>8
<1> QED BY <1>9, <1>10, <1>11, <1>12, <1>13, <1>14, ChangeHolds

LEMMA RestartHolds ==
  ASSUME AccessInv, Restart
  PROVE  AccessInv'
<1> DEFINE boss == IF users[BOSS] = NULL THEN [role |-> "admin", active |-> TRUE, sub |-> NULL]
                   ELSE [users[BOSS] EXCEPT !.role = "admin"]
           none == ~\E e \in Emails : Exists(e) /\ users[e].role = "admin"
<1>1. /\ users' = IF none THEN [users EXCEPT ![BOSS] = boss] ELSE users
      /\ tx' = [w \in Workers |-> NULL] /\ UNCHANGED <<sessions, now, guarded>>
  BY AccessAssumption DEF Restart, AccessInv, Types, Users
<1>2. boss \in User
  BY AccessAssumption DEF AccessInv, Types, Users, User
<1>3. Types'
  BY <1>1, <1>2 DEF AccessInv, Types, Users
<1>4. SessionsInLimits'
  BY <1>1 DEF AccessInv, SessionsInLimits, Live
<1>5. LastAdminStays'
  <2>1. guarded => ~none
    BY DEF AccessInv, LastAdminStays, ActiveAdmin, Exists
  <2> QED BY <1>1, <2>1 DEF AccessInv, LastAdminStays
<1>6. \A e \in Emails : users[e] \in User => users'[e] \in User
  BY <1>1, <1>2 DEF AccessInv, Types, Users
<1>7. \A j \in Sessions : sessions[j] # NULL =>
         /\ sessions'[j] # NULL
         /\ sessions'[j] \in Session =>
              sessions[j] \in Session /\ sessions'[j].created = sessions[j].created
  BY <1>1
<1>8. now <= now' /\ \A v \in Workers : tx'[v] = tx[v] \/ tx'[v] \in Handled \cup {NULL}
  BY <1>1 DEF AccessInv, Types
<1> QED BY <1>3, <1>4, <1>5, <1>6, <1>7, <1>8, ChangeHolds

LEMMA StepHolds == AccessInv /\ [Next]_vars => AccessInv'
<1> SUFFICES ASSUME AccessInv, [Next]_vars PROVE AccessInv'
  OBVIOUS
<1>1. CASE UNCHANGED vars
  <2>1. /\ Types' /\ SessionsInLimits' /\ LastAdminStays' /\ now <= now'
        /\ UNCHANGED <<users, sessions, tx>>
    BY <1>1 DEF vars, AccessInv, Types, SessionsInLimits, Live, LastAdminStays
  <2> QED BY <2>1, ChangeHolds
<1>2. CASE \E w \in Workers : \E i \in Sessions, op \in Ops : Validate(w, i, op)
  BY <1>2, ValidateHolds
<1>3. CASE \E w \in Workers : Compute(w) \/ Renew(w)
  BY <1>3, ComputeHolds, RenewHolds
<1>4. CASE \E w \in Workers : Me(w) \/ Abort(w)
  BY <1>4, EndHolds DEF Me, Abort
<1>5. CASE \E w \in Workers : Logout(w) \/ CreateUser(w)
  BY <1>5, LogoutHolds, CreateUserHolds
<1>6. CASE \E w \in Workers : DecidePatch(w) \/ CommitPatch(w)
  BY <1>6, DecidePatchHolds, CommitPatchHolds
<1>7. CASE \E w \in Workers : SignIn(w) \/ CreateSession(w)
  BY <1>7, SignInHolds, CreateSessionHolds
<1>8. CASE Restart \/ Tick
  BY <1>8, RestartHolds, TickHolds
<1> QED BY <1>1, <1>2, <1>3, <1>4, <1>5, <1>6, <1>7, <1>8 DEF Next

LEMMA AccessInvHolds == Spec => []AccessInv
  BY InitHolds, StepHolds, PTL DEF Spec

(* Every session lapses SESSION_IDLE_TTL after it was last seen and        *)
(* SESSION_ABSOLUTE_TTL after its creation, whatever touch_session calls   *)
(* overlap.                                                                *)
THEOREM SessionsCorrect == Spec => []SessionsBounded
<1>1. AccessInv => SessionsBounded
  BY DEF AccessInv, Types, Users, SessionsInLimits, Bounded, SessionsBounded
<1> QED BY <1>1, AccessInvHolds, PTL

(* update_user's guard keeps an active administrator while administrators  *)
(* deactivate themselves only, with no account changing under the check.   *)
THEOREM AdminCorrect == Spec => []LastAdminStays
<1>1. AccessInv => LastAdminStays
  BY DEF AccessInv
<1> QED BY <1>1, AccessInvHolds, PTL

(* delete_session is final: touch_session updates a row that exists or     *)
(* none, and create_session takes a new identifier.                        *)
THEOREM LogoutCorrect == Spec => LogoutIsFinal
<1> DEFINE Final == \A i \in Sessions : sessions[i] = GONE => sessions'[i] = GONE
<1>1. AccessInv /\ [Next]_vars => [Final]_vars
  <2> SUFFICES ASSUME AccessInv, [Next]_vars, NEW i \in Sessions, sessions[i] = GONE
               PROVE  sessions'[i] = GONE
    OBVIOUS
  <2>1. sessions \in [Sessions -> Session \cup {NULL, GONE}] /\ ~Live(i) /\ GONE # NULL
    BY AccessAssumption DEF AccessInv, Types, Live, Session
  <2>2. CASE \E w \in Workers : Renew(w)
    BY <2>1, <2>2 DEF Renew, Updated
  <2>3. CASE \E w \in Workers : Logout(w)
    BY <2>1, <2>3 DEF Logout
  <2>4. CASE \E w \in Workers : CreateSession(w)
    BY <2>1, <2>4 DEF CreateSession
  <2>5. CASE UNCHANGED sessions
    BY <2>5
  <2> QED BY <2>2, <2>3, <2>4, <2>5
       DEF Next, vars, Validate, Compute, Me, CreateUser, DecidePatch, CommitPatch, SignIn,
           Abort, Restart, Tick
<1> QED BY <1>1, AccessInvHolds, PTL DEF Spec, LogoutIsFinal
=============================================================================
