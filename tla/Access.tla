-------------------------------- MODULE Access --------------------------------
(***************************************************************************)
(* Accounts, sign-in and sessions.  An authenticated request validates its *)
(* session, renews it in a transaction of its own, then runs its handler;  *)
(* requests overlap and time passes between those steps.  A restart drops  *)
(* the open requests, keeps the sessions and runs the bootstrap.           *)
(* is_active is read when a person signs in, the role at every request.    *)
(* Sources: app/auth/service.py, app/auth/dependencies.py, app/api/auth.py,*)
(* app/api/user.py, app/models/user.py, app/main.py.                       *)
(***************************************************************************)
EXTENDS Integers

CONSTANTS
  Emails,    (* addresses accounts may be created for                      *)
  BOSS,      (* bootstrap_admin_email                                      *)
  Subjects,  (* persons at the identity provider (google_sub)              *)
  Claims,    (* [sub, email] it may vouch for, in the configured domain    *)
  Sessions,  (* session identifiers                                        *)
  Workers,   (* requests that may be open at the same time                 *)
  Idle, Absolute, (* SESSION_IDLE_TTL and SESSION_ABSOLUTE_TTL             *)
  Ops,       (* what requests ask, see AllOps                              *)
  Horizon,   (* bound: the last instant                                    *)
  MaxRequests, (* bound: requests in one history                           *)
  NULL, GONE (* none; a session that was deleted                           *)

AllOps ==
  {[kind |-> "me"], [kind |-> "logout"]}
  \cup [kind : {"create"}, email : Emails, role : {"admin", "employee"}, active : BOOLEAN]
  \cup [kind : {"patch"}, email : Emails, role : {"admin", "employee", NULL}, active : BOOLEAN \cup {NULL}]

ASSUME AccessAssumption ==
  /\ Ops \subseteq AllOps
  /\ BOSS \in Emails /\ Idle \in Nat /\ Absolute \in Nat /\ Horizon \in Nat
  /\ Idle <= Absolute  \* constants.py; create_session does not look at the ceiling
  /\ NULL \notin Emails
  /\ NULL \notin [role : {"admin", "employee"}, active : BOOLEAN, sub : Subjects \cup {NULL}]
  /\ NULL # GONE /\ NULL \notin Subjects
  /\ Claims \subseteq [sub : Subjects, email : Emails]
  /\ NULL \notin [user : Emails, created : Nat, seen : Nat, expires : Nat]
  /\ GONE \notin [user : Emails, created : Nat, seen : Nat, expires : Nat]

VARIABLES
  users,    (* users[e]: role, is_active, google_sub or NULL; NULL: no row  *)
  sessions, (* sessions[i]: user, created, seen, expires; NULL before it is *)
            (* created, GONE once deleted                                   *)
  tx,       (* tx[w]: the request worker w serves, or NULL                  *)
  now,      (* the clock                                                    *)
  guarded,  (* history: whenever an active administrator was lost, it was   *)
            (* his own deactivation and no account changed under its check  *)
  opened    (* bound: requests so far                                       *)

vars == <<users, sessions, tx, now, guarded, opened>>

User == [role : {"admin", "employee"}, active : BOOLEAN, sub : Subjects \cup {NULL}]
Session == [user : Emails, created : Nat, seen : Nat, expires : Nat]

Min2(a, b) == IF a < b THEN a ELSE b

(* The first start on an empty database has created the administrator.     *)
Init ==
  /\ users = [e \in Emails |-> IF e = BOSS THEN [role |-> "admin", active |-> TRUE, sub |-> NULL]
                               ELSE NULL]
  /\ sessions = [i \in Sessions |-> NULL]
  /\ tx = [w \in Workers |-> NULL]
  /\ now = 0 /\ guarded = TRUE /\ opened = 0

Counted == opened < MaxRequests /\ opened' = opened + 1

At(w, step) == tx[w] # NULL /\ tx[w].step = step
Live(i)     == sessions[i] \in Session
Exists(e)   == users[e] \in User
ActiveAdmin(us, e) == us[e] \in User /\ us[e].role = "admin" /\ us[e].active

-----------------------------------------------------------------------------
(* get_valid_session, then touch_session.                                  *)
Valid(i) ==
  /\ Live(i) /\ now <= sessions[i].expires
  /\ now <= sessions[i].created + Absolute

Validate(w, i, op) ==
  /\ tx[w] = NULL /\ Valid(i) /\ Counted
  /\ tx' = [tx EXCEPT ![w] = [step |-> "valid", session |-> i, read |-> sessions[i], op |-> op]]
  /\ UNCHANGED <<users, sessions, now, guarded>>

Slid(read, at) == at + Idle                                     (* faulty *)
Renewed(read, at) == Min2(at + Idle, read.created + Absolute)

Compute(w) ==
  /\ At(w, "valid")
  /\ tx' = [tx EXCEPT ![w] = [step |-> "renewing", session |-> tx[w].session, op |-> tx[w].op,
                              read |-> tx[w].read, at |-> now]]
  /\ UNCHANGED <<users, sessions, now, guarded, opened>>

(* The UPDATE names expires_at only if it changes what was read, and finds *)
(* no row when the session was deleted, which fails the request.  Two      *)
(* instants that are one here still differ on the code's microseconds.     *)
Touched(row, t) ==
  [row EXCEPT !.seen = t.at,
              !.expires = IF t.at # t.read.seen /\ Renewed(t.read, t.at) = t.read.expires
                          THEN @ ELSE Renewed(t.read, t.at)]
WholeObject(i, t) == Touched(t.read, t)                         (* faulty *)
Updated(i, t) == IF Live(i) THEN Touched(sessions[i], t) ELSE sessions[i]

Renew(w) ==
  LET t == tx[w]
  IN /\ At(w, "renewing")
     /\ sessions' = [sessions EXCEPT ![t.session] = Updated(t.session, t)]
     /\ tx' = [tx EXCEPT ![w] = IF Live(t.session)
                                THEN [step |-> "handling", session |-> t.session, op |-> t.op,
                                      user |-> t.read.user]
                                ELSE NULL]
     /\ UNCHANGED <<users, now, guarded, opened>>

-----------------------------------------------------------------------------
(* The handlers.  GET /auth/me, like every reading route, changes nothing. *)
Asks(w, kind) == At(w, "handling") /\ tx[w].op.kind = kind
Done(w) == tx' = [tx EXCEPT ![w] = NULL]
IsAdmin(w) == Exists(tx[w].user) /\ users[tx[w].user].role = "admin"

Me(w) == Asks(w, "me") /\ Done(w) /\ UNCHANGED <<users, sessions, now, guarded, opened>>

Logout(w) ==
  /\ Asks(w, "logout")
  /\ sessions' = [sessions EXCEPT ![tx[w].session] = GONE]
  /\ Done(w) /\ UNCHANGED <<users, now, guarded, opened>>

CreateUser(w) ==
  /\ Asks(w, "create") /\ IsAdmin(w)
  /\ users[tx[w].op.email] = NULL
  /\ users' = [users EXCEPT ![tx[w].op.email] =
                 [role |-> tx[w].op.role, active |-> tx[w].op.active, sub |-> NULL]]
  /\ Done(w) /\ UNCHANGED <<sessions, now, guarded, opened>>

(* update_user: role and is_active are NULL where the payload has none.    *)
OtherAdmin(e) == \E f \in Emails \ {e} : Exists(f) /\ users[f].role = "admin" (* faulty *)
OtherActiveAdmin(e) == \E f \in Emails \ {e} : ActiveAdmin(users, f)
DeactivatesSelf(w) == tx[w].op.active = FALSE /\ tx[w].op.email = tx[w].user
Given(new, old) == IF new = NULL THEN old ELSE new

DecidePatch(w) ==
  LET op == tx[w].op
  IN /\ Asks(w, "patch") /\ IsAdmin(w) /\ Exists(op.email)
     /\ DeactivatesSelf(w) /\ users[op.email].role = "admin" => OtherActiveAdmin(op.email)
     /\ tx' = [tx EXCEPT ![w] =
                 [step |-> "patching", op |-> op, user |-> tx[w].user, basis |-> users,
                  role |-> Given(op.role, users[op.email].role),
                  active |-> Given(op.active, users[op.email].active)]]
     /\ UNCHANGED <<users, sessions, now, guarded, opened>>

(* The UPDATE names the columns that differ from what was read.            *)
Changed(new, read, row) == IF new = read THEN row ELSE new

CommitPatch(w) ==
  LET t    == tx[w]
      read == t.basis[t.op.email]
  IN /\ At(w, "patching")
     /\ users' = [users EXCEPT ![t.op.email] =
                    [role |-> Changed(t.role, read.role, @.role),
                     active |-> Changed(t.active, read.active, @.active), sub |-> @.sub]]
     /\ guarded' = (/\ guarded
                    /\ \/ ~ActiveAdmin(users, t.op.email)
                       \/ ActiveAdmin(users', t.op.email)
                       \/ DeactivatesSelf(w) /\ t.basis = users)
     /\ Done(w) /\ UNCHANGED <<sessions, now, opened>>

-----------------------------------------------------------------------------
(* callback: the account is found by subject, or by address while it has   *)
(* no subject; create_session commits the link with the session.           *)
FoundBy(c) ==
  IF \E e \in Emails : Exists(e) /\ users[e].sub = c.sub
  THEN {e \in Emails : Exists(e) /\ users[e].sub = c.sub}
  ELSE {e \in Emails : e = c.email /\ Exists(e) /\ users[e].sub = NULL}

SignIn(w) ==
  \E c \in Claims : \E e \in FoundBy(c) :
    /\ tx[w] = NULL /\ users[e].active /\ Counted
    /\ tx' = [tx EXCEPT ![w] = [step |-> "signing", user |-> e, sub |-> c.sub,
                                link |-> users[e].sub = NULL]]
    /\ UNCHANGED <<users, sessions, now, guarded>>

(* The index on google_sub admits a subject once.                          *)
SubFree(w) == \A e \in Emails \ {tx[w].user} : Exists(e) => users[e].sub # tx[w].sub

CreateSession(w) ==
  \E i \in Sessions :
    /\ At(w, "signing") /\ sessions[i] = NULL
    /\ tx[w].link => SubFree(w)
    /\ sessions' = [sessions EXCEPT ![i] =
                      [user |-> tx[w].user, created |-> now, seen |-> now, expires |-> now + Idle]]
    /\ users' = [users EXCEPT ![tx[w].user].sub = IF tx[w].link THEN tx[w].sub ELSE @]
    /\ Done(w) /\ UNCHANGED <<now, guarded, opened>>

(* A request is refused, fails or loses its connection.                    *)
Abort(w) == tx[w] # NULL /\ Done(w) /\ UNCHANGED <<users, sessions, now, guarded, opened>>

(* A restart: bootstrap_admin acts when no account has the role.           *)
Restart ==
  /\ tx' = [w \in Workers |-> NULL]
  /\ users' = IF \E e \in Emails : Exists(e) /\ users[e].role = "admin" THEN users
              ELSE [users EXCEPT ![BOSS] =
                      IF @ = NULL THEN [role |-> "admin", active |-> TRUE, sub |-> NULL]
                      ELSE [@ EXCEPT !.role = "admin"]]
  /\ UNCHANGED <<sessions, now, guarded, opened>>

Tick == now < Horizon /\ now' = now + 1 /\ UNCHANGED <<users, sessions, tx, guarded, opened>>

Next ==
  \/ \E w \in Workers :
       \/ \E i \in Sessions, op \in Ops : Validate(w, i, op)
       \/ Compute(w) \/ Renew(w)
       \/ Me(w) \/ Logout(w) \/ CreateUser(w) \/ DecidePatch(w) \/ CommitPatch(w)
       \/ SignIn(w) \/ CreateSession(w) \/ Abort(w)
  \/ Restart \/ Tick

Spec == Init /\ [][Next]_vars

-----------------------------------------------------------------------------
(* Types, and the two limits of every session: it lapses Idle after it was *)
(* last seen and Absolute after it was created, however its renewals race. *)
SessionsBounded ==
  /\ users \in [Emails -> User \cup {NULL}]
  /\ sessions \in [Sessions -> Session \cup {NULL, GONE}]
  /\ \A i \in Sessions : Live(i) =>
       /\ sessions[i].created <= sessions[i].seen /\ sessions[i].seen <= now
       /\ sessions[i].expires <= sessions[i].seen + Idle
       /\ sessions[i].expires <= sessions[i].created + Absolute

(* A session that was signed out of never comes back, whatever renewals of *)
(* it were under way.                                                      *)
LogoutIsFinal == [][\A i \in Sessions : sessions[i] = GONE => sessions'[i] = GONE]_vars

(* The guard of the last administrator suffices while administrators take  *)
(* leave one at a time and by themselves: someone can always sign in who   *)
(* may manage the accounts.                                                *)
LastAdminStays == guarded => \E e \in Emails : ActiveAdmin(users, e)
=============================================================================
