------------------------------ MODULE MCAccess ------------------------------
(* A small instance of Access for TLC. *)
EXTENDS Access, TLC

CONSTANTS boss, ann, x, y

MCClaims == {[sub |-> x, email |-> boss], [sub |-> y, email |-> ann]}

MCOps ==
  {[kind |-> "me"], [kind |-> "logout"]}
  \cup [kind : {"create"}, email : {ann}, role : {"admin"}, active : BOOLEAN]
  \cup {[kind |-> "patch", email |-> e, role |-> NULL, active |-> a] : e \in Emails, a \in BOOLEAN}
  \cup {[kind |-> "patch", email |-> boss, role |-> "employee", active |-> NULL]}

(* Workers and sessions are interchangeable.                               *)
MCSymmetry == Permutations(Workers) \cup Permutations(Sessions)
=============================================================================
