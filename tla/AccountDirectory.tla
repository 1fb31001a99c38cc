------------------------- MODULE AccountDirectory -------------------------
(***************************************************************************)
(* What session admission promises about accounts, without queue, sockets  *)
(* or goroutines: an account-keyed directory of sessions.  This is the map *)
(* the comment of kickDuplicateAccountSessions holds the code to           *)
(* (engine/world/server.go:10660): each account has one session at a time, *)
(* a newer login takes the account over in one step, and a session that    *)
(* lost its account never gets one again.                                  *)
(***************************************************************************)
CONSTANTS Sessions, Accounts, NoSession

VARIABLES holder,  \* the session of each account, NoSession if it has none
          spent    \* sessions that have claimed an account

vars == <<holder, spent>>

Init ==
  /\ holder = [a \in Accounts |-> NoSession]
  /\ spent = {}

\* Session s logs in to account a, in the place of whoever held it.
Claim(a, s) ==
  /\ s \notin spent
  /\ holder' = [holder EXCEPT ![a] = s]
  /\ spent' = spent \cup {s}

\* The session of account a leaves or is kicked.
Release(a) ==
  /\ holder[a] # NoSession
  /\ holder' = [holder EXCEPT ![a] = NoSession]
  /\ UNCHANGED spent

Next == \E a \in Accounts : Release(a) \/ \E s \in Sessions : Claim(a, s)

Spec == Init /\ [][Next]_vars
===========================================================================
