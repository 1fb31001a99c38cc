---------------------- MODULE SessionAdmissionProofs ----------------------
(* Theorems about SessionAdmission, for any sets of connections and        *)
(* accounts, any player limit and any of the outside events.               *)
EXTENDS SessionAdmission, SequenceTheorems, TLAPS

LEMMA SpliceType ==
  ASSUME NEW S, NEW q \in Seq(S), NEW D
  PROVE  Splice(q, D) \in Seq(S)
<1>1. CASE \A i \in DOMAIN q : q[i] \notin D
  BY <1>1 DEF Splice
<1>2. CASE \E i \in DOMAIN q : q[i] \in D
  <2> DEFINE k == CHOOSE i \in DOMAIN q : q[i] \in D
  <2>1. k \in 1..Len(q)
    BY <1>2
  <2> HIDE DEF k
  <2>2. SubSeq(q, 1, k-1) \in Seq(S) /\ SubSeq(q, k+1, Len(q)) \in Seq(S)
    BY <2>1
  <2>3. SubSeq(q, 1, k-1) \o SubSeq(q, k+1, Len(q)) \in Seq(S)
    BY <2>2
  <2> QED  BY <1>2, <2>3 DEF Splice, RemoveAt, k
<1> QED  BY <1>1, <1>2

-----------------------------------------------------------------------------
(* The inductive invariant.  UniqueAccount is not inductive alone: a claim  *)
(* is safe because a goroutine that has not claimed yet has no account, and *)
(* one that has keeps the account it claimed until it is done.              *)

\* What the place of a goroutine says about the account it works for.
ClaimInv ==
  \A s \in Sessions :
    /\ pc[s] \in Handshaking => login[s] \in Accounts
    /\ pc[s] \in Handshaking \ {"vetted"} => accountID[s] = login[s]
    /\ pc[s] \in {"idle", "connected", "vetted"} => accountID[s] = NoAccount
    /\ pc[s] \in {"connected", "vetted"} => s \in sessions

\* A promoter holds a popped session exactly between the pop and its end.
PromoterInv ==
  \A s \in Sessions :
    pc[s] \in {"fetching", "requeueing", "welcoming"} <=> promoted[s] # NoSession

\* Only a serving goroutine is inside handlePlayerLogin.
LoadingInv == \A s \in Sessions : playerLoading[s] => pc[s] = "serving"

IInv == TypeOK /\ ClaimInv /\ PromoterInv /\ LoadingInv

LEMMA InitIInv == Init => IInv
BY AccountAssumption
DEF Init, IInv, TypeOK, ClaimInv, PromoterInv, LoadingInv, Places, Handshaking, Leaving

LEMMA NextIInv == IInv /\ [Next]_vars => IInv'
<1> SUFFICES ASSUME IInv, [Next]_vars
             PROVE  IInv'
  OBVIOUS
<1> USE AccountAssumption
    DEF IInv, TypeOK, ClaimInv, PromoterInv, LoadingInv, Places, Handshaking,
        Leaving, Goto, At, CloseAll, sessionFields, shared, locals
<1>1. CASE StopBegins
  BY <1>1 DEF StopBegins
<1>2. CASE StopSnapshot
  BY <1>2 DEF StopSnapshot
<1>3. CASE UNCHANGED vars
  BY <1>3 DEF vars
<1>4. ASSUME NEW s \in Sessions, Step(s) \/ Environment(s) \/ ClosePending(s)
      PROVE  IInv'
  <2>1. CASE Connect(s)
    BY <2>1 DEF Connect
  <2>2. CASE ClientDrops(s)
    BY <2>2 DEF ClientDrops
  <2>3. CASE ReadFails(s)
    BY <2>3 DEF ReadFails
  <2>4. CASE PacketRefused(s)
    BY <2>4 DEF PacketRefused
  <2>5. CASE ReceiveAuth(s)
    BY <2>5 DEF ReceiveAuth
  <2>6. CASE RejectNewLogin(s)
    BY <2>6 DEF RejectNewLogin, Duplicates
  <2>7. CASE ClaimAccount(s)
    BY <2>7, SpliceType DEF ClaimAccount, Duplicates
  <2>8. CASE CloseDuplicates(s)
    BY <2>8 DEF CloseDuplicates
  <2>9. CASE SetAuthed(s)
    BY <2>9 DEF SetAuthed
  <2>10. CASE MarkOnline(s)
    BY <2>10 DEF MarkOnline
  <2>11. CASE CountSessions(s)
    BY <2>11 DEF CountSessions
  <2>12. CASE CheckSkips(s)
    BY <2>12 DEF CheckSkips
  <2>13. CASE Enqueue(s)
    BY <2>13 DEF Enqueue
  <2>14. CASE InitializeSelf(s)
    BY <2>14 DEF InitializeSelf, Initialize, WriteOutcomes
  <2>15. CASE BeginPlayerLogin(s)
    BY <2>15 DEF BeginPlayerLogin
  <2>16. CASE EndPlayerLogin(s)
    BY <2>16 DEF EndPlayerLogin
  <2>17. CASE LogoutDecides(s)
    BY <2>17 DEF LogoutDecides
  <2>18. CASE MarkOffline(s)
    BY <2>18 DEF MarkOffline
  <2>19. CASE ReadWasQueued(s)
    BY <2>19 DEF ReadWasQueued
  <2>20. CASE RemoveQueued(s)
    BY <2>20, SpliceType DEF RemoveQueued
  <2>21. CASE RemoveActive(s)
    BY <2>21 DEF RemoveActive
  <2>22. CASE PromotionEnds(s)
    BY <2>22 DEF PromotionEnds, SlotFree
  <2>23. CASE PopQueueFront(s)
    BY <2>23 DEF PopQueueFront
  <2>24. CASE LoadPromoted(s)
    BY <2>24 DEF LoadPromoted
  <2>25. CASE RequeueFront(s)
    BY <2>25 DEF RequeueFront
  <2>26. CASE Welcome(s)
    BY <2>26 DEF Welcome, Initialize, WriteOutcomes
  <2>27. CASE CloseOwnConnection(s)
    BY <2>27 DEF CloseOwnConnection
  <2>28. CASE KickSession(s)
    BY <2>28 DEF KickSession
  <2>29. CASE SweepIdle(s)
    BY <2>29 DEF SweepIdle
  <2>30. CASE ClosePending(s)
    BY <2>30 DEF ClosePending
  <2> QED  BY <1>4, <2>1, <2>2, <2>3, <2>4, <2>5, <2>6, <2>7, <2>8, <2>9, <2>10, <2>11, <2>12, <2>13, <2>14, <2>15, <2>16, <2>17, <2>18, <2>19, <2>20, <2>21, <2>22, <2>23, <2>24, <2>25, <2>26, <2>27, <2>28, <2>29, <2>30
           DEF Step, Environment
<1> QED  BY <1>1, <1>2, <1>3, <1>4 DEF Next

\* Type correctness: every session field, the session map, the login queue and
\* the locals of every goroutine keep their type (engine/world/server.go).
THEOREM TypeCorrect == Spec => []TypeOK
<1>1. IInv => TypeOK
  BY DEF IInv
<1> QED  BY <1>1, InitIInv, NextIInv, PTL DEF Spec

-----------------------------------------------------------------------------
(* One session per account, and the account directory.                      *)

LEMMA NextUnique == IInv /\ UniqueAccount /\ [Next]_vars => UniqueAccount'
<1> SUFFICES ASSUME IInv, UniqueAccount, [Next]_vars
             PROVE  UniqueAccount'
  OBVIOUS
<1> USE AccountAssumption DEF IInv, TypeOK, ClaimInv, UniqueAccount, Handshaking
<1>1. CASE \E s \in Sessions : ClaimAccount(s)
  <2> PICK s \in Sessions : ClaimAccount(s)
    BY <1>1
  <2>1. /\ sessions' = sessions \ Duplicates(s)
        /\ accountID' = [accountID EXCEPT ![s] = login[s]]
    BY DEF ClaimAccount
  <2>2. \A t \in sessions' \ {s} : accountID'[t] = accountID[t] /\ accountID[t] # login[s]
    BY <2>1 DEF Duplicates
  <2> QED  BY <2>1, <2>2
<1>2. CASE \E s \in Sessions : Connect(s)
  BY <1>2 DEF Connect, At, sessionFields
<1>3. CASE \E s \in Sessions : SetAuthed(s)
  <2> PICK s \in Sessions : SetAuthed(s)
    BY <1>3
  <2>1. accountID' = accountID /\ sessions' = sessions
    BY DEF SetAuthed, At, shared
  <2> QED  BY <2>1
<1>4. CASE sessions' \subseteq sessions /\ accountID' = accountID
  BY <1>4
<1>5. ASSUME NEW s \in Sessions, Step(s) \/ Environment(s) \/ ClosePending(s)
      PROVE  \/ ClaimAccount(s) \/ Connect(s) \/ SetAuthed(s)
             \/ sessions' \subseteq sessions /\ accountID' = accountID
  BY <1>5 DEF Step, Environment, ClosePending, sessionFields, shared, locals,
    Connect, ClientDrops, ReadFails, PacketRefused, ReceiveAuth,
    RejectNewLogin, ClaimAccount, CloseDuplicates, SetAuthed, MarkOnline,
    CountSessions, CheckSkips, Enqueue, InitializeSelf, BeginPlayerLogin,
    EndPlayerLogin, LogoutDecides, MarkOffline, ReadWasQueued, RemoveQueued,
    RemoveActive, PromotionEnds, PopQueueFront, LoadPromoted, RequeueFront,
    Welcome, CloseOwnConnection, KickSession, SweepIdle, ClosePending
<1>6. CASE StopBegins \/ StopSnapshot
  BY <1>4, <1>6 DEF StopBegins, StopSnapshot, sessionFields
<1>7. CASE UNCHANGED vars
  BY <1>4, <1>7 DEF vars, shared, sessionFields
<1> QED  BY <1>1, <1>2, <1>3, <1>4, <1>5, <1>6, <1>7 DEF Next

\* However overlapping logins interleave, the session map never holds two
\* sessions of one account: the scan, the kick and the claim of
\* kickDuplicateAccountSessions are one section, and the claim precedes authed.
THEOREM OneSessionPerAccount == Spec => []UniqueAccount
<1>1. Init => UniqueAccount
  BY DEF Init, UniqueAccount
<1> QED  BY <1>1, InitIInv, NextIInv, NextUnique, PTL DEF Spec

LEMMA HolderIs ==
  ASSUME UniqueAccount, NEW s \in sessions, accountID[s] # NoAccount
  PROVE  HolderOf(accountID[s]) = s
BY DEF HolderOf, UniqueAccount

LEMMA HolderNone ==
  ASSUME NEW a, \A s \in sessions : accountID[s] # a
  PROVE  HolderOf(a) = NoSession
BY DEF HolderOf

\* An account with the same registered sessions has the same holder.
LEMMA HolderSame ==
  ASSUME IInv, IInv', UniqueAccount, UniqueAccount', NEW a \in Accounts,
         \A t \in Sessions : (t \in sessions' /\ accountID'[t] = a)
                               <=> (t \in sessions /\ accountID[t] = a)
  PROVE  HolderOf(a)' = HolderOf(a)
<1> USE AccountAssumption
<1>0. sessions \subseteq Sessions /\ sessions' \subseteq Sessions
  BY DEF IInv, TypeOK
<1>1. CASE \E t \in sessions : accountID[t] = a
  <2> PICK t \in sessions : accountID[t] = a
    BY <1>1
  <2>1. t \in sessions' /\ accountID'[t] = a
    BY <1>0
  <2>2. HolderOf(a) = t
    BY DEF HolderOf, UniqueAccount
  <2>3. HolderOf(a)' = t
    BY <2>1 DEF HolderOf, UniqueAccount
  <2> QED  BY <2>2, <2>3
<1>2. CASE ~ \E t \in sessions : accountID[t] = a
  <2>1. ~ \E t \in sessions' : accountID'[t] = a
    BY <1>0, <1>2
  <2> QED  BY <1>2, <2>1 DEF HolderOf
<1> QED  BY <1>1, <1>2

LEMMA NextDirectory ==
  IInv /\ IInv' /\ UniqueAccount /\ UniqueAccount' /\ [Next]_vars
    => [Directory!Next]_Directory!vars
<1> SUFFICES ASSUME IInv, IInv', UniqueAccount, UniqueAccount', [Next]_vars
             PROVE  [Directory!Next]_Directory!vars
  OBVIOUS
<1> DEFINE holder == [a \in Accounts |-> HolderOf(a)]
           spent == {s \in Sessions : accountID[s] # NoAccount}
<1> USE AccountAssumption
<1>0. sessions \subseteq Sessions
  BY DEF IInv, TypeOK
<1>1. ASSUME accountID' = accountID, sessions' = sessions
      PROVE  UNCHANGED Directory!vars
  BY <1>1, HolderSame DEF Directory!vars
<1>2. ASSUME NEW s \in sessions, accountID' = accountID, sessions' = sessions \ {s}
      PROVE  [Directory!Next]_Directory!vars
  <2>1. CASE accountID[s] = NoAccount
    <3>1. \A a \in Accounts : HolderOf(a)' = HolderOf(a)
      BY <1>0, <1>2, <2>1, HolderSame
    <3> QED  BY <1>2, <3>1 DEF Directory!vars
  <2>2. CASE accountID[s] # NoAccount
    <3> PICK b \in Accounts : b = accountID[s]
      BY <1>0, <2>2 DEF IInv, TypeOK
    <3>1. HolderOf(b) = s /\ s # NoSession
      BY <1>0, <2>2, HolderIs
    <3>2. HolderOf(b)' = NoSession
      BY <1>0, <1>2, <2>2 DEF HolderOf, UniqueAccount
    <3>3. \A a \in Accounts \ {b} : HolderOf(a)' = HolderOf(a)
      BY <1>0, <1>2, HolderSame
    <3>4. holder' = [holder EXCEPT ![b] = NoSession]
      BY <3>2, <3>3
    <3>5. Directory!Release(b)
      BY <1>2, <3>1, <3>4 DEF Directory!Release
    <3> QED  BY <3>1, <3>5 DEF Directory!Next
  <2> QED  BY <2>1, <2>2
<1>3. ASSUME NEW s \in Sessions, Connect(s)
      PROVE  UNCHANGED Directory!vars
  <2>1. accountID' = accountID /\ sessions' = sessions \cup {s} /\ accountID[s] = NoAccount
    BY <1>3 DEF Connect, At, sessionFields, IInv, ClaimInv
  <2>2. \A a \in Accounts : HolderOf(a)' = HolderOf(a)
    BY <1>0, <2>1, HolderSame
  <2> QED  BY <2>1, <2>2 DEF Directory!vars
<1>4. ASSUME NEW s \in Sessions, ClaimAccount(s)
      PROVE  Directory!Next
  <2> PICK b \in Accounts : b = login[s]
    BY <1>4 DEF ClaimAccount, At, IInv, ClaimInv, Handshaking
  <2>1. accountID[s] = NoAccount /\ s \in sessions
    BY <1>4 DEF ClaimAccount, At, IInv, ClaimInv, Handshaking
  <2>2. /\ sessions' = {t \in sessions : t = s \/ accountID[t] # b}
        /\ accountID' = [accountID EXCEPT ![s] = b]
    BY <1>4 DEF ClaimAccount, Duplicates
  <2>3. accountID \in [Sessions -> Accounts \cup {NoAccount}]
    BY DEF IInv, TypeOK
  <2>4. HolderOf(b)' = s
    <3>1. s \in sessions' /\ accountID'[s] = b
      BY <2>1, <2>2, <2>3
    <3>2. \A t \in sessions' : accountID'[t] = b => t = s
      BY <1>0, <2>1, <2>2, <2>3
    <3> QED  BY <3>1, <3>2 DEF HolderOf
  <2>5. \A a \in Accounts \ {b} : HolderOf(a)' = HolderOf(a)
    BY <1>0, <2>1, <2>2, <2>3, HolderSame
  <2>6. holder' = [holder EXCEPT ![b] = s]
    BY <2>4, <2>5
  <2>7. spent' = spent \cup {s} /\ s \notin spent
    BY <2>1, <2>2, <2>3
  <2>8. Directory!Claim(b, s)
    BY <2>6, <2>7 DEF Directory!Claim
  <2> QED  BY <2>1, <2>8 DEF Directory!Next
<1>5. ASSUME NEW s \in Sessions, Step(s) \/ Environment(s) \/ ClosePending(s)
      PROVE  \/ ClaimAccount(s) \/ Connect(s)
             \/ accountID' = accountID /\ (sessions' = sessions \/ sessions' = sessions \ {s})
  BY <1>5 DEF IInv, TypeOK, ClaimInv, Handshaking, At, Step, Environment,
    ClosePending, sessionFields, shared, locals,
    Connect, ClientDrops, ReadFails, PacketRefused, ReceiveAuth,
    RejectNewLogin, ClaimAccount, CloseDuplicates, SetAuthed, MarkOnline,
    CountSessions, CheckSkips, Enqueue, InitializeSelf, BeginPlayerLogin,
    EndPlayerLogin, LogoutDecides, MarkOffline, ReadWasQueued, RemoveQueued,
    RemoveActive, PromotionEnds, PopQueueFront, LoadPromoted, RequeueFront,
    Welcome, CloseOwnConnection, KickSession, SweepIdle, ClosePending
<1>6. CASE StopBegins \/ StopSnapshot
  BY <1>1, <1>6 DEF StopBegins, StopSnapshot, sessionFields
<1>7. CASE UNCHANGED vars
  BY <1>1, <1>7 DEF vars, shared, sessionFields
<1> QED  BY <1>1, <1>2, <1>3, <1>4, <1>5, <1>6, <1>7 DEF Next

\* Admission implements the account-keyed directory: every step claims one
\* account for a session that never held one, releases one, or changes nothing
\* a reader of the directory could see.
THEOREM AdmissionImplementsDirectory == Spec => ImplementsDirectory
<1>1. Init => Directory!Init /\ UniqueAccount
  BY DEF Init, Directory!Init, HolderOf, UniqueAccount
<1> QED  BY <1>1, InitIInv, NextIInv, NextUnique, NextDirectory, PTL
         DEF Spec, ImplementsDirectory, Directory!Spec
-----------------------------------------------------------------------------
(* Nobody escapes Stop, a kick or a newer login.                            *)

\* Who was inside the handshake or the read loop was so before the step, or has
\* just passed the closed check; the map loses nobody and Stop takes its copy of
\* it in a later step; and who was condemned stays so.
Untouched ==
  /\ \A t \in Sessions : pc'[t] \in Handshaking \cup {"serving"} =>
       pc[t] \in Handshaking \cup {"serving"}
  /\ sessions \subseteq sessions'
  /\ stopStage' = "swept" => stopStage = "swept"

LEMMA StaysCondemned ==
  ASSUME IInv, IInv', NEW t \in Sessions, Condemned(t), [Next]_vars
  PROVE  Condemned(t)'
<1> USE DEF IInv, TypeOK, Condemned, At, Goto, CloseAll
<1>1. ASSUME NEW s \in Sessions, CloseDuplicates(s)
      PROVE  Condemned(t)'
  BY <1>1 DEF CloseDuplicates, shared
<1>2. ASSUME NEW s \in Sessions, ClosePending(s)
      PROVE  Condemned(t)'
  BY <1>2 DEF ClosePending, locals
<1>3. ASSUME /\ \A c \in Sessions : conn[c] = "closed" => conn'[c] = "closed"
             /\ pendingCloses \subseteq pendingCloses'
             /\ \A c \in Sessions : At(c, "claimed") =>
                  pc'[c] = "claimed" /\ victims'[c] = victims[c]
      PROVE  Condemned(t)'
  BY <1>3
<1>4. ASSUME NEW s \in Sessions, Step(s) \/ Environment(s)
      PROVE  \/ CloseDuplicates(s)
             \/ /\ \A c \in Sessions : conn[c] = "closed" => conn'[c] = "closed"
                /\ pendingCloses \subseteq pendingCloses'
                /\ \A c \in Sessions : At(c, "claimed") =>
                     pc'[c] = "claimed" /\ victims'[c] = victims[c]
  <2> USE DEF LoadingInv, sessionFields, shared, locals
  <2>1. CASE Step(s)
    BY <2>1 DEF Step,
      ReadFails, RejectNewLogin, ClaimAccount, CloseDuplicates, SetAuthed, MarkOnline,
      CountSessions, CheckSkips, Enqueue, InitializeSelf, EndPlayerLogin,
      LogoutDecides, MarkOffline, ReadWasQueued, RemoveQueued, RemoveActive,
      PromotionEnds, PopQueueFront, LoadPromoted, RequeueFront, Welcome,
      CloseOwnConnection
  <2>2. CASE Environment(s)
    BY <2>2 DEF Environment, Connect, ClientDrops, ReceiveAuth, PacketRefused,
      BeginPlayerLogin, KickSession, SweepIdle
  <2> QED  BY <1>4, <2>1, <2>2
<1>5. CASE StopBegins \/ StopSnapshot
  BY <1>3, <1>5 DEF StopBegins, StopSnapshot, locals
<1>6. CASE UNCHANGED vars
  BY <1>3, <1>6 DEF vars, shared, locals
<1> QED  BY <1>1, <1>2, <1>3, <1>4, <1>5, <1>6 DEF Next

LEMMA NextEscapes == IInv /\ IInv' /\ NobodyEscapes /\ [Next]_vars => NobodyEscapes'
<1> SUFFICES ASSUME IInv, IInv', NobodyEscapes, [Next]_vars,
                    NEW t \in Sessions,
                    pc'[t] \in Handshaking \cup {"serving"},
                    t \notin sessions' \/ stopStage' = "swept"
             PROVE  Condemned(t)'
  BY DEF NobodyEscapes
<1>1. CASE Untouched
  BY <1>1, StaysCondemned DEF Untouched, NobodyEscapes
<1>2. ASSUME NEW s \in Sessions, ClaimAccount(s)
      PROVE  Condemned(t)'
  <2>1. /\ sessions' = sessions \ Duplicates(s) /\ stopStage' = stopStage
        /\ victims'[s] = Duplicates(s) /\ pc' = [pc EXCEPT ![s] = "claimed"]
        /\ At(s, "vetted")
    BY <1>2 DEF ClaimAccount, Goto, At, IInv, TypeOK
  <2>2. pc'[s] = "claimed"
    BY <2>1 DEF IInv, TypeOK
  <2>3. CASE t \in Duplicates(s)
    BY <2>1, <2>2, <2>3 DEF Condemned, At
  <2>4. CASE t \notin Duplicates(s)
    <3>1. pc[t] \in Handshaking \cup {"serving"}
      BY <2>1 DEF At, Handshaking, IInv, TypeOK
    <3> QED  BY <2>1, <2>4, <3>1, StaysCondemned DEF NobodyEscapes
  <2> QED  BY <2>3, <2>4
<1>3. ASSUME NEW s \in Sessions, KickSession(s)
      PROVE  Condemned(t)'
  <2>1. /\ sessions' = sessions \ {s} /\ pendingCloses' = pendingCloses \cup {s}
        /\ pc' = pc /\ stopStage' = stopStage
    BY <1>3 DEF KickSession
  <2>2. CASE t = s
    BY <2>1, <2>2 DEF Condemned
  <2>3. CASE t # s
    BY <2>1, <2>3, StaysCondemned DEF NobodyEscapes
  <2> QED  BY <2>2, <2>3
<1>4. ASSUME NEW s \in Sessions, ReceiveAuth(s)
      PROVE  Condemned(t)'
  <2>1. /\ sessions' = sessions /\ stopStage' = stopStage
        /\ At(s, "connected") /\ s \in sessions
    BY <1>4 DEF ReceiveAuth, shared, At, IInv, ClaimInv
  <2>2. \/ pc' = [pc EXCEPT ![s] = "vetted"] /\ stopStage = "open"
        \/ pc' = [pc EXCEPT ![s] = "leaving"]
    BY <1>4 DEF ReceiveAuth, Goto
  <2>3. t # s
    BY <2>1, <2>2 DEF Handshaking, IInv, TypeOK
  <2>4. pc'[t] = pc[t]
    BY <2>2, <2>3 DEF IInv, TypeOK
  <2> QED  BY <2>1, <2>4, StaysCondemned DEF NobodyEscapes
<1>5. ASSUME NEW s \in Sessions, RemoveQueued(s) \/ RemoveActive(s)
      PROVE  Condemned(t)'
  <2>1. /\ sessions' = sessions \ {s} /\ stopStage' = stopStage
        /\ pc' = [pc EXCEPT ![s] = "closing"] \/ pc' = [pc EXCEPT ![s] = "promoting"]
    BY <1>5 DEF RemoveQueued, RemoveActive, Goto
  <2>2. t # s /\ pc'[t] = pc[t]
    BY <2>1 DEF Handshaking, IInv, TypeOK
  <2> QED  BY <2>1, <2>2, StaysCondemned DEF NobodyEscapes
<1>6. CASE StopSnapshot
  <2>1. pendingCloses' = pendingCloses \cup sessions /\ pc' = pc /\ sessions' = sessions
    BY <1>6 DEF StopSnapshot
  <2>2. CASE t \in sessions
    BY <2>1, <2>2 DEF Condemned
  <2>3. CASE t \notin sessions
    BY <2>1, <2>3, StaysCondemned DEF NobodyEscapes
  <2> QED  BY <2>2, <2>3
<1>7. ASSUME NEW s \in Sessions, Step(s) \/ Environment(s) \/ ClosePending(s)
      PROVE  \/ ClaimAccount(s) \/ KickSession(s) \/ ReceiveAuth(s)
             \/ RemoveQueued(s) \/ RemoveActive(s) \/ Untouched
  <2> USE DEF Untouched, IInv, TypeOK, LoadingInv, Handshaking, At, Goto,
              sessionFields, shared, locals
  <2>1. CASE Step(s)
    BY <2>1 DEF Step,
      ReadFails, RejectNewLogin, CloseDuplicates, SetAuthed, MarkOnline,
      CountSessions, CheckSkips, Enqueue, InitializeSelf, EndPlayerLogin,
      LogoutDecides, MarkOffline, ReadWasQueued,
      PromotionEnds, PopQueueFront, LoadPromoted, RequeueFront, Welcome,
      CloseOwnConnection
  <2>2. CASE Environment(s)
    BY <2>2 DEF Environment, Connect, ClientDrops, PacketRefused,
      BeginPlayerLogin, SweepIdle
  <2>3. CASE ClosePending(s)
    BY <2>3 DEF ClosePending
  <2> QED  BY <1>7, <2>1, <2>2, <2>3
<1>8. CASE StopBegins
  BY <1>1, <1>8 DEF StopBegins, Untouched
<1>9. CASE UNCHANGED vars
  BY <1>1, <1>9 DEF vars, shared, Untouched
<1> QED  BY <1>1, <1>2, <1>3, <1>4, <1>5, <1>6, <1>7, <1>8, <1>9 DEF Next

\* However a login overlaps with Stop, with a kick or with the next login of its
\* account, it does not go on unnoticed: kickDuplicateAccountSessions, kickSession
\* and Stop each hand the sockets they are to close out of the locked section, and
\* handleAuthSession's closed check precedes its duplicate scan.
THEOREM NobodyEscapesTheMap == Spec => []NobodyEscapes
<1>1. Init => NobodyEscapes
  BY DEF Init, NobodyEscapes, Handshaking
<1> QED  BY <1>1, InitIInv, NextIInv, NextEscapes, PTL DEF Spec
===========================================================================
