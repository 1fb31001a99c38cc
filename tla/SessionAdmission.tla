------------------------- MODULE SessionAdmission -------------------------
(***************************************************************************)
(* World-server session admission: authentication handshake, replacement   *)
(* of a duplicate login, the login queue, promotion out of it, and the     *)
(* teardown of a connection (engine/world/server.go, movement.go).         *)
(*                                                                         *)
(* One element of Sessions is one TCP connection and the goroutine         *)
(* Server.Handle that serves it.  pc[s] is the place of that goroutine     *)
(* between two of its critical sections: every action below is one section *)
(* under Server.sessionsMu, one unguarded access to a shared field, or one *)
(* database statement whose effect another goroutine can observe.          *)
(***************************************************************************)
EXTENDS Naturals, FiniteSets, Sequences, SequencesExt

CONSTANTS Sessions,      \* connections, each used once
          Accounts,      \* account rows of the auth database
          NoAccount,     \* session.accountID = 0
          NoSession,     \* a nil *session
          PlayerLimit,   \* Server.playerLimit, 0 = unlimited
          Tolerance,     \* Config.DisconnectToleranceInterval > 0
          SkipQueue,     \* accounts holding permissionSkipQueue
          Events         \* the outside events an instance considers

ASSUME LimitAssumption == PlayerLimit \in Nat
ASSUME AccountAssumption == NoAccount \notin Accounts /\ NoSession \notin Sessions
ASSUME SkipAssumption == SkipQueue \subseteq Accounts /\ Tolerance \in BOOLEAN
ASSUME EventAssumption ==
  Events \subseteq {"drop", "refuse", "login", "kick", "sweep", "stop", "loadfail"}

VARIABLES
  pc,             \* where each connection's goroutine is
  conn,           \* the socket: "up", "dropped" by the client, "closed" by us
  login,          \* the account named by the CMSG_AUTH_SESSION being handled
  sessions,       \* Server.sessions
  queuedSessions, \* Server.queuedSessions
  accountID, authed, inQueue, superseded, playerLoading, \* session fields
  disconnectTimes,\* accounts with an entry in Server.disconnectTimes
  online,         \* accounts whose account.online column is 1
  stopStage,      \* Server.Stop: "open", "closed" (flag set), "swept" (sessions copied)
  pendingCloses,  \* connections Stop, kickSession or the idle sweep is about to close
  victims,        \* the duplicates a login has still to close
  promoted,       \* the queue head a promoter has popped
  wasQueued       \* removeSession's copy of inQueue

sessionFields == <<accountID, authed, inQueue, superseded, playerLoading>>
shared == <<sessions, queuedSessions, disconnectTimes, online, stopStage, pendingCloses>>
locals == <<login, victims, promoted, wasQueued>>
vars == <<pc, conn, sessionFields, shared, locals>>

\* Places at which the goroutine is inside handleAuthSession.
Handshaking == {"vetted", "claimed", "kicked", "authed", "marked", "gated",
                "enqueueing", "admitted"}
\* Places inside the deferred session.logout and Server.removeSession.
Leaving == {"leaving", "offline", "unlinking", "removing", "promoting",
            "fetching", "requeueing", "welcoming", "closing"}
Places == {"idle", "connected", "serving", "done"} \cup Handshaking \cup Leaving

TypeOK ==
  /\ pc \in [Sessions -> Places]
  /\ conn \in [Sessions -> {"up", "dropped", "closed"}]
  /\ login \in [Sessions -> Accounts \cup {NoAccount}]
  /\ accountID \in [Sessions -> Accounts \cup {NoAccount}]
  /\ authed \in [Sessions -> BOOLEAN]
  /\ inQueue \in [Sessions -> BOOLEAN]
  /\ superseded \in [Sessions -> BOOLEAN]
  /\ playerLoading \in [Sessions -> BOOLEAN]
  /\ sessions \subseteq Sessions
  /\ queuedSessions \in Seq(Sessions)
  /\ disconnectTimes \subseteq Accounts
  /\ online \subseteq Accounts
  /\ stopStage \in {"open", "closed", "swept"}
  /\ pendingCloses \subseteq Sessions
  /\ victims \in [Sessions -> SUBSET Sessions]
  /\ promoted \in [Sessions -> Sessions \cup {NoSession}]
  /\ wasQueued \in [Sessions -> BOOLEAN]

Init ==
  /\ pc = [s \in Sessions |-> "idle"]
  /\ conn = [s \in Sessions |-> "up"]
  /\ login = [s \in Sessions |-> NoAccount]
  /\ accountID = [s \in Sessions |-> NoAccount]
  /\ authed = [s \in Sessions |-> FALSE]
  /\ inQueue = [s \in Sessions |-> FALSE]
  /\ superseded = [s \in Sessions |-> FALSE]
  /\ playerLoading = [s \in Sessions |-> FALSE]
  /\ sessions = {}
  /\ queuedSessions = << >>
  /\ disconnectTimes = {}
  /\ online = {}
  /\ stopStage = "open"
  /\ pendingCloses = {}
  /\ victims = [s \in Sessions |-> {}]
  /\ promoted = [s \in Sessions |-> NoSession]
  /\ wasQueued = [s \in Sessions |-> FALSE]

Goto(s, place) == pc' = [pc EXCEPT ![s] = place]
At(s, place) == pc[s] = place

\* The writes of a locally closed socket fail; a peer that went away may or may
\* not have been noticed by the kernel.
WriteOutcomes(s) == CASE conn[s] = "up" -> {TRUE}
                      [] conn[s] = "dropped" -> BOOLEAN
                      [] conn[s] = "closed" -> {FALSE}

CloseAll(cs) == conn' = [c \in Sessions |-> IF c \in cs THEN "closed" ELSE conn[c]]

\* removeQueuedSessionLocked: the queue without its entry in D.  There is at most
\* one: entries are unique (QueueSound), and so is an account's registered
\* session (UniqueAccount), so the loop over duplicates splices once.
Splice(q, D) ==
  IF \E i \in DOMAIN q : q[i] \in D
    THEN RemoveAt(q, CHOOSE i \in DOMAIN q : q[i] \in D)
    ELSE q

-----------------------------------------------------------------------------
(* The connection and its read loop.                                        *)

\* Handle: addSession, deferred removeSession and logout, auth challenge.
Connect(s) ==
  /\ At(s, "idle")
  /\ Goto(s, "connected")
  /\ sessions' = sessions \cup {s}
  /\ UNCHANGED <<conn, sessionFields, queuedSessions, disconnectTimes, online,
                 stopStage, pendingCloses, locals>>

\* The client goes away: nothing is told until a read or a write fails.
ClientDrops(s) ==
  /\ "drop" \in Events
  /\ pc[s] \notin {"idle", "done"}
  /\ conn[s] = "up"
  /\ conn' = [conn EXCEPT ![s] = "dropped"]
  /\ UNCHANGED <<pc, sessionFields, shared, locals>>

\* ReadClientFrame fails on a dead socket.
ReadFails(s) ==
  /\ pc[s] \in {"connected", "serving"}
  /\ conn[s] # "up"
  /\ ~playerLoading[s]
  /\ Goto(s, "leaving")
  /\ UNCHANGED <<conn, sessionFields, shared, locals>>

\* A packet the dispatch or its handler answers with return, such as a second
\* CMSG_AUTH_SESSION.
PacketRefused(s) ==
  /\ "refuse" \in Events
  /\ At(s, "serving")
  /\ ~playerLoading[s] /\ conn[s] # "closed"
  /\ Goto(s, "leaving")
  /\ UNCHANGED <<conn, sessionFields, shared, locals>>

\* handleAuthSession up to the closed check: the packet names the account, and
\* any of the checks up to the security level may reject it.
ReceiveAuth(s) ==
  /\ At(s, "connected")
  /\ ~authed[s] /\ conn[s] # "closed"
  /\ \E a \in Accounts : login' = [login EXCEPT ![s] = a]
  /\ \/ /\ stopStage = "open"
        /\ Goto(s, "vetted")
     \/ Goto(s, "leaving")
  /\ UNCHANGED <<conn, sessionFields, shared, victims, promoted, wasQueued>>

-----------------------------------------------------------------------------
(* Duplicate logins: kickDuplicateAccountSessions.                          *)

Duplicates(s) == {d \in sessions : d # s /\ accountID[d] = login[s]}

\* The old session's player is still loading: the newcomer is kicked instead.
RejectNewLogin(s) ==
  /\ At(s, "vetted")
  /\ \E d \in Duplicates(s) : playerLoading[d]
  /\ CloseAll({s})
  /\ Goto(s, "leaving")
  /\ UNCHANGED <<sessionFields, shared, locals>>

\* Mutant: the claim is left to SetAuthed, so that overlapping logins miss it.
ClaimAccountLate(s) ==
  /\ At(s, "vetted")
  /\ \A d \in Duplicates(s) : ~playerLoading[d]
  /\ superseded' = [d \in Sessions |-> superseded[d] \/ d \in Duplicates(s)]
  /\ sessions' = sessions \ Duplicates(s)
  /\ queuedSessions' = Splice(queuedSessions, Duplicates(s))
  /\ victims' = [victims EXCEPT ![s] = Duplicates(s)]
  /\ Goto(s, "claimed")
  /\ UNCHANGED <<conn, accountID, authed, inQueue, playerLoading,
                 disconnectTimes, online, stopStage, pendingCloses, login,
                 promoted, wasQueued>>

\* Mutant: the old session stays registered until its own goroutine is done.
ClaimAccountKeepsOld(s) ==
  /\ At(s, "vetted")
  /\ \A d \in Duplicates(s) : ~playerLoading[d]
  /\ superseded' = [d \in Sessions |-> superseded[d] \/ d \in Duplicates(s)]
  /\ queuedSessions' = Splice(queuedSessions, Duplicates(s))
  /\ accountID' = [accountID EXCEPT ![s] = login[s]]
  /\ victims' = [victims EXCEPT ![s] = Duplicates(s)]
  /\ Goto(s, "claimed")
  /\ UNCHANGED <<conn, authed, inQueue, playerLoading, sessions,
                 disconnectTimes, online, stopStage, pendingCloses, login,
                 promoted, wasQueued>>

\* Scan, kick and claim in one write-locked section.
ClaimAccount(s) ==
  /\ At(s, "vetted")
  /\ \A d \in Duplicates(s) : ~playerLoading[d]
  /\ superseded' = [d \in Sessions |-> superseded[d] \/ d \in Duplicates(s)]
  /\ sessions' = sessions \ Duplicates(s)
  /\ queuedSessions' = Splice(queuedSessions, Duplicates(s))
  /\ accountID' = [accountID EXCEPT ![s] = login[s]]
  /\ victims' = [victims EXCEPT ![s] = Duplicates(s)]
  /\ Goto(s, "claimed")
  /\ UNCHANGED <<conn, authed, inQueue, playerLoading, disconnectTimes, online,
                 stopStage, pendingCloses, login, promoted, wasQueued>>

\* Mutant: the sockets of the replaced sessions are left open.
CloseDuplicatesForgets(s) ==
  /\ At(s, "claimed")
  /\ victims' = [victims EXCEPT ![s] = {}]
  /\ Goto(s, "kicked")
  /\ UNCHANGED <<conn, sessionFields, shared, login, promoted, wasQueued>>

\* After the unlock: the replaced connections are closed.
CloseDuplicates(s) ==
  /\ At(s, "claimed")
  /\ CloseAll(victims[s])
  /\ victims' = [victims EXCEPT ![s] = {}]
  /\ Goto(s, "kicked")
  /\ UNCHANGED <<sessionFields, shared, login, promoted, wasQueued>>

\* s.authed = true; s.accountID = account.ID.
SetAuthed(s) ==
  /\ At(s, "kicked")
  /\ authed' = [authed EXCEPT ![s] = TRUE]
  /\ accountID' = [accountID EXCEPT ![s] = login[s]]
  /\ Goto(s, "authed")
  /\ UNCHANGED <<conn, inQueue, superseded, playerLoading, shared, locals>>

\* LOGIN_UPD_ACCOUNT_ONLINE.
MarkOnline(s) ==
  /\ At(s, "authed")
  /\ online' = online \cup {accountID[s]}
  /\ Goto(s, "marked")
  /\ UNCHANGED <<conn, sessionFields, sessions, queuedSessions,
                 disconnectTimes, stopStage, pendingCloses, locals>>

-----------------------------------------------------------------------------
(* The login queue: checkQueue and initializeSession.                       *)

\* Every other authed session counts, active or queued.
AuthedOthers(s) == {o \in sessions : o # s /\ authed[o]}

\* checkQueue's count, under the read lock.
CountSessions(s) ==
  /\ At(s, "marked")
  /\ IF PlayerLimit = 0 \/ Cardinality(AuthedOthers(s)) < PlayerLimit
       THEN Goto(s, "admitted")
       ELSE Goto(s, "gated")
  /\ UNCHANGED <<conn, sessionFields, shared, locals>>

\* permissionSkipQueue and recentlyDisconnected let a login pass a full realm.
CheckSkips(s) ==
  /\ At(s, "gated")
  /\ IF accountID[s] \in SkipQueue \/ (Tolerance /\ accountID[s] \in disconnectTimes)
       THEN Goto(s, "admitted")
       ELSE Goto(s, "enqueueing")
  /\ UNCHANGED <<conn, sessionFields, shared, locals>>

\* checkQueue's append, under the write lock; the response's error is ignored.
Enqueue(s) ==
  /\ At(s, "enqueueing")
  /\ inQueue' = [inQueue EXCEPT ![s] = TRUE]
  /\ queuedSessions' = Append(queuedSessions, s)
  /\ Goto(s, "serving")
  /\ UNCHANGED <<conn, accountID, authed, superseded, playerLoading, sessions,
                 disconnectTimes, online, stopStage, pendingCloses, locals>>

\* initializeSession of p: inQueue is cleared only after the response is sent.
Initialize(p, sent) ==
  inQueue' = [inQueue EXCEPT ![p] = inQueue[p] /\ ~sent]

\* A login admitted at once: a failed write ends the connection.
InitializeSelf(s) ==
  /\ At(s, "admitted")
  /\ \E sent \in WriteOutcomes(s) :
       /\ Initialize(s, sent)
       /\ Goto(s, IF sent THEN "serving" ELSE "leaving")
  /\ UNCHANGED <<conn, accountID, authed, superseded, playerLoading, shared, locals>>

-----------------------------------------------------------------------------
(* The character login of a serving session, as far as admission sees it.   *)

\* handlePlayerLogin begins; the packet loop ignores it while inQueue.
BeginPlayerLogin(s) ==
  /\ "login" \in Events
  /\ At(s, "serving")
  /\ authed[s] /\ ~inQueue[s] /\ ~playerLoading[s] /\ conn[s] # "closed"
  /\ playerLoading' = [playerLoading EXCEPT ![s] = TRUE]
  /\ UNCHANGED <<pc, conn, accountID, authed, inQueue, superseded, shared, locals>>

\* handlePlayerLogin's deferred playerLoading = false; a failed login returns
\* false and leaves the read loop.
EndPlayerLogin(s) ==
  /\ playerLoading[s]
  /\ playerLoading' = [playerLoading EXCEPT ![s] = FALSE]
  /\ pc' \in {pc, [pc EXCEPT ![s] = "leaving"]}
  /\ UNCHANGED <<conn, accountID, authed, inQueue, superseded, shared, locals>>

-----------------------------------------------------------------------------
(* Teardown: the deferred logout, then removeSession.                       *)

\* completeLogoutWithPacket decides whether it owns the account's online flag.
LogoutDecides(s) ==
  /\ At(s, "leaving")
  /\ Goto(s, IF accountID[s] # NoAccount /\ ~superseded[s] THEN "offline" ELSE "unlinking")
  /\ UNCHANGED <<conn, sessionFields, shared, locals>>

\* UPDATE account SET online = 0.
MarkOffline(s) ==
  /\ At(s, "offline")
  /\ online' = online \ {accountID[s]}
  /\ Goto(s, "unlinking")
  /\ UNCHANGED <<conn, sessionFields, sessions, queuedSessions,
                 disconnectTimes, stopStage, pendingCloses, locals>>

\* removeSession reads inQueue before it takes the lock.
ReadWasQueued(s) ==
  /\ At(s, "unlinking")
  /\ wasQueued' = [wasQueued EXCEPT ![s] = inQueue[s]]
  /\ Goto(s, "removing")
  /\ UNCHANGED <<conn, sessionFields, shared, login, victims, promoted>>

\* Mutant: a queued session's disconnect is recorded like any other.
RemoveQueuedRecorded(s) ==
  /\ At(s, "removing") /\ wasQueued[s]
  /\ sessions' = sessions \ {s}
  /\ queuedSessions' = Splice(queuedSessions, {s})
  /\ disconnectTimes' = disconnectTimes \cup {accountID[s]}
  /\ Goto(s, "closing")
  /\ UNCHANGED <<conn, sessionFields, online, stopStage, pendingCloses, locals>>

\* removeSession of a queued session: unregister it, splice it out of the queue.
RemoveQueued(s) ==
  /\ At(s, "removing") /\ wasQueued[s]
  /\ sessions' = sessions \ {s}
  /\ queuedSessions' = Splice(queuedSessions, {s})
  /\ Goto(s, "closing")
  /\ UNCHANGED <<conn, sessionFields, disconnectTimes, online, stopStage, pendingCloses, locals>>

\* Mutant: a connection that never claimed an account is recorded too.
RemoveActiveUnchecked(s) ==
  /\ At(s, "removing") /\ ~wasQueued[s]
  /\ sessions' = sessions \ {s}
  /\ disconnectTimes' = disconnectTimes \cup {accountID[s]}
  /\ Goto(s, "promoting")
  /\ UNCHANGED <<conn, sessionFields, queuedSessions, online, stopStage,
                 pendingCloses, locals>>

\* removeSession of any other: record the disconnect, then promote.
RemoveActive(s) ==
  /\ At(s, "removing") /\ ~wasQueued[s]
  /\ sessions' = sessions \ {s}
  /\ disconnectTimes' = IF Tolerance /\ accountID[s] # NoAccount
                          THEN disconnectTimes \cup {accountID[s]}
                          ELSE disconnectTimes
  /\ Goto(s, "promoting")
  /\ UNCHANGED <<conn, sessionFields, queuedSessions, online, stopStage, pendingCloses, locals>>

-----------------------------------------------------------------------------
(* Promotion: promoteQueuedPlayers and tryPromoteQueueFront, run by the     *)
(* goroutine of a connection that is going away.                            *)

ActiveSessions == {o \in sessions : authed[o] /\ ~inQueue[o]}
SlotFree == PlayerLimit = 0 \/ Cardinality(ActiveSessions) < PlayerLimit

\* The queue is empty or the realm is full: the promotion loop ends.
PromotionEnds(s) ==
  /\ At(s, "promoting")
  /\ queuedSessions = << >> \/ ~SlotFree
  /\ Goto(s, "closing")
  /\ UNCHANGED <<conn, sessionFields, shared, locals>>

\* Mutant: the head is read under the lock but not removed.
PeekQueueFront(s) ==
  /\ At(s, "promoting")
  /\ queuedSessions # << >> /\ SlotFree
  /\ promoted' = [promoted EXCEPT ![s] = Head(queuedSessions)]
  /\ Goto(s, "fetching")
  /\ UNCHANGED <<conn, sessionFields, shared, login, victims, wasQueued>>

\* Pop the head and release the lock.
PopQueueFront(s) ==
  /\ At(s, "promoting")
  /\ queuedSessions # << >> /\ SlotFree
  /\ promoted' = [promoted EXCEPT ![s] = Head(queuedSessions)]
  /\ queuedSessions' = Tail(queuedSessions)
  /\ Goto(s, "fetching")
  /\ UNCHANGED <<conn, sessionFields, sessions, disconnectTimes, online, stopStage,
                 pendingCloses, login, victims, wasQueued>>

\* loadAccount for the popped session succeeds or fails.
LoadPromoted(s) ==
  /\ At(s, "fetching")
  /\ \/ Goto(s, "welcoming")
     \/ "loadfail" \in Events /\ Goto(s, "requeueing")
  /\ UNCHANGED <<conn, sessionFields, shared, locals>>

\* Mutant: a failed account load drops the popped session.
RequeueFrontDrops(s) ==
  /\ At(s, "requeueing")
  /\ promoted' = [promoted EXCEPT ![s] = NoSession]
  /\ Goto(s, "closing")
  /\ UNCHANGED <<conn, sessionFields, shared, login, victims, wasQueued>>

\* A failed account load puts the session back at the front and stops.
RequeueFront(s) ==
  /\ At(s, "requeueing")
  /\ queuedSessions' = <<promoted[s]>> \o queuedSessions
  /\ promoted' = [promoted EXCEPT ![s] = NoSession]
  /\ Goto(s, "closing")
  /\ UNCHANGED <<conn, sessionFields, sessions, disconnectTimes, online, stopStage,
                 pendingCloses, login, victims, wasQueued>>

\* promoted.initializeSession: its result is ignored, the loop goes on.
Welcome(s) ==
  /\ At(s, "welcoming")
  /\ \E sent \in WriteOutcomes(promoted[s]) : Initialize(promoted[s], sent)
  /\ promoted' = [promoted EXCEPT ![s] = NoSession]
  /\ Goto(s, "promoting")
  /\ UNCHANGED <<conn, accountID, authed, superseded, playerLoading, shared,
                 login, victims, wasQueued>>

-----------------------------------------------------------------------------
(* The end of Handle, and actors without a connection of their own.         *)

\* Handle's first deferred call runs last.
CloseOwnConnection(s) ==
  /\ At(s, "closing")
  /\ CloseAll({s})
  /\ Goto(s, "done")
  /\ UNCHANGED <<sessionFields, shared, locals>>

\* Mutant: the kicked session leaves the map and keeps its socket.
KickSessionLeavesSocket(t) ==
  /\ "kick" \in Events
  /\ t \in sessions
  /\ accountID[t] # NoAccount
  /\ sessions' = sessions \ {t}
  /\ UNCHANGED <<pc, conn, sessionFields, queuedSessions, disconnectTimes,
                 online, stopStage, pendingCloses, locals>>

\* kickSession, from the console, a ban or a script: out of the map at once, the
\* queue untouched; the socket is closed after the unlock.
KickSession(t) ==
  /\ "kick" \in Events
  /\ t \in sessions
  /\ accountID[t] # NoAccount
  /\ sessions' = sessions \ {t}
  /\ pendingCloses' = pendingCloses \cup {t}
  /\ UNCHANGED <<pc, conn, sessionFields, queuedSessions, disconnectTimes,
                 online, stopStage, locals>>

\* sweepIdleConnections picks an authed session that is not queued.
SweepIdle(t) ==
  /\ "sweep" \in Events
  /\ t \in sessions
  /\ authed[t] /\ ~inQueue[t]
  /\ pendingCloses' = pendingCloses \cup {t}
  /\ UNCHANGED <<pc, conn, sessionFields, sessions, queuedSessions,
                 disconnectTimes, online, stopStage, locals>>

\* Stop, first: no more logins.
StopBegins ==
  /\ "stop" \in Events
  /\ stopStage = "open"
  /\ stopStage' = "closed"
  /\ UNCHANGED <<pc, conn, sessionFields, sessions, queuedSessions,
                 disconnectTimes, online, pendingCloses, locals>>

\* Mutant: only authed sessions are copied, a handshake in progress is missed.
StopSnapshotAuthed ==
  /\ stopStage = "closed"
  /\ stopStage' = "swept"
  /\ pendingCloses' = pendingCloses \cup {s \in sessions : authed[s]}
  /\ UNCHANGED <<pc, conn, sessionFields, sessions, queuedSessions,
                 disconnectTimes, online, locals>>

\* Stop, then: the registered sessions are copied under the read lock.
StopSnapshot ==
  /\ stopStage = "closed"
  /\ stopStage' = "swept"
  /\ pendingCloses' = pendingCloses \cup sessions
  /\ UNCHANGED <<pc, conn, sessionFields, sessions, queuedSessions,
                 disconnectTimes, online, locals>>

\* The close that follows the unlock, one connection at a time.
ClosePending(t) ==
  /\ t \in pendingCloses
  /\ pendingCloses' = pendingCloses \ {t}
  /\ CloseAll({t})
  /\ UNCHANGED <<pc, sessionFields, sessions, queuedSessions, disconnectTimes,
                 online, stopStage, locals>>

\* The next step of the goroutine of s that needs nobody else.
Step(s) ==
  \/ ReadFails(s) \/ RejectNewLogin(s) \/ ClaimAccount(s) \/ CloseDuplicates(s)
  \/ SetAuthed(s) \/ MarkOnline(s) \/ CountSessions(s) \/ CheckSkips(s)
  \/ Enqueue(s) \/ InitializeSelf(s) \/ EndPlayerLogin(s)
  \/ LogoutDecides(s) \/ MarkOffline(s) \/ ReadWasQueued(s)
  \/ RemoveQueued(s) \/ RemoveActive(s) \/ PromotionEnds(s)
  \/ PopQueueFront(s) \/ LoadPromoted(s) \/ RequeueFront(s) \/ Welcome(s)
  \/ CloseOwnConnection(s)

\* What clients, operators and timers may do at any time.
Environment(s) ==
  \/ Connect(s) \/ ClientDrops(s) \/ ReceiveAuth(s) \/ PacketRefused(s)
  \/ BeginPlayerLogin(s) \/ KickSession(s) \/ SweepIdle(s)

Next ==
  \/ StopBegins \/ StopSnapshot
  \/ \E s \in Sessions : Step(s) \/ Environment(s) \/ ClosePending(s)

Spec == Init /\ [][Next]_vars

\* The Go scheduler runs every runnable goroutine, and reads, writes and
\* statements return; nothing forces a client or an operator to act.
FairSpec ==
  /\ Spec
  /\ WF_vars(StopSnapshot)
  /\ \A s \in Sessions : WF_vars(Step(s)) /\ WF_vars(ClosePending(s))

-----------------------------------------------------------------------------
(* Correctness.                                                             *)

\* One live session per account: Server.sessions never holds two connections
\* that claimed the same account, however the handshakes of overlapping logins
\* interleave with each other and with teardowns (kickDuplicateAccountSessions).
UniqueAccount ==
  \A s, t \in sessions : accountID[s] = accountID[t] /\ accountID[s] # NoAccount => s = t

\* Seen by account, Server.sessions is an account-keyed directory: the map
\* C++ keeps and kickDuplicateAccountSessions is to be indistinguishable from.
HolderOf(a) ==
  IF \E s \in sessions : accountID[s] = a
    THEN CHOOSE s \in sessions : accountID[s] = a
    ELSE NoSession
Directory == INSTANCE AccountDirectory
  WITH holder <- [a \in Accounts |-> HolderOf(a)],
       spent <- {s \in Sessions : accountID[s] # NoAccount}
ImplementsDirectory == Directory!Spec

\* The queue is sound: no session waits twice, every entry is still marked
\* inQueue, and a session in a promoter's hands is in no queue position and in
\* no other promoter's hands (checkQueue, tryPromoteQueueFront).
QueueSound ==
  /\ IsInjective(queuedSessions)
  /\ \A i \in DOMAIN queuedSessions : inQueue[queuedSessions[i]]
  /\ \A p \in Sessions : promoted[p] # NoSession =>
       /\ promoted[p] \notin ToSet(queuedSessions)
       /\ \A r \in Sessions : promoted[r] = promoted[p] => r = p

\* No waiter is forgotten: a registered session with a working socket that is
\* marked inQueue, whose packets the dispatch therefore ignores, is in the queue
\* or in the hands of a promoter, also when its account failed to load.
NoForgottenWaiter ==
  \A s \in sessions : inQueue[s] /\ conn[s] = "up" =>
     \/ s \in ToSet(queuedSessions)
     \/ \E p \in Sessions : promoted[p] = s

\* A queued login that drops earns no queue skip: removing a session records a
\* disconnect only for an account none of whose queued sessions is being removed.
QueuedDropEarnsNoSkip ==
  [][\A s \in ToSet(queuedSessions) :
       s \in sessions \ sessions' => accountID[s] \notin disconnectTimes' \ disconnectTimes]_vars

\* A replaced session leaves: once a newer login supersedes it, its goroutine
\* reaches the end of Handle, whatever it was doing.
SupersededLeaves ==
  \A s \in Sessions : superseded[s] ~> pc[s] = "done"

\* No session survives Stop: a login that had passed the closed check when the
\* flag was set is closed all the same.
StopDrains ==
  \A s \in Sessions : (stopStage # "open" /\ authed[s]) ~> pc[s] = "done"

\* Whose socket is closed, or will be by a goroutine that has let the lock go.
Condemned(s) ==
  \/ conn[s] = "closed"
  \/ s \in pendingCloses
  \/ \E t \in Sessions : At(t, "claimed") /\ s \in victims[t]

\* Nobody escapes: a connection inside the handshake or the read loop that the
\* session map has lost (replaced or kicked) is condemned, and once Stop has
\* copied the map so is every one of them, those included that were between the
\* closed check and SetAuthed when the flag was set.
NobodyEscapes ==
  \A s \in Sessions :
    /\ pc[s] \in Handshaking \cup {"serving"}
    /\ s \notin sessions \/ stopStage = "swept"
    => Condemned(s)

\* "While a slot is free the queue head is initialized": when no handshake and
\* no teardown is in progress, nobody waits for a slot that is free.
NoIdleSlot ==
  (\A s \in Sessions : pc[s] \in {"idle", "connected", "serving", "done"}) =>
     queuedSessions = << >> \/ ~SlotFree

\* The account of an accepted, registered session is marked online once no
\* connection of that account is in its teardown.
OnlineWhileServing ==
  \A s \in sessions :
    /\ pc[s] = "serving" /\ authed[s]
    /\ \A t \in Sessions \ {s} : accountID[t] = accountID[s] => pc[t] = "done"
    => accountID[s] \in online
=============================================================================
