------------------------ MODULE SessionQueueProofs ------------------------
(* Theorems about the login queue of SessionAdmission.                      *)
EXTENDS SessionAdmissionProofs

-----------------------------------------------------------------------------
(* The four changes the code makes to the queue, for a queue without        *)
(* repetitions.                                                             *)

LEMMA SpliceProperties ==
  ASSUME NEW S, NEW q \in Seq(S), NEW D, IsInjective(q)
  PROVE  /\ IsInjective(Splice(q, D))
         /\ ToSet(Splice(q, D)) \subseteq ToSet(q)
         /\ \A x \in ToSet(q) : x \notin D => x \in ToSet(Splice(q, D))
         /\ \A x : ~(x \in ToSet(Splice(q, {x})))
<1>1. ASSUME NEW E, \A i \in DOMAIN q : q[i] \notin E
      PROVE  Splice(q, E) = q
  BY <1>1 DEF Splice
<1>2. ASSUME NEW E, \E i \in DOMAIN q : q[i] \in E
      PROVE  \E k \in 1..Len(q) :
               /\ q[k] \in E
               /\ Splice(q, E) \in Seq(S)
               /\ Len(Splice(q, E)) = Len(q) - 1
               /\ \A i \in 1..(Len(q)-1) :
                    Splice(q, E)[i] = IF i < k THEN q[i] ELSE q[i+1]
  <2> DEFINE k == CHOOSE i \in DOMAIN q : q[i] \in E
  <2>1. k \in 1..Len(q) /\ q[k] \in E
    BY <1>2
  <2>2. Splice(q, E) = SubSeq(q, 1, k-1) \o SubSeq(q, k+1, Len(q))
    BY <1>2 DEF Splice, RemoveAt
  <2> HIDE DEF k
  <2> DEFINE u == SubSeq(q, 1, k-1)
             v == SubSeq(q, k+1, Len(q))
  <2>3. u \in Seq(S) /\ Len(u) = k - 1 /\ \A i \in 1..(k-1) : u[i] = q[i]
    <3>1. \A i \in 1..(k-1) : q[i] \in S
      BY <2>1
    <3>2. k-1 \in Int /\ (k-1)-1+1 = k-1 /\ \A i \in 1..(k-1) : 1+i-1 = i
      BY <2>1
    <3>3. /\ SubSeq(q, 1, k-1) \in Seq(S)
          /\ Len(SubSeq(q, 1, k-1)) = IF 1 <= k-1 THEN (k-1)-1+1 ELSE 0
          /\ \A i \in 1..((k-1)-1+1) : SubSeq(q, 1, k-1)[i] = q[1+i-1]
      BY <3>1, <3>2, SubSeqProperties
    <3>4. ASSUME NEW i \in 1..(k-1)
          PROVE  SubSeq(q, 1, k-1)[i] = q[i]
      <4>1. i \in 1..((k-1)-1+1) /\ 1+i-1 = i
        BY <2>1
      <4> QED  BY <3>3, <4>1
    <3>5. (IF 1 <= k-1 THEN (k-1)-1+1 ELSE 0) = k-1
      BY <2>1
    <3> QED  BY <3>3, <3>4, <3>5
  <2>4. v \in Seq(S) /\ Len(v) = Len(q) - k /\ \A i \in 1..(Len(q)-k) : v[i] = q[k+i]
    <3>1. \A i \in (k+1)..Len(q) : q[i] \in S
      BY <2>1
    <3>2. /\ k+1 \in Int /\ Len(q) \in Int /\ Len(q)-(k+1)+1 = Len(q)-k
          /\ \A i \in 1..(Len(q)-k) : (k+1)+i-1 = k+i
      BY <2>1
    <3>3. /\ SubSeq(q, k+1, Len(q)) \in Seq(S)
          /\ Len(SubSeq(q, k+1, Len(q))) = IF k+1 <= Len(q) THEN Len(q)-(k+1)+1 ELSE 0
          /\ \A i \in 1..(Len(q)-(k+1)+1) : SubSeq(q, k+1, Len(q))[i] = q[(k+1)+i-1]
      BY <3>1, <3>2, SubSeqProperties
    <3>4. ASSUME NEW i \in 1..(Len(q)-k)
          PROVE  SubSeq(q, k+1, Len(q))[i] = q[k+i]
      <4>1. i \in 1..(Len(q)-(k+1)+1) /\ (k+1)+i-1 = k+i
        BY <2>1
      <4> QED  BY <3>3, <4>1
    <3>5. (IF k+1 <= Len(q) THEN Len(q)-(k+1)+1 ELSE 0) = Len(q)-k
      BY <2>1
    <3> QED  BY <3>3, <3>4, <3>5
  <2> HIDE DEF u, v
  <2>5. /\ u \o v \in Seq(S)
        /\ Len(u \o v) = Len(q) - 1
        /\ \A i \in 1..(Len(q)-1) :
             (u \o v)[i] = IF i <= k-1 THEN u[i] ELSE v[i - (k-1)]
    <3>1. (k-1) + (Len(q)-k) = Len(q)-1
      BY <2>1
    <3>2. /\ u \o v \in Seq(S)
          /\ Len(u \o v) = Len(u) + Len(v)
          /\ \A i \in 1..(Len(u)+Len(v)) :
               (u \o v)[i] = IF i <= Len(u) THEN u[i] ELSE v[i - Len(u)]
      BY <2>3, <2>4, ConcatProperties
    <3>3. Len(u \o v) = Len(q) - 1
      BY <2>3, <2>4, <3>1, <3>2
    <3>4. \A i \in 1..(Len(q)-1) :
            (u \o v)[i] = IF i <= k-1 THEN u[i] ELSE v[i - (k-1)]
      BY <2>3, <2>4, <3>1, <3>2
    <3> QED  BY <3>2, <3>3, <3>4
  <2>6. ASSUME NEW i \in 1..(Len(q)-1)
        PROVE  (u \o v)[i] = IF i < k THEN q[i] ELSE q[i+1]
    <3>1. CASE i < k
      <4>1. i \in 1..(k-1) /\ i <= k-1
        BY <2>1, <3>1
      <4> QED  BY <2>3, <2>5, <3>1, <4>1
    <3>2. CASE i >= k
      <4>1. i - (k-1) \in 1..(Len(q)-k) /\ k + (i - (k-1)) = i+1
        BY <2>1, <3>2
      <4>2. (u \o v)[i] = v[i - (k-1)]
        BY <2>1, <2>5, <3>2
      <4>3. v[i - (k-1)] = q[i+1]
        BY <2>4, <4>1
      <4> QED  BY <2>1, <3>2, <4>2, <4>3
    <3>3. i < k \/ i >= k
      BY <2>1
    <3> QED  BY <3>1, <3>2, <3>3
  <2>7. Splice(q, E) = u \o v
    BY <2>2 DEF u, v
  <2> QED  BY <2>1, <2>5, <2>6, <2>7
<1>3. ASSUME NEW E
      PROVE  /\ IsInjective(Splice(q, E))
             /\ ToSet(Splice(q, E)) \subseteq ToSet(q)
             /\ \A x \in ToSet(q) : x \notin E => x \in ToSet(Splice(q, E))
             /\ \A x : E = {x} => x \notin ToSet(Splice(q, E))
  <2>1. CASE \A i \in DOMAIN q : q[i] \notin E
    BY <1>1, <2>1 DEF ToSet
  <2>2. CASE \E i \in DOMAIN q : q[i] \in E
    <3> DEFINE r == Splice(q, E)
    <3>1. PICK k \in 1..Len(q) :
            /\ q[k] \in E
            /\ r \in Seq(S)
            /\ Len(r) = Len(q) - 1
            /\ \A i \in 1..(Len(q)-1) : r[i] = IF i < k THEN q[i] ELSE q[i+1]
      BY <1>2, <2>2
    <3> HIDE DEF r
    <3> DEFINE f(i) == IF i < k THEN i ELSE i+1
    <3>2. DOMAIN r = 1..(Len(q)-1) /\ DOMAIN q = 1..Len(q)
      BY <3>1
    <3>3. \A i \in DOMAIN r : f(i) \in DOMAIN q /\ f(i) # k /\ r[i] = q[f(i)]
      BY <3>1, <3>2
    <3>4. \A i, j \in DOMAIN r : f(i) = f(j) => i = j
      BY <3>1, <3>2
    <3>5. \A n \in DOMAIN q : n # k => \E i \in DOMAIN r : f(i) = n
      <4> SUFFICES ASSUME NEW n \in DOMAIN q, n # k
                   PROVE  \E i \in DOMAIN r : f(i) = n
        OBVIOUS
      <4>1. CASE n < k
        BY <3>1, <3>2, <4>1
      <4>2. CASE n > k
        <5>1. n-1 \in DOMAIN r /\ f(n-1) = n
          BY <3>1, <3>2, <4>2
        <5> QED  BY <5>1
      <4> QED  BY <3>1, <3>2, <4>1, <4>2
    <3> HIDE DEF f
    <3>6. IsInjective(r) /\ ToSet(r) \subseteq ToSet(q)
      BY <3>3, <3>4 DEF IsInjective, ToSet
    <3>7. \A x \in ToSet(q) : x \notin E => x \in ToSet(r)
      BY <3>1, <3>3, <3>5 DEF ToSet
    <3>8. \A x : E = {x} => x \notin ToSet(r)
      BY <3>1, <3>2, <3>3 DEF IsInjective, ToSet
    <3> QED  BY <3>6, <3>7, <3>8 DEF r
  <2> QED  BY <2>1, <2>2
<1> QED  BY <1>3

LEMMA AppendQueue ==
  ASSUME NEW S, NEW q \in Seq(S), NEW x \in S, IsInjective(q), x \notin ToSet(q)
  PROVE  /\ IsInjective(Append(q, x))
         /\ ToSet(Append(q, x)) = ToSet(q) \cup {x}
BY AppendProperties DEF IsInjective, ToSet

LEMMA PrependQueue ==
  ASSUME NEW S, NEW q \in Seq(S), NEW x \in S, IsInjective(q), x \notin ToSet(q)
  PROVE  /\ IsInjective(<<x>> \o q)
         /\ ToSet(<<x>> \o q) = ToSet(q) \cup {x}
<1>1. /\ Len(<<x>> \o q) = Len(q) + 1
      /\ \A i \in 1..(Len(q)+1) : (<<x>> \o q)[i] = IF i = 1 THEN x ELSE q[i-1]
  BY ConcatProperties
<1> DEFINE r == <<x>> \o q
<1>2. DOMAIN r = 1..(Len(q)+1) /\ DOMAIN q = 1..Len(q) /\ r[1] = x
  BY <1>1
<1>3. \A i \in DOMAIN q : i+1 \in DOMAIN r /\ r[i+1] = q[i]
  BY <1>1, <1>2
<1>4. \A i \in DOMAIN r : i # 1 => i-1 \in DOMAIN q /\ r[i] = q[i-1]
  BY <1>1, <1>2
<1> HIDE DEF r
<1>5. ToSet(r) = ToSet(q) \cup {x}
  BY <1>2, <1>3, <1>4 DEF ToSet
<1>6. ASSUME NEW i \in DOMAIN r, NEW j \in DOMAIN r, r[i] = r[j]
      PROVE  i = j
  <2>1. CASE i = 1 \/ j = 1
    BY <1>2, <1>4, <1>6, <2>1 DEF ToSet
  <2>2. CASE i # 1 /\ j # 1
    <3>1. i-1 = j-1
      BY <1>4, <1>6, <2>2 DEF IsInjective
    <3> QED  BY <1>2, <3>1
  <2> QED  BY <2>1, <2>2
<1> QED  BY <1>5, <1>6 DEF IsInjective, r

LEMMA TailQueue ==
  ASSUME NEW S, NEW q \in Seq(S), IsInjective(q), q # << >>
  PROVE  /\ IsInjective(Tail(q))
         /\ ToSet(Tail(q)) = ToSet(q) \ {Head(q)}
         /\ Head(q) \in ToSet(q)
<1>1. /\ Len(q) >= 1 /\ Head(q) = q[1] /\ Tail(q) \in Seq(S) /\ Len(Tail(q)) = Len(q) - 1
      /\ \A i \in 1..(Len(q)-1) : Tail(q)[i] = q[i+1]
  BY HeadTailProperties
<1> DEFINE r == Tail(q)
<1>2. DOMAIN r = 1..(Len(q)-1) /\ DOMAIN q = 1..Len(q) /\ 1 \in DOMAIN q
  BY <1>1
<1>3. \A i \in DOMAIN r : i+1 \in DOMAIN q /\ r[i] = q[i+1]
  BY <1>1, <1>2
<1>4. \A i \in DOMAIN q : i # 1 => i-1 \in DOMAIN r /\ q[i] = r[i-1]
  <2> SUFFICES ASSUME NEW i \in DOMAIN q, i # 1
               PROVE  i-1 \in DOMAIN r /\ q[i] = r[i-1]
    OBVIOUS
  <2>1. i-1 \in 1..(Len(q)-1) /\ (i-1)+1 = i
    BY <1>1, <1>2
  <2> QED  BY <1>1, <1>2, <2>1
<1> HIDE DEF r
<1>5. IsInjective(r)
  <2> SUFFICES ASSUME NEW i \in DOMAIN r, NEW j \in DOMAIN r, r[i] = r[j]
               PROVE  i = j
    BY DEF IsInjective
  <2>1. i+1 = j+1
    BY <1>3 DEF IsInjective
  <2> QED  BY <1>2, <2>1
<1>6. Head(q) \in ToSet(q)
  BY <1>1, <1>2 DEF ToSet
<1>7. \A i \in DOMAIN r : r[i] # Head(q)
  <2> SUFFICES ASSUME NEW i \in DOMAIN r, r[i] = Head(q)
               PROVE  FALSE
    OBVIOUS
  <2>1. i+1 = 1
    BY <1>1, <1>2, <1>3 DEF IsInjective
  <2> QED  BY <1>2, <2>1
<1>8. ToSet(r) = ToSet(q) \ {Head(q)}
  BY <1>1, <1>2, <1>3, <1>4, <1>7 DEF ToSet
<1> QED  BY <1>5, <1>6, <1>8 DEF r

-----------------------------------------------------------------------------
(* The inductive invariant of the queue.                                    *)

\* A session in a promoter's hands is still marked inQueue.
HeldInv ==
  \A p \in Sessions : promoted[p] # NoSession => inQueue[promoted[p]]

\* inQueue is clear until the session's own goroutine enqueues it, and stays
\* clear once removeSession has read it clear.
FreshInv ==
  \A s \in Sessions :
    /\ pc[s] \in {"idle", "connected"} \cup Handshaking => ~inQueue[s]
    /\ pc[s] = "removing" /\ ~wasQueued[s] => ~inQueue[s]

QInv == QueueSound /\ HeldInv /\ FreshInv

\* The part of QueueSound that leaves the shape of the queue to the lemmas.
LEMMA QueueEntries ==
  QueueSound <=>
    /\ IsInjective(queuedSessions)
    /\ \A x \in ToSet(queuedSessions) : inQueue[x]
    /\ \A p \in Sessions : promoted[p] # NoSession =>
         /\ promoted[p] \notin ToSet(queuedSessions)
         /\ \A r \in Sessions : promoted[r] = promoted[p] => r = p
BY DEF QueueSound, ToSet

LEMMA NextQueue == IInv /\ QInv /\ [Next]_vars => QInv'
<1> SUFFICES ASSUME IInv, QInv, [Next]_vars
             PROVE  QInv'
  OBVIOUS
<1> DEFINE Entries == ToSet(queuedSessions)
<1>0. /\ IsInjective(queuedSessions) /\ queuedSessions \in Seq(Sessions)
      /\ \A x \in Entries : inQueue[x]
      /\ \A p \in Sessions : promoted[p] # NoSession =>
           /\ promoted[p] \notin Entries
           /\ \A r \in Sessions : promoted[r] = promoted[p] => r = p
      /\ Entries \subseteq Sessions
  BY QueueEntries DEF QInv, IInv, TypeOK, ToSet
<1> DEFINE Sound ==
      /\ IsInjective(queuedSessions)
      /\ \A x \in Entries : inQueue[x]
      /\ \A p \in Sessions : promoted[p] # NoSession =>
           /\ promoted[p] \notin Entries
           /\ \A r \in Sessions : promoted[r] = promoted[p] => r = p
<1>q. Sound' => QueueSound'
  BY QueueEntries, PTL
<1> USE AccountAssumption
<1>1. ASSUME UNCHANGED <<queuedSessions, promoted, inQueue>>
      PROVE  QueueSound' /\ HeldInv'
  BY <1>1 DEF QInv, QueueSound, HeldInv
<1>2. ASSUME NEW s \in Sessions, Enqueue(s)
      PROVE  QInv'
  <2>1. /\ inQueue' = [inQueue EXCEPT ![s] = TRUE] /\ promoted' = promoted
        /\ queuedSessions' = Append(queuedSessions, s)
        /\ pc' = [pc EXCEPT ![s] = "serving"] /\ wasQueued' = wasQueued
        /\ ~inQueue[s]
    BY <1>2 DEF Enqueue, locals, Goto, At, QInv, FreshInv, Handshaking
  <2>2. s \notin Entries /\ \A p \in Sessions : promoted[p] # s
    BY <1>0, <2>1 DEF QInv, HeldInv
  <2>3. IsInjective(queuedSessions') /\ Entries' = Entries \cup {s}
    BY <1>0, <2>1, <2>2, AppendQueue
  <2>4. inQueue \in [Sessions -> BOOLEAN] /\ pc \in [Sessions -> Places]
    BY DEF IInv, TypeOK
  <2>5. Sound'
    BY <1>0, <2>1, <2>2, <2>3, <2>4
  <2>6. HeldInv' /\ FreshInv'
    BY <2>1, <2>2, <2>4 DEF QInv, HeldInv, FreshInv, Handshaking
  <2> QED  BY <1>q, <2>5, <2>6 DEF QInv
<1>3. ASSUME NEW D, queuedSessions' = Splice(queuedSessions, D),
             promoted' = promoted, inQueue' = inQueue
      PROVE  QueueSound' /\ HeldInv'
  <2>1. IsInjective(queuedSessions') /\ Entries' \subseteq Entries
    BY <1>0, <1>3, SpliceProperties
  <2>2. Sound'
    BY <1>0, <1>3, <2>1
  <2> QED  BY <1>q, <1>3, <2>2 DEF QInv, HeldInv
<1>4. ASSUME NEW s \in Sessions, PopQueueFront(s)
      PROVE  QInv'
  <2>1. /\ queuedSessions # << >> /\ queuedSessions' = Tail(queuedSessions)
        /\ promoted' = [promoted EXCEPT ![s] = Head(queuedSessions)]
        /\ inQueue' = inQueue /\ wasQueued' = wasQueued
        /\ pc' = [pc EXCEPT ![s] = "fetching"]
    BY <1>4 DEF PopQueueFront, sessionFields, Goto
  <2>2. /\ IsInjective(queuedSessions') /\ Entries' = Entries \ {Head(queuedSessions)}
        /\ Head(queuedSessions) \in Entries
    BY <1>0, <2>1, TailQueue
  <2>3. promoted \in [Sessions -> Sessions \cup {NoSession}] /\ pc \in [Sessions -> Places]
    BY DEF IInv, TypeOK
  <2>4. Sound'
    BY <1>0, <2>1, <2>2, <2>3
  <2>5. HeldInv' /\ FreshInv'
    BY <1>0, <2>1, <2>2, <2>3 DEF QInv, HeldInv, FreshInv, Handshaking
  <2> QED  BY <1>q, <2>4, <2>5 DEF QInv
<1>5. ASSUME NEW s \in Sessions, RequeueFront(s)
      PROVE  QInv'
  <2>1. /\ queuedSessions' = <<promoted[s]>> \o queuedSessions
        /\ promoted' = [promoted EXCEPT ![s] = NoSession]
        /\ inQueue' = inQueue /\ wasQueued' = wasQueued
        /\ pc' = [pc EXCEPT ![s] = "closing"]
        /\ promoted[s] # NoSession
    BY <1>5 DEF RequeueFront, sessionFields, Goto, At, IInv, PromoterInv
  <2>2. promoted \in [Sessions -> Sessions \cup {NoSession}] /\ pc \in [Sessions -> Places]
    BY DEF IInv, TypeOK
  <2>3. promoted[s] \in Sessions /\ promoted[s] \notin Entries
    BY <1>0, <2>1, <2>2
  <2>4. IsInjective(queuedSessions') /\ Entries' = Entries \cup {promoted[s]}
    BY <1>0, <2>1, <2>3, PrependQueue
  <2>5. Sound'
    BY <1>0, <2>1, <2>2, <2>4 DEF QInv, HeldInv
  <2>6. HeldInv' /\ FreshInv'
    BY <2>1, <2>2 DEF QInv, HeldInv, FreshInv, Handshaking
  <2> QED  BY <1>q, <2>5, <2>6 DEF QInv
<1>6. ASSUME NEW s \in Sessions, Welcome(s)
      PROVE  QInv'
  <2>1. /\ queuedSessions' = queuedSessions /\ wasQueued' = wasQueued
        /\ promoted' = [promoted EXCEPT ![s] = NoSession]
        /\ pc' = [pc EXCEPT ![s] = "promoting"]
        /\ promoted[s] # NoSession
        /\ \A x \in Sessions \ {promoted[s]} : inQueue'[x] = inQueue[x]
        /\ inQueue \in [Sessions -> BOOLEAN] /\ inQueue' \in [Sessions -> BOOLEAN]
        /\ \A x \in Sessions : inQueue'[x] => inQueue[x]
    BY <1>6 DEF Welcome, Initialize, WriteOutcomes, shared, Goto, At, IInv, PromoterInv, TypeOK
  <2>2. promoted \in [Sessions -> Sessions \cup {NoSession}] /\ pc \in [Sessions -> Places]
    BY DEF IInv, TypeOK
  <2>3. Sound'
    BY <1>0, <2>1, <2>2
  <2>4. HeldInv' /\ FreshInv'
    BY <1>0, <2>1, <2>2 DEF QInv, HeldInv, FreshInv, Handshaking
  <2> QED  BY <1>q, <2>3, <2>4 DEF QInv
<1>7. ASSUME NEW s \in Sessions, InitializeSelf(s)
      PROVE  QInv'
  <2>1. inQueue' = inQueue
    BY <1>7 DEF InitializeSelf, Initialize, At, QInv, FreshInv, Handshaking, IInv, TypeOK
  <2>2. UNCHANGED <<queuedSessions, promoted, wasQueued>> /\ pc[s] = "admitted"
    BY <1>7 DEF InitializeSelf, shared, locals, At
  <2>3. pc' = [pc EXCEPT ![s] = "serving"] \/ pc' = [pc EXCEPT ![s] = "leaving"]
    BY <1>7 DEF InitializeSelf, Goto, WriteOutcomes
  <2>4. FreshInv'
    BY <2>1, <2>2, <2>3 DEF QInv, FreshInv, Handshaking, IInv, TypeOK
  <2> QED  BY <1>1, <2>1, <2>2, <2>4 DEF QInv
<1>8. ASSUME NEW s \in Sessions, ClaimAccount(s)
      PROVE  QInv'
  <2>1. /\ queuedSessions' = Splice(queuedSessions, Duplicates(s))
        /\ promoted' = promoted /\ inQueue' = inQueue
    BY <1>8 DEF ClaimAccount, sessionFields, locals
  <2>2. FreshInv'
    BY <1>8 DEF ClaimAccount, QInv, FreshInv, Handshaking, At, Goto, sessionFields, locals,
       IInv, TypeOK
  <2> QED  BY <1>3, <2>1, <2>2 DEF QInv
<1>9. ASSUME NEW s \in Sessions, RemoveQueued(s)
      PROVE  QInv'
  <2>1. /\ queuedSessions' = Splice(queuedSessions, {s})
        /\ promoted' = promoted /\ inQueue' = inQueue
    BY <1>9 DEF RemoveQueued, sessionFields, locals
  <2>2. FreshInv'
    BY <1>9 DEF RemoveQueued, QInv, FreshInv, Handshaking, At, Goto, sessionFields, locals,
       IInv, TypeOK
  <2> QED  BY <1>3, <2>1, <2>2 DEF QInv
<1>10. ASSUME NEW s \in Sessions, Step(s) \/ Environment(s) \/ ClosePending(s)
      PROVE  QInv'
  <2>1. CASE Connect(s)
    BY <1>1, <2>1 DEF Connect, QInv, FreshInv, Handshaking, At, Goto, CloseAll,
       sessionFields, shared, locals, IInv, TypeOK, Places, Leaving
  <2>2. CASE ClientDrops(s)
    BY <1>1, <2>2 DEF ClientDrops, QInv, FreshInv, Handshaking, At, Goto, CloseAll,
       sessionFields, shared, locals, IInv, TypeOK, Places, Leaving
  <2>3. CASE ReadFails(s)
    BY <1>1, <2>3 DEF ReadFails, QInv, FreshInv, Handshaking, At, Goto, CloseAll,
       sessionFields, shared, locals, IInv, TypeOK, Places, Leaving
  <2>4. CASE PacketRefused(s)
    BY <1>1, <2>4 DEF PacketRefused, QInv, FreshInv, Handshaking, At, Goto, CloseAll,
       sessionFields, shared, locals, IInv, TypeOK, Places, Leaving
  <2>5. CASE ReceiveAuth(s)
    BY <1>1, <2>5 DEF ReceiveAuth, QInv, FreshInv, Handshaking, At, Goto, CloseAll,
       sessionFields, shared, locals, IInv, TypeOK, Places, Leaving
  <2>6. CASE RejectNewLogin(s)
    BY <1>1, <2>6 DEF RejectNewLogin, QInv, FreshInv, Handshaking, At, Goto, CloseAll,
       sessionFields, shared, locals, IInv, TypeOK, Places, Leaving
  <2>7. CASE CloseDuplicates(s)
    BY <1>1, <2>7 DEF CloseDuplicates, QInv, FreshInv, Handshaking, At, Goto, CloseAll,
       sessionFields, shared, locals, IInv, TypeOK, Places, Leaving
  <2>8. CASE SetAuthed(s)
    BY <1>1, <2>8 DEF SetAuthed, QInv, FreshInv, Handshaking, At, Goto, CloseAll,
       sessionFields, shared, locals, IInv, TypeOK, Places, Leaving
  <2>9. CASE MarkOnline(s)
    BY <1>1, <2>9 DEF MarkOnline, QInv, FreshInv, Handshaking, At, Goto, CloseAll,
       sessionFields, shared, locals, IInv, TypeOK, Places, Leaving
  <2>10. CASE CountSessions(s)
    BY <1>1, <2>10 DEF CountSessions, QInv, FreshInv, Handshaking, At, Goto, CloseAll,
       sessionFields, shared, locals, IInv, TypeOK, Places, Leaving
  <2>11. CASE CheckSkips(s)
    BY <1>1, <2>11 DEF CheckSkips, QInv, FreshInv, Handshaking, At, Goto, CloseAll,
       sessionFields, shared, locals, IInv, TypeOK, Places, Leaving
  <2>12. CASE BeginPlayerLogin(s)
    BY <1>1, <2>12 DEF BeginPlayerLogin, QInv, FreshInv, Handshaking, At, Goto, CloseAll,
       sessionFields, shared, locals, IInv, TypeOK, Places, Leaving
  <2>13. CASE EndPlayerLogin(s)
    BY <1>1, <2>13 DEF EndPlayerLogin, QInv, FreshInv, Handshaking, At, Goto, CloseAll,
       sessionFields, shared, locals, IInv, TypeOK, Places, Leaving, LoadingInv
  <2>14. CASE LogoutDecides(s)
    BY <1>1, <2>14 DEF LogoutDecides, QInv, FreshInv, Handshaking, At, Goto, CloseAll,
       sessionFields, shared, locals, IInv, TypeOK, Places, Leaving
  <2>15. CASE MarkOffline(s)
    BY <1>1, <2>15 DEF MarkOffline, QInv, FreshInv, Handshaking, At, Goto, CloseAll,
       sessionFields, shared, locals, IInv, TypeOK, Places, Leaving
  <2>16. CASE ReadWasQueued(s)
    BY <1>1, <2>16 DEF ReadWasQueued, QInv, FreshInv, Handshaking, At, Goto, CloseAll,
       sessionFields, shared, locals, IInv, TypeOK, Places, Leaving
  <2>17. CASE RemoveActive(s)
    BY <1>1, <2>17 DEF RemoveActive, QInv, FreshInv, Handshaking, At, Goto, CloseAll,
       sessionFields, shared, locals, IInv, TypeOK, Places, Leaving
  <2>18. CASE PromotionEnds(s)
    BY <1>1, <2>18 DEF PromotionEnds, QInv, FreshInv, Handshaking, At, Goto, CloseAll,
       sessionFields, shared, locals, IInv, TypeOK, Places, Leaving
  <2>19. CASE LoadPromoted(s)
    BY <1>1, <2>19 DEF LoadPromoted, QInv, FreshInv, Handshaking, At, Goto, CloseAll,
       sessionFields, shared, locals, IInv, TypeOK, Places, Leaving
  <2>20. CASE CloseOwnConnection(s)
    BY <1>1, <2>20 DEF CloseOwnConnection, QInv, FreshInv, Handshaking, At, Goto, CloseAll,
       sessionFields, shared, locals, IInv, TypeOK, Places, Leaving
  <2>21. CASE KickSession(s)
    BY <1>1, <2>21 DEF KickSession, QInv, FreshInv, Handshaking, At, Goto, CloseAll,
       sessionFields, shared, locals, IInv, TypeOK, Places, Leaving
  <2>22. CASE SweepIdle(s)
    BY <1>1, <2>22 DEF SweepIdle, QInv, FreshInv, Handshaking, At, Goto, CloseAll,
       sessionFields, shared, locals, IInv, TypeOK, Places, Leaving
  <2>23. CASE ClosePending(s)
    BY <1>1, <2>23 DEF ClosePending, QInv, FreshInv, Handshaking, At, Goto, CloseAll,
       sessionFields, shared, locals, IInv, TypeOK, Places, Leaving
  <2> QED  BY <1>2, <1>4, <1>5, <1>6, <1>7, <1>8, <1>9, <1>10, <2>1, <2>2, <2>3, <2>4, <2>5, <2>6, <2>7, <2>8, <2>9, <2>10, <2>11, <2>12, <2>13, <2>14, <2>15, <2>16, <2>17, <2>18, <2>19, <2>20, <2>21, <2>22, <2>23
           DEF Step, Environment
<1>11. CASE StopBegins \/ StopSnapshot
  BY <1>1, <1>11 DEF StopBegins, StopSnapshot, QInv, FreshInv, sessionFields, locals
<1>12. CASE UNCHANGED vars
  BY <1>1, <1>12 DEF vars, QInv, FreshInv, sessionFields, shared, locals
<1> QED  BY <1>10, <1>11, <1>12 DEF Next

\* The login queue is sound however many goroutines promote from it at once: no
\* entry is repeated, none has lost its inQueue mark, and the session a promoter
\* took off the front is in nobody else's reach (tryPromoteQueueFront).
THEOREM LoginQueueSound == Spec => []QueueSound
<1>1. Init => QInv
  BY DEF Init, QInv, QueueSound, HeldInv, FreshInv, IsInjective
<1>2. QInv => QueueSound
  BY DEF QInv
<1> QED  BY <1>1, <1>2, InitIInv, NextIInv, NextQueue, PTL DEF Spec

-----------------------------------------------------------------------------
(* No waiter is forgotten, and a queued drop earns no queue skip.           *)

LEMMA NextWaiter == IInv /\ QInv /\ NoForgottenWaiter /\ [Next]_vars => NoForgottenWaiter'
<1> SUFFICES ASSUME IInv, QInv, NoForgottenWaiter, [Next]_vars
             PROVE  NoForgottenWaiter'
  OBVIOUS
<1> DEFINE Entries == ToSet(queuedSessions)
<1>0. /\ IsInjective(queuedSessions) /\ queuedSessions \in Seq(Sessions)
      /\ promoted \in [Sessions -> Sessions \cup {NoSession}]
      /\ conn \in [Sessions -> {"up", "dropped", "closed"}]
      /\ inQueue \in [Sessions -> BOOLEAN]
      /\ sessions \subseteq Sessions
  BY DEF QInv, QueueSound, IInv, TypeOK
<1>a. ASSUME NEW x \in sessions, inQueue[x], conn[x] = "up"
      PROVE  x \in Entries \/ \E p \in Sessions : promoted[p] = x
  BY <1>a DEF NoForgottenWaiter
<1> USE AccountAssumption
\* Most steps leave the queue alone and register or mark nobody new.
<1>1. ASSUME UNCHANGED <<queuedSessions, promoted, inQueue>>, sessions' \subseteq sessions,
             \A x \in Sessions : conn'[x] = "up" => conn[x] = "up"
      PROVE  NoForgottenWaiter'
  BY <1>0, <1>1 DEF NoForgottenWaiter
<1>2. ASSUME NEW s \in Sessions, Connect(s)
      PROVE  NoForgottenWaiter'
  BY <1>0, <1>2 DEF Connect, NoForgottenWaiter, QInv, FreshInv, At, sessionFields, locals
<1>3. ASSUME NEW s \in Sessions, Enqueue(s)
      PROVE  NoForgottenWaiter'
  <2>1. /\ inQueue' = [inQueue EXCEPT ![s] = TRUE] /\ promoted' = promoted
        /\ queuedSessions' = Append(queuedSessions, s)
        /\ conn' = conn /\ sessions' = sessions /\ ~inQueue[s]
    BY <1>3 DEF Enqueue, locals, At, QInv, FreshInv, Handshaking
  <2>2. s \notin Entries
    BY <2>1, QueueEntries DEF QInv
  <2>3. Entries' = Entries \cup {s}
    BY <1>0, <2>1, <2>2, AppendQueue
  <2> QED  BY <1>0, <1>a, <2>1, <2>3 DEF NoForgottenWaiter
<1>4. ASSUME NEW D, queuedSessions' = Splice(queuedSessions, D), sessions' = sessions \ D,
             UNCHANGED <<promoted, inQueue, conn>>
      PROVE  NoForgottenWaiter'
  <2>1. \A x \in Entries : x \notin D => x \in Entries'
    BY <1>0, <1>4, SpliceProperties
  <2> QED  BY <1>a, <1>4, <2>1 DEF NoForgottenWaiter
<1>5. ASSUME NEW s \in Sessions, PopQueueFront(s)
      PROVE  NoForgottenWaiter'
  <2>1. /\ queuedSessions # << >> /\ queuedSessions' = Tail(queuedSessions)
        /\ promoted' = [promoted EXCEPT ![s] = Head(queuedSessions)]
        /\ promoted[s] = NoSession
        /\ UNCHANGED <<inQueue, conn, sessions>>
    BY <1>5 DEF PopQueueFront, sessionFields, At, IInv, PromoterInv
  <2>2. Entries' = Entries \ {Head(queuedSessions)}
    BY <1>0, <2>1, TailQueue
  <2>3. ASSUME NEW x \in sessions, inQueue[x], conn[x] = "up"
        PROVE  x \in Entries' \/ \E p \in Sessions : promoted'[p] = x
    <3>1. CASE x = Head(queuedSessions)
      BY <1>0, <2>1, <3>1
    <3>2. CASE x # Head(queuedSessions)
      BY <1>0, <1>a, <2>1, <2>2, <2>3, <3>2
    <3> QED  BY <3>1, <3>2
  <2> QED  BY <2>1, <2>3 DEF NoForgottenWaiter
<1>6. ASSUME NEW s \in Sessions, RequeueFront(s)
      PROVE  NoForgottenWaiter'
  <2>1. /\ queuedSessions' = <<promoted[s]>> \o queuedSessions
        /\ promoted' = [promoted EXCEPT ![s] = NoSession]
        /\ promoted[s] # NoSession
        /\ UNCHANGED <<inQueue, conn, sessions>>
    BY <1>6 DEF RequeueFront, sessionFields, At, IInv, PromoterInv
  <2>2. promoted[s] \in Sessions /\ promoted[s] \notin Entries
    BY <1>0, <2>1, QueueEntries DEF QInv
  <2>3. Entries' = Entries \cup {promoted[s]}
    BY <1>0, <2>1, <2>2, PrependQueue
  <2> QED  BY <1>0, <1>a, <2>1, <2>3 DEF NoForgottenWaiter
<1>7. ASSUME NEW s \in Sessions, Welcome(s)
      PROVE  NoForgottenWaiter'
  <2>1. /\ promoted' = [promoted EXCEPT ![s] = NoSession]
        /\ promoted[s] \in Sessions
        /\ UNCHANGED <<queuedSessions, conn, sessions>>
    BY <1>0, <1>7 DEF Welcome, shared, At, IInv, PromoterInv
  <2>2. \A x \in Sessions \ {promoted[s]} : inQueue'[x] = inQueue[x]
    BY <1>0, <1>7 DEF Welcome, Initialize
  <2>3. conn[promoted[s]] = "up" => ~inQueue'[promoted[s]]
    BY <1>0, <1>7, <2>1 DEF Welcome, Initialize, WriteOutcomes
  <2> QED  BY <1>0, <1>a, <2>1, <2>2, <2>3 DEF NoForgottenWaiter
<1>8. ASSUME NEW s \in Sessions, InitializeSelf(s)
      PROVE  NoForgottenWaiter'
  <2>1. inQueue' = inQueue
    BY <1>8 DEF InitializeSelf, Initialize, At, QInv, FreshInv, Handshaking, IInv, TypeOK
  <2> QED  BY <1>1, <1>8, <2>1 DEF InitializeSelf, shared, locals
<1>9. ASSUME NEW s \in Sessions, Step(s) \/ Environment(s) \/ ClosePending(s)
      PROVE  NoForgottenWaiter'
  <2>1. CASE ClaimAccount(s)
    BY <1>4, <2>1 DEF ClaimAccount
  <2>2. CASE RemoveQueued(s)
    BY <1>4, <2>2 DEF RemoveQueued, sessionFields, locals
  <2>3. CASE ClientDrops(s)
    BY <1>0, <1>1, <2>3 DEF ClientDrops, sessionFields, shared, locals
  <2>4. CASE ReadFails(s) \/ PacketRefused(s) \/ ReceiveAuth(s) \/ SetAuthed(s)
             \/ MarkOnline(s) \/ CountSessions(s) \/ CheckSkips(s)
    BY <1>1, <2>4 DEF ReadFails, PacketRefused, ReceiveAuth, SetAuthed, MarkOnline,
       CountSessions, CheckSkips, sessionFields, shared, locals
  <2>5. CASE RejectNewLogin(s) \/ CloseDuplicates(s) \/ CloseOwnConnection(s) \/ ClosePending(s)
    BY <1>1, <2>5 DEF RejectNewLogin, CloseDuplicates, CloseOwnConnection, ClosePending,
       CloseAll, sessionFields, shared, locals
  <2>6. CASE BeginPlayerLogin(s) \/ EndPlayerLogin(s) \/ LogoutDecides(s) \/ MarkOffline(s)
             \/ ReadWasQueued(s) \/ PromotionEnds(s) \/ LoadPromoted(s)
    BY <1>1, <2>6 DEF BeginPlayerLogin, EndPlayerLogin, LogoutDecides, MarkOffline,
       ReadWasQueued, PromotionEnds, LoadPromoted, sessionFields, shared, locals
  <2>7. CASE RemoveActive(s) \/ KickSession(s) \/ SweepIdle(s)
    BY <1>1, <2>7 DEF RemoveActive, KickSession, SweepIdle, sessionFields, shared, locals
  <2> QED  BY <1>2, <1>3, <1>5, <1>6, <1>7, <1>8, <1>9, <2>1, <2>2, <2>3, <2>4, <2>5, <2>6, <2>7
           DEF Step, Environment
<1>10. CASE StopBegins \/ StopSnapshot
  BY <1>1, <1>10 DEF StopBegins, StopSnapshot, sessionFields, locals
<1>11. CASE UNCHANGED vars
  BY <1>1, <1>11 DEF vars, sessionFields, shared, locals
<1> QED  BY <1>9, <1>10, <1>11 DEF Next

\* A session that waits and can still hear is in the queue or in the hands of a
\* promoter, also when its account fails to load after the pop (RequeueFront).
THEOREM NobodyForgotten == Spec => []NoForgottenWaiter
<1>1. Init => QInv /\ NoForgottenWaiter
  BY DEF Init, QInv, QueueSound, HeldInv, FreshInv, IsInjective, NoForgottenWaiter
<1> QED  BY <1>1, InitIInv, NextIInv, NextQueue, NextWaiter, PTL DEF Spec

\* Only RemoveActive records a disconnect, and the session it removes was read
\* as not queued and cannot have been queued since (removeSession).
THEOREM QueuedDropsEarnNothing == Spec => QueuedDropEarnsNoSkip
<1> DEFINE A == \A s \in ToSet(queuedSessions) :
                  s \in sessions \ sessions' => accountID[s] \notin disconnectTimes' \ disconnectTimes
<1>1. IInv /\ QInv /\ [Next]_vars => [A]_vars
  <2> SUFFICES ASSUME IInv, QInv, [Next]_vars
               PROVE  A
    OBVIOUS
  <2>1. ASSUME disconnectTimes' = disconnectTimes
        PROVE  A
    BY <2>1
  <2>2. ASSUME NEW s \in Sessions, RemoveActive(s)
        PROVE  A
    <3>1. sessions' = sessions \ {s} /\ ~inQueue[s]
      BY <2>2 DEF RemoveActive, At, QInv, FreshInv
    <3>2. s \notin ToSet(queuedSessions)
      BY <3>1, QueueEntries DEF QInv
    <3> QED  BY <3>1, <3>2
  <2>3. ASSUME NEW s \in Sessions, Step(s) \/ Environment(s) \/ ClosePending(s), ~RemoveActive(s)
        PROVE  disconnectTimes' = disconnectTimes
    <3>1. CASE Step(s)
      BY <2>3, <3>1 DEF Step, ReadFails, RejectNewLogin, ClaimAccount, CloseDuplicates,
         SetAuthed, MarkOnline, CountSessions, CheckSkips, Enqueue, InitializeSelf,
         EndPlayerLogin, LogoutDecides, MarkOffline, ReadWasQueued, RemoveQueued,
         PromotionEnds, PopQueueFront, LoadPromoted, RequeueFront, Welcome,
         CloseOwnConnection, shared
    <3>2. CASE Environment(s) \/ ClosePending(s)
      BY <3>2 DEF Environment, Connect, ClientDrops, ReceiveAuth, PacketRefused,
         BeginPlayerLogin, KickSession, SweepIdle, ClosePending, shared
    <3> QED  BY <2>3, <3>1, <3>2
  <2>4. StopBegins \/ StopSnapshot \/ UNCHANGED vars => disconnectTimes' = disconnectTimes
    BY DEF StopBegins, StopSnapshot, vars, shared
  <2> QED  BY <2>1, <2>2, <2>3, <2>4 DEF Next
<1>2. Init => QInv
  BY DEF Init, QInv, QueueSound, HeldInv, FreshInv, IsInjective
<1> QED  BY <1>1, <1>2, InitIInv, NextIInv, NextQueue, PTL DEF Spec, QueuedDropEarnsNoSkip
===========================================================================
