------------------------------ MODULE AuthProofs ------------------------------
(***************************************************************************)
(* Types and agreement of AuthCache, and the steps of PgListener's         *)
(* refinement of NotifyLink.                                               *)
(***************************************************************************)
EXTENDS AuthCache, TLAPS

\* Besides the types: every announcement owed belongs to a change, and a
\* request that has asked for a row presents a key.
IInv ==
    /\ TypeOK
    /\ \A k \in Keys : owed[k] < row[k]
    /\ \A r \in Requests : stage[r] \in {"asked", "read"} => apiKey[r] \in Keys

\* Losing every notice leaves a sequence of keys.
LEMMA NoNotices == <<>> \in Seq(Keys)
OBVIOUS

\* A fault is one of at most MaxFaults.
LEMMA FaultsBounded ==
    ASSUME faults \in 0..MaxFaults, Fault
    PROVE  faults' \in 0..MaxFaults
BY ListenerConstants DEF ListenerConstants, Fault

\* The listener's own steps keep its types, and either leave the notices alone
\* or lose them all.
LEMMA ListenerSteps ==
    ASSUME ListenerTypeOK, Proceed \/ Mishap
    PROVE  /\ ListenerTypeOK'
           /\ notices' = notices \/ notices' = <<>>
<1> USE ListenerConstants
        DEF ListenerConstants, ListenerTypeOK, Links, Answers, Fault, Answered, Write
<1>1. CASE Connect \/ Open \/ SocketClosed
  BY <1>1, NoNotices DEF Connect, Open, SocketClosed
<1>6. CASE Reach
  BY <1>6 DEF Reach
<1>2. CASE SslAccepted \/ SslRefused \/ Handshaken
  BY <1>2 DEF SslAccepted, SslRefused, Handshaken
<1>3. CASE PasswordAsked \/ SaslStarted \/ SaslContinued \/ Ready
  BY <1>3 DEF PasswordAsked, SaslStarted, SaslContinued, Ready
<1>4. CASE Listening \/ HealthTick \/ Healthy
  BY <1>4 DEF Listening, HealthTick, Healthy
<1>5. CASE Mishap
  <2> HIDE ListenerConstants DEF Fault
  <2>0. faults' \in 0..MaxFaults
    BY <1>5, FaultsBounded DEF Mishap, DialFails, Refused, ServerEnds, GoesSilent
  <2>1. CASE DialFails
    BY <2>0, <2>1 DEF DialFails
  <2>2. CASE Refused
    BY <2>0, <2>2, NoNotices DEF Refused
  <2>3. CASE ServerEnds
    BY <2>0, <2>3 DEF ServerEnds
  <2>4. CASE GoesSilent
    BY <2>0, <2>4, NoNotices DEF GoesSilent
  <2> QED BY <1>5, <2>1, <2>2, <2>3, <2>4 DEF Mishap
<1> QED BY <1>1, <1>2, <1>3, <1>4, <1>5, <1>6 DEF Proceed

\* Handling a notification takes the first of the sequence and leaves the rest.
LEMMA Received ==
    ASSUME ListenerTypeOK, NEW k \in Keys, Receive(k)
    PROVE  /\ ListenerTypeOK'
           /\ \A j \in InFlight : j = k \/ j \in InFlight'
<1>1. ListenerTypeOK'
  BY DEF ListenerTypeOK, Receive
<1>2. ASSUME NEW i \in 1..Len(notices), i # 1
      PROVE  notices[i] \in InFlight'
  <2>1. i - 1 \in 1..Len(notices') /\ notices'[i - 1] = notices[i]
    BY <1>2 DEF ListenerTypeOK, Receive
  <2> QED BY <2>1 DEF InFlight
<1>3. notices[1] = k
  BY DEF ListenerTypeOK, Receive
<1> QED BY <1>1, <1>2, <1>3 DEF InFlight

\* Sending a notification appends it, if anybody listens.
LEMMA Published ==
    ASSUME ListenerTypeOK, NEW k \in Keys, Publish(k)
    PROVE  /\ ListenerTypeOK'
           /\ InFlight \subseteq InFlight'
           /\ subscribed => k \in InFlight'
<1>1. ListenerTypeOK'
  BY DEF ListenerTypeOK, Publish
<1>2. InFlight \subseteq InFlight'
  BY DEF ListenerTypeOK, Publish, InFlight
<1>3. ASSUME subscribed PROVE k \in InFlight'
  <2>1. Len(notices') \in 1..Len(notices') /\ notices'[Len(notices')] = k
    BY <1>3 DEF ListenerTypeOK, Publish
  <2> QED BY <2>1 DEF InFlight
<1> QED BY <1>1, <1>2, <1>3

-----------------------------------------------------------------------------
\* The start has the types and owes nothing.
LEMMA InitIInv == Init => IInv
<1> SUFFICES ASSUME Init PROVE IInv
  OBVIOUS
<1> USE ListenerConstants, AuthConstants DEF ListenerConstants, AuthConstants, Init
<1>0. faults \in 0..MaxFaults
  BY DEF ListenerInit
<1>1. ListenerTypeOK
  BY <1>0, NoNotices, Zenon DEF ListenerInit, ListenerTypeOK, Links, Answers
<1>2. TypeOK
  BY <1>1 DEF TypeOK
<1> QED BY <1>2 DEF IInv

\* Every step keeps the types and the two facts beside them.
LEMMA NextIInv == IInv /\ [Next]_vars => IInv'
<1> SUFFICES ASSUME IInv, [Next]_vars PROVE IInv'
  OBVIOUS
<1> USE ListenerConstants, AuthConstants
        DEF ListenerConstants, AuthConstants, IInv, TypeOK
<1>1. ASSUME NEW r \in Requests, Read(r) PROVE IInv'
  BY <1>1 DEF Read, listener, ListenerTypeOK
<1>14. ASSUME NEW r \in Requests, Fill(r) PROVE IInv'
  BY <1>14 DEF Fill, listener, ListenerTypeOK
<1>15. ASSUME NEW r \in Requests, Leave(r) PROVE IInv'
  BY <1>15 DEF Leave, listener, ListenerTypeOK
<1>2. ASSUME NEW r \in Requests, NEW k \in Keys, Hit(r, k) PROVE IInv'
  BY <1>2 DEF Hit, listener, ListenerTypeOK
<1>3. ASSUME NEW r \in Requests, NEW k \in Keys, Miss(r, k) PROVE IInv'
  BY <1>3 DEF Miss, listener, ListenerTypeOK
<1>4. ASSUME NEW k \in Keys, Evict(k) PROVE IInv'
  BY <1>4 DEF Evict, listener, ListenerTypeOK
<1>5. ASSUME NEW k \in Keys, Change(k) PROVE IInv'
  BY <1>5 DEF Change, listener, ListenerTypeOK
<1>6. ASSUME NEW k \in Keys, Announce(k) PROVE IInv'
  <2>1. ListenerTypeOK'
    BY <1>6, Published DEF Announce
  <2>2. lapsed' \in [Keys -> BOOLEAN]
    BY <1>6 DEF Announce, LoseNews, Stale
  <2>3. /\ owed' \in [Keys -> 0..MaxChanges]
        /\ \A j \in Keys : owed'[j] < row'[j]
    BY <1>6 DEF Announce
  <2> QED BY <1>6, <2>1, <2>2, <2>3 DEF Announce
<1>7. ASSUME NEW k \in Keys, AnnounceFails(k) PROVE IInv'
  BY <1>7 DEF AnnounceFails, LoseNews, Stale, Fault, ListenerTypeOK
<1>8. ASSUME NEW k \in Keys, ChangeUnannounced(k) PROVE IInv'
  <2>1. lapsed' \in [Keys -> BOOLEAN]
    BY <1>8 DEF ChangeUnannounced
  <2>2. ListenerTypeOK'
    BY <1>8 DEF ChangeUnannounced, listener, ListenerTypeOK
  <2> QED BY <1>8, <2>1, <2>2 DEF ChangeUnannounced
<1>9. ASSUME NEW k \in Keys, Flush(k) PROVE IInv'
  <2>1. ListenerTypeOK'
    BY <1>9, Received DEF Flush
  <2> QED BY <1>9, <2>1 DEF Flush
<1>10. CASE Tick
  BY <1>10 DEF Tick, Usable, listener, ListenerTypeOK
<1>11. CASE Carry
  <2>1. ListenerTypeOK'
    BY <1>11, ListenerSteps DEF Carry
  <2> QED BY <1>11, <2>1 DEF Carry, Stale
<1>12. CASE Crash
  <2>0. faults' \in 0..MaxFaults
    BY <1>12, FaultsBounded DEF Crash, Restart, ListenerTypeOK
  <2>1. ListenerTypeOK'
    BY <1>12, <2>0, NoNotices, Zenon DEF Crash, Restart, ListenerTypeOK, Links, Answers
  <2> QED BY <1>12, <2>1 DEF Crash
<1>13. CASE UNCHANGED vars
  BY <1>13 DEF vars, auth, listener, ListenerTypeOK
<1> QED
  BY <1>1, <1>2, <1>3, <1>4, <1>5, <1>6, <1>7, <1>8, <1>9, <1>10, <1>11,
     <1>12, <1>13, <1>14, <1>15 DEF Next

\* The strengthened types are an invariant.
LEMMA AlwaysIInv == Spec => []IInv
BY InitIInv, NextIInv, PTL DEF Spec

\* Every variable of the listener and the cache keeps its type; in particular
\* no route owes more announcements than there were changes.
THEOREM TypeCorrect == Spec => []TypeOK
<1>1. IInv => TypeOK
  BY DEF IInv
<1> QED BY <1>1, AlwaysIInv, PTL
-----------------------------------------------------------------------------
(* The agreement of the entries with their rows.                           *)

\* When only the listener's and one key's news change, the others agree as
\* before.
LEMMA StepAgrees ==
    ASSUME IInv, CachedKeysAgree, Next
    PROVE  CachedKeysAgree'
<1> USE DEF CachedKeysAgree, Stale, IInv, TypeOK
<1>1. ASSUME NEW r \in Requests, Read(r) PROVE CachedKeysAgree'
  BY <1>1 DEF Read, listener, InFlight
<1>2. ASSUME NEW r \in Requests, Fill(r) PROVE CachedKeysAgree'
  BY <1>2 DEF Fill, listener, InFlight
<1>3. ASSUME NEW r \in Requests, Leave(r) PROVE CachedKeysAgree'
  BY <1>3 DEF Leave, listener, InFlight
<1>4. ASSUME NEW r \in Requests, NEW k \in Keys, Hit(r, k)
      PROVE  CachedKeysAgree'
  BY <1>4 DEF Hit, listener, InFlight
<1>5. ASSUME NEW r \in Requests, NEW k \in Keys, Miss(r, k)
      PROVE  CachedKeysAgree'
  BY <1>5 DEF Miss, listener, InFlight
<1>6. ASSUME NEW k \in Keys, Evict(k) PROVE CachedKeysAgree'
  BY <1>6 DEF Evict, listener, InFlight
<1>7. ASSUME NEW k \in Keys, Change(k) PROVE CachedKeysAgree'
  BY <1>7 DEF Change, listener, InFlight
<1>8. ASSUME NEW k \in Keys, Announce(k) PROVE CachedKeysAgree'
  <2>1. /\ InFlight \subseteq InFlight'
        /\ subscribed => k \in InFlight'
    BY <1>8, Published DEF Announce
  <2> QED BY <1>8, <2>1 DEF Announce, LoseNews
<1>9. ASSUME NEW k \in Keys, AnnounceFails(k) PROVE CachedKeysAgree'
  BY <1>9 DEF AnnounceFails, LoseNews, InFlight
<1>10. ASSUME NEW k \in Keys, ChangeUnannounced(k) PROVE CachedKeysAgree'
  BY <1>10 DEF ChangeUnannounced, listener, InFlight
<1>11. ASSUME NEW k \in Keys, Flush(k) PROVE CachedKeysAgree'
  <2>1. \A j \in InFlight : j = k \/ j \in InFlight'
    BY <1>11, Received DEF Flush
  <2> QED BY <1>11, <2>1 DEF Flush
<1>12. CASE Tick
  BY <1>12 DEF Tick, listener, InFlight
<1>13. CASE Carry
  <2>1. notices' = notices \/ notices' = <<>>
    BY <1>13, ListenerSteps DEF Carry
  <2>2. ASSUME NEW k \in Keys, Stale(k)', k \in InFlight
        PROVE  k \in InFlight' \/ lapsed'[k]
    <3>1. CASE notices' = notices
      BY <2>2, <3>1 DEF InFlight
    <3>2. CASE notices' = <<>>
      BY <1>13, <2>2, <3>2 DEF Carry
    <3> QED BY <2>1, <3>1, <3>2
  <2>3. ASSUME NEW k \in Keys, Stale(k)', ~(owed'[k] > 0), k \notin InFlight
        PROVE  lapsed'[k]
    BY <1>13, <2>3 DEF Carry
  <2> QED BY <2>2, <2>3, <1>13 DEF Carry
<1>14. CASE Crash
  BY <1>14 DEF Crash
<1> QED
  BY <1>1, <1>2, <1>3, <1>4, <1>5, <1>6, <1>7, <1>8, <1>9, <1>10, <1>11,
     <1>12, <1>13, <1>14 DEF Next

\* Every outdated entry of the key cache will be flushed by a notification that
\* is owed or on its way, except where the code gives the news up.
THEOREM KeysAgree == Spec => []CachedKeysAgree
<1>1. Init => CachedKeysAgree
  BY DEF Init, CachedKeysAgree, Stale
<1>2. IInv /\ CachedKeysAgree /\ [Next]_vars => CachedKeysAgree'
  <2>1. ASSUME CachedKeysAgree, UNCHANGED vars PROVE CachedKeysAgree'
    BY <2>1 DEF CachedKeysAgree, Stale, InFlight, vars, auth, listener
  <2> QED BY <2>1, StepAgrees
<1> QED BY <1>1, <1>2, AlwaysIInv, PTL DEF Spec

-----------------------------------------------------------------------------
(* The listener implements NotifyLink: its steps.                          *)

\* While the socket is not lost the connection does not hang.
LEMMA LinkSteps ==
    ASSUME IInv, [Next]_vars
    PROVE  [Link!Next]_(Link!vars)
<1> USE DEF IInv, TypeOK, ListenerTypeOK, Hung
<1> USE DEF Link!vars
<1>1. CASE UNCHANGED <<subscribed, notices, Hung>>
  BY <1>1
<1>2. CASE UNCHANGED listener
  BY <1>2, <1>1 DEF listener
<1>3. ASSUME NEW k \in Keys, Announce(k) PROVE [Link!Next]_(Link!vars)
  <2>1. CASE subscribed
    BY <1>3, <2>1 DEF Announce, Publish, Link!Next, Link!Publish
  <2>2. CASE ~subscribed
    BY <1>3, <2>2, <1>1 DEF Announce, Publish
  <2> QED BY <2>1, <2>2
<1>4. ASSUME NEW k \in Keys, Flush(k) PROVE [Link!Next]_(Link!vars)
  BY <1>4 DEF Flush, Receive, Link!Next, Link!Deliver
<1>5. ASSUME NEW k \in Keys, AnnounceFails(k) PROVE [Link!Next]_(Link!vars)
  BY <1>5, <1>1 DEF AnnounceFails
<1>6. CASE Crash
  <2>1. Hung' \in BOOLEAN
    BY <1>6 DEF Crash, Restart
  <2> QED BY <1>6, <2>1 DEF Crash, Restart, Link!Next, Link!Lose
<1>7. CASE Proceed
  <2>1. CASE SocketClosed
    BY <2>1 DEF SocketClosed, Link!Next, Link!Lose
  <2>2. CASE Reach
    <3>1. ~Hung /\ ~Hung' /\ notices' = notices
      BY <2>2 DEF Reach
    <3>2. CASE subscribed' = subscribed
      BY <1>1, <3>1, <3>2
    <3>3. CASE subscribed' # subscribed
      <4>1. ~subscribed /\ subscribed' = TRUE
        BY <2>2, <3>3 DEF Reach
      <4> QED BY <3>1, <4>1 DEF Link!Next, Link!Register
    <3> QED BY <3>2, <3>3
  <2>3. CASE HealthTick
    BY <2>3, <1>1 DEF HealthTick, HealthDue, Write
  <2>4. CASE Connect \/ Open \/ Listening \/ Healthy
    BY <2>4, <1>1 DEF Connect, Open, Listening, Healthy, Answered
  <2>5. CASE \/ SslAccepted \/ SslRefused \/ Handshaken \/ PasswordAsked
             \/ SaslStarted \/ SaslContinued \/ Ready
    <3>1. link = "up" /\ link' = link /\ UNCHANGED <<subscribed, notices>>
      BY <2>5 DEF SslAccepted, SslRefused, Handshaken, PasswordAsked,
                  SaslStarted, SaslContinued, Ready, Answered, Write
    <3> QED BY <3>1, <1>1
  <2> QED BY <1>7, <2>1, <2>2, <2>3, <2>4, <2>5 DEF Proceed
<1>8. CASE Mishap
  <2>1. CASE DialFails
    BY <2>1, <1>1 DEF DialFails
  <2>2. CASE Refused
    BY <2>2 DEF Refused, Link!Next, Link!Lose
  <2>3. CASE ServerEnds
    <3>1. ~Hung /\ ~Hung'
      BY <2>3 DEF ServerEnds
    <3> QED BY <2>3, <3>1 DEF ServerEnds, Link!Next, Link!Drop
  <2>4. CASE GoesSilent
    BY <2>4 DEF GoesSilent, Link!Next, Link!Lose
  <2> QED BY <1>8, <2>1, <2>2, <2>3, <2>4 DEF Mishap
<1> QED
  BY <1>2, <1>3, <1>4, <1>5, <1>6, <1>7, <1>8
     DEF Next, Read, Fill, Leave, Hit, Miss, Evict, Change, ChangeUnannounced,
         Tick, Carry, vars

\* Every behaviour of the listener, under whatever its server and the network
\* do, is a behaviour of NotifyLink, liveness apart: what was sent while LISTEN
\* is in force arrives in order and once, or is lost with its connection.
THEOREM ListenerRefines == Spec => Link!Init /\ [][Link!Next]_(Link!vars)
<1>1. Init => Link!Init
  BY DEF Init, ListenerInit, Link!Init, Hung
<1> QED BY <1>1, LinkSteps, AlwaysIInv, PTL DEF Spec
=============================================================================
