-------------------------- MODULE AdmissionProofs ---------------------------
(***************************************************************************)
(* For any number of requests, processes, windows and budgets: types, that *)
(* rolling a budget over never loses or keeps usage it should not, that    *)
(* windows and the limit on successes hold, and that a budget is exceeded  *)
(* only by what was admitted side by side or above its estimate.           *)
(***************************************************************************)
EXTENDS Admission, TLAPS

\* A reset_at is a boundary, and no later than the next one.
ResetInv(b) ==
    IF Period[b] = 0 THEN resetAt[b] = 0
    ELSE /\ resetAt[b] > 0 /\ resetAt[b] % Period[b] = 0
         /\ resetAt[b] <= NextReset(b, now)

CountInv(b) ==
    b \in slipped \/ IF IsDue(b) THEN posted[b] = 0 ELSE used[b] = posted[b]

\* What a request has read was due, and what it will write is a boundary.
RolloverInv(d) ==
    /\ 0 < d.at /\ d.at <= now
    /\ d.next > 0 /\ d.next % Period[d.budget] = 0
    /\ d.next <= NextReset(d.budget, now)

IInv ==
    /\ TypeOK
    /\ \A b \in Budgets : ResetInv(b) /\ CountInv(b)
    /\ \A r \in Requests : \A d \in due[r] : RolloverInv(d)

-----------------------------------------------------------------------------
(* Boundaries.                                                             *)

\* The boundary after t is one, and the first after t.
LEMMA Boundary ==
    ASSUME NEW b \in Budgets, Period[b] > 0, NEW t \in Nat
    PROVE  /\ NextReset(b, t) \in Nat /\ NextReset(b, t) > t
           /\ NextReset(b, t) % Period[b] = 0
           /\ (t + 1) % Period[b] = 0 => NextReset(b, t) = t + 1
           /\ NextReset(b, t) <= NextReset(b, t + 1)
<1> DEFINE P == Period[b]
<1> DEFINE q == t \div P
<1> DEFINE k == (t + 1) \div P
<1>1. P \in Nat /\ P > 0 BY AdmissionConstants
<1>. HIDE DEF P
<1>2. q \in Nat /\ q * P <= t /\ (q + 1) * P > t BY <1>1
<1>3. k \in Nat /\ k * P <= t + 1 /\ (k + 1) * P > t + 1 BY <1>1
<1>4. ((q + 1) * P) % P = 0 BY <1>1
<1>5. (t + 1) % P = 0 => k * P = t + 1 BY <1>1
<1>6. (t + 1) % P # 0 => k = q BY <1>1
<1>7. NextReset(b, t) = (q + 1) * P /\ NextReset(b, t + 1) = (k + 1) * P
  BY <1>1 DEF NextReset, P
<1>. HIDE DEF q, k
<1>8. (q + 1) * P \in Nat /\ (k + 1) * P \in Nat BY <1>1, <1>2, <1>3
<1>9. ASSUME (t + 1) % P = 0 PROVE (q + 1) * P = t + 1
  <2>1. q * P < k * P BY <1>1, <1>2, <1>3, <1>5, <1>9
  <2>2. q < k BY <1>1, <1>2, <1>3, <2>1
  <2>3. (q + 1) * P <= k * P BY <1>1, <1>2, <1>3, <2>2
  <2>. QED BY <1>2, <1>5, <1>8, <1>9, <2>3
<1>10. (q + 1) * P <= (k + 1) * P
  <2>1. CASE (t + 1) % P = 0 BY <1>3, <1>8, <1>9, <2>1
  <2>2. CASE (t + 1) % P # 0 BY <1>6, <1>8, <2>2
  <2>. QED BY <2>1, <2>2
<1>. QED BY <1>2, <1>4, <1>7, <1>8, <1>9, <1>10 DEF P

\* A boundary is not strictly between two instants.
LEMMA NoneBetween ==
    ASSUME TypeOK, NEW b \in Budgets, ResetInv(b), now < MaxTime,
           (now + 1) % Period[b] # 0
    PROVE  resetAt[b] <= now + 1 => resetAt[b] <= now
BY AdmissionConstants DEF TypeOK, ResetInv

-----------------------------------------------------------------------------
(* Types.                                                                  *)

LEMMA CountedTypes ==
    ASSUME TypeOK, NEW win \in Window, NEW w \in Windows
    PROVE  Consumed(win, w) \in Window
<1>1. Length[w] \in Nat /\ now \in Nat BY AdmissionConstants DEF TypeOK
<1>. QED BY <1>1 DEF Consumed, Window

LEMMA FaultTypes ==
    ASSUME faults \in 0 .. MaxFaults, faults' = faults \/ Fault
    PROVE  faults' \in 0 .. MaxFaults
BY AdmissionConstants DEF Fault

LEMMA ConsumeTypes ==
    ASSUME TypeOK, NEW r \in Requests, NEW w \in Windows,
           ConsumeStored(r, w) \/ ConsumeLocal(r, w)
    PROVE  /\ stored' \in [Windows -> Window]
           /\ local' \in [Procs -> [Windows -> Window]]
           /\ passes' \in [Windows -> Seq(0 .. MaxTime)]
           /\ faults' \in 0 .. MaxFaults
<1>. USE DEF TypeOK
<1>1. CASE ConsumeStored(r, w)
  <2>1. Consumed(stored[w], w) \in Window BY CountedTypes
  <2>2. stored' \in [Windows -> Window] BY <1>1, <2>1 DEF ConsumeStored
  <2>3. passes' \in [Windows -> Seq(0 .. MaxTime)]
    <3>1. Append(passes[w], now) \in Seq(0 .. MaxTime) OBVIOUS
    <3>. QED BY <1>1, <3>1 DEF ConsumeStored
  <2>. QED BY <1>1, <2>2, <2>3 DEF ConsumeStored
<1>2. CASE ConsumeLocal(r, w)
  <2>1. ProcOf[r] \in Procs BY AdmissionConstants
  <2>2. Consumed(local[ProcOf[r]][w], w) \in Window BY <2>1, CountedTypes
  <2>3. [local[ProcOf[r]] EXCEPT ![w] = Consumed(local[ProcOf[r]][w], w)]
           \in [Windows -> Window]
    BY <2>1, <2>2
  <2>4. local' = [local EXCEPT ![ProcOf[r]] =
           [local[ProcOf[r]] EXCEPT ![w] = Consumed(local[ProcOf[r]][w], w)]]
    BY <1>2 DEF ConsumeLocal
  <2>5. local' \in [Procs -> [Windows -> Window]] BY <2>1, <2>3, <2>4
  <2>6. faults' \in 0 .. MaxFaults
    BY <1>2, AdmissionConstants DEF ConsumeLocal, Fault
  <2>. QED BY <1>2, <2>5, <2>6 DEF ConsumeLocal
<1>. QED BY <1>1, <1>2

LEMMA WriteTypes ==
    ASSUME TypeOK, NEW r \in Requests, NEW budgets \in SUBSET Budgets,
           Write(r, budgets)
    PROVE  /\ used' \in [Budgets -> Nat] /\ resetAt' \in [Budgets -> Nat]
           /\ posted' \in [Budgets -> Nat] /\ beyond' \in [Budgets -> Nat]
           /\ slipped' \subseteq Budgets
<1> DEFINE grown(f, n) == [b \in Budgets |-> f[b] + IF b \in budgets THEN n ELSE 0]
<1>1. ASSUME NEW f \in [Budgets -> Nat], NEW n \in Nat
      PROVE  grown(f, n) \in [Budgets -> Nat]
  OBVIOUS
<1>2. cost[r] \in Nat /\ Estimate \in Nat BY AdmissionConstants DEF TypeOK
<1>3. (IF r \in loose THEN cost[r]
       ELSE IF cost[r] > Estimate THEN cost[r] - Estimate ELSE 0) \in Nat
  BY <1>2
<1>. QED BY <1>1, <1>2, <1>3 DEF Write, TypeOK

-----------------------------------------------------------------------------
(* The steps that leave the clock and the budgets alone, and at most drop  *)
(* rollovers a request has read.                                           *)

Quiet ==
    /\ now' = now /\ UNCHANGED <<used, resetAt, posted, slipped>>
    /\ \A r \in Requests : due'[r] \subseteq due[r]

LEMMA QuietKeeps ==
    ASSUME IInv, TypeOK', Quiet PROVE IInv'
<1>1. \A b \in Budgets : ResetInv(b)' /\ CountInv(b)'
  BY DEF IInv, Quiet, ResetInv, CountInv, IsDue, NextReset
<1>2. \A r \in Requests : \A d \in due'[r] : RolloverInv(d)'
  BY DEF IInv, Quiet, RolloverInv, NextReset
<1>. QED BY <1>1, <1>2 DEF IInv

LEMMA PassStep ==
    ASSUME IInv, NEW r \in Requests,
           PassToken(r) \/ PassTotal(r) \/ ReadSuccess(r)
    PROVE  IInv'
<1>1. TypeOK BY DEF IInv
<1>2. /\ now' = now /\ UNCHANGED <<budgetVars, due, cost, excess, loose>>
      /\ hasty' \subseteq Requests
  BY <1>1 DEF PassToken, PassTotal, PassWindow, ReadSuccess, checkVars, TypeOK
<1>3. step' \in [Requests -> Places]
  <2>1. \E place \in Places : Goto(r, place)
    BY DEF PassToken, PassTotal, PassWindow, ReadSuccess, Places
  <2>. QED BY <1>1, <2>1 DEF Goto, TypeOK
<1>4. /\ stored' \in [Windows -> Window]
      /\ local' \in [Procs -> [Windows -> Window]]
      /\ passes' \in [Windows -> Seq(0 .. MaxTime)]
      /\ faults' \in 0 .. MaxFaults
  <2>1. CASE ReadSuccess(r)
    BY <1>1, <2>1, AdmissionConstants DEF ReadSuccess, Fault, windowVars, TypeOK
  <2>2. CASE PassToken(r) \/ PassTotal(r)
    <3>1. \E w \in Windows : ConsumeStored(r, w) \/ ConsumeLocal(r, w)
      BY <2>2 DEF PassToken, PassTotal, PassWindow, Windows
    <3>. QED BY <1>1, <3>1, ConsumeTypes
  <2>. QED BY <2>1, <2>2
<1>5. TypeOK' BY <1>1, <1>2, <1>3, <1>4 DEF TypeOK, budgetVars
<1>6. Quiet BY <1>2 DEF Quiet, budgetVars
<1>. QED BY <1>5, <1>6, QuietKeeps

LEMMA GuardStep ==
    ASSUME IInv, NEW r \in Requests,
           Evaluate(r) \/ GuardFails(r) \/ UpstreamAnswers(r) \/ UpstreamFails(r)
    PROVE  IInv'
<1>1. TypeOK BY DEF IInv
<1>2. step' \in [Requests -> Places]
  <2>1. \E place \in Places : Goto(r, place)
    BY DEF Evaluate, GuardFails, UpstreamAnswers, UpstreamFails, Places
  <2>. QED BY <1>1, <2>1 DEF Goto, TypeOK
<1>3. due' \in [Requests -> SUBSET Rollovers] /\ \A x \in Requests : due'[x] \subseteq due[x]
  BY <1>1 DEF Evaluate, GuardFails, UpstreamAnswers, UpstreamFails, TypeOK
<1>4. now' = now /\ UNCHANGED budgetVars
  BY DEF Evaluate, GuardFails, UpstreamAnswers, UpstreamFails
<1>5. cost' \in [Requests -> Nat] /\ excess' \in Nat /\ hasty' \subseteq Requests
      /\ loose' \subseteq Requests
  <2>1. CASE UpstreamAnswers(r)
    <3>1. PICK c \in Costs : cost' = [cost EXCEPT ![r] = c]
      BY <2>1 DEF UpstreamAnswers
    <3>2. c \in Nat BY AdmissionConstants
    <3>3. cost' \in [Requests -> Nat] BY <1>1, <3>1, <3>2 DEF TypeOK
    <3>. QED BY <1>1, <2>1, <3>3 DEF UpstreamAnswers, TypeOK
  <2>2. CASE Evaluate(r)
    <3>1. loose' = loose \/ loose' = loose \union {r} BY <2>2 DEF Evaluate
    <3>. QED BY <1>1, <2>2, <3>1 DEF Evaluate, TypeOK
  <2>3. CASE GuardFails(r) \/ UpstreamFails(r)
    BY <1>1, <2>3 DEF GuardFails, UpstreamFails, TypeOK, checkVars
  <2>. QED BY <2>1, <2>2, <2>3
<1>6. /\ stored' \in [Windows -> Window]
      /\ local' \in [Procs -> [Windows -> Window]]
      /\ passes' \in [Windows -> Seq(0 .. MaxTime)]
      /\ faults' \in 0 .. MaxFaults
  <2>1. CASE UpstreamAnswers(r)
    <3>1. ConsumeStored(r, "success") \/ ConsumeLocal(r, "success")
      BY <2>1 DEF UpstreamAnswers
    <3>. QED BY <1>1, <3>1, ConsumeTypes DEF Windows
  <2>2. CASE Evaluate(r) \/ GuardFails(r) \/ UpstreamFails(r)
    BY <1>1, <2>2, AdmissionConstants
       DEF Evaluate, GuardFails, UpstreamFails, Fault, windowVars, TypeOK
  <2>. QED BY <2>1, <2>2
<1>7. TypeOK' BY <1>1, <1>2, <1>3, <1>4, <1>5, <1>6 DEF TypeOK, budgetVars
<1>8. Quiet BY <1>3, <1>4 DEF Quiet, budgetVars
<1>. QED BY <1>7, <1>8, QuietKeeps

-----------------------------------------------------------------------------
(* The clock, the rollovers and the writes.                                *)

LEMMA TickStep == ASSUME IInv, Tick PROVE IInv'
<1>. USE DEF IInv
<1>1. /\ now' = now + 1 /\ now < MaxTime /\ now \in Nat /\ now' \in Nat
      /\ UNCHANGED <<used, resetAt, due>>
  BY AdmissionConstants DEF Tick, TypeOK
<1>2. \A b \in Budgets : posted'[b] = IF b \in Ending(now') THEN 0 ELSE posted[b]
  BY DEF Tick
<1>3. slipped' = slipped \ Ending(now') BY DEF Tick
<1>4. TypeOK'
  <2>1. now' \in 0 .. MaxTime BY <1>1, AdmissionConstants
  <2>2. posted' \in [Budgets -> Nat] /\ beyond' \in [Budgets -> Nat]
    BY DEF Tick, TypeOK
  <2>. QED BY <1>1, <1>3, <2>1, <2>2 DEF Tick, TypeOK, windowVars, checkVars
<1>5. ASSUME NEW b \in Budgets PROVE ResetInv(b)' /\ CountInv(b)'
  <2>1. resetAt'[b] = resetAt[b] /\ used'[b] = used[b] /\ resetAt[b] \in Nat
    BY <1>1 DEF TypeOK
  <2>2. CASE Period[b] = 0
    <3>1. resetAt[b] = 0 /\ b \notin Ending(now') BY <2>2 DEF ResetInv, Ending
    <3>2. ~IsDue(b) /\ ~IsDue(b)' BY <2>1, <3>1 DEF IsDue
    <3>. QED BY <1>2, <1>3, <2>1, <2>2, <3>1, <3>2 DEF ResetInv, CountInv
  <2>3. CASE Period[b] # 0
    <3>1. Period[b] \in Nat /\ Period[b] > 0 BY <2>3, AdmissionConstants
    <3>2. /\ resetAt[b] > 0 /\ resetAt[b] % Period[b] = 0
          /\ resetAt[b] <= NextReset(b, now)
      BY <2>3 DEF ResetInv
    <3>3. /\ NextReset(b, now) \in Nat /\ NextReset(b, now + 1) \in Nat
          /\ NextReset(b, now) <= NextReset(b, now + 1)
          /\ (now + 1) % Period[b] = 0 => NextReset(b, now) = now + 1
      BY <1>1, <3>1, Boundary
    <3>4. NextReset(b, now)' = NextReset(b, now + 1) BY <1>1 DEF NextReset
    <3>5. ResetInv(b)' BY <2>1, <2>3, <3>2, <3>3, <3>4 DEF ResetInv
    <3>6. CASE (now + 1) % Period[b] = 0
      <4>1. b \in Ending(now') BY <1>1, <3>1, <3>6 DEF Ending
      <4>2. IsDue(b)' BY <1>1, <2>1, <3>2, <3>3, <3>6 DEF IsDue
      <4>3. posted'[b] = 0 BY <1>2, <4>1
      <4>. QED BY <3>5, <4>2, <4>3 DEF CountInv
    <3>7. CASE (now + 1) % Period[b] # 0
      <4>1. b \notin Ending(now') BY <1>1, <3>7 DEF Ending
      <4>2. resetAt[b] <= now + 1 => resetAt[b] <= now
        BY <1>1, <3>2, <3>7, <2>1
      <4>3. IsDue(b)' <=> IsDue(b) BY <1>1, <2>1, <4>2 DEF IsDue
      <4>4. CountInv(b)' BY <1>2, <1>3, <2>1, <4>1, <4>3 DEF CountInv
      <4>. QED BY <3>5, <4>4
    <3>. QED BY <3>6, <3>7
  <2>. QED BY <2>2, <2>3
<1>6. ASSUME NEW r \in Requests, NEW d \in due'[r] PROVE RolloverInv(d)'
  <2>1. d \in due[r] /\ RolloverInv(d) BY <1>1, <1>6
  <2>2. d \in Rollovers BY <2>1 DEF TypeOK
  <2>3. d.budget \in Budgets /\ Period[d.budget] > 0 /\ d.at \in Nat /\ d.next \in Nat
    BY <2>2 DEF Rollovers
  <2>4. /\ NextReset(d.budget, now) \in Nat /\ NextReset(d.budget, now + 1) \in Nat
        /\ NextReset(d.budget, now) <= NextReset(d.budget, now + 1)
    BY <1>1, <2>3, Boundary
  <2>5. NextReset(d.budget, now)' = NextReset(d.budget, now + 1)
    BY <1>1 DEF NextReset
  <2>. QED BY <1>1, <2>1, <2>3, <2>4, <2>5 DEF RolloverInv
<1>. QED BY <1>4, <1>5, <1>6

LEMMA SelectStep == ASSUME IInv, NEW r \in Requests, SelectDue(r) PROVE IInv'
<1>. USE DEF IInv
<1>1. UNCHANGED <<now, used, resetAt, posted, slipped>> /\ now \in Nat
  BY AdmissionConstants DEF SelectDue, budgetVars, TypeOK
<1>2. ASSUME NEW b \in Budgets, IsDue(b)
      PROVE  LET d == [budget |-> b, at |-> resetAt[b], next |-> NextReset(b, now)]
             IN  d \in Rollovers /\ RolloverInv(d)
  <2>1. Period[b] > 0 /\ resetAt[b] \in Nat
    BY <1>2, AdmissionConstants DEF IsDue, ResetInv, TypeOK
  <2>2. /\ NextReset(b, now) \in Nat /\ NextReset(b, now) > now
        /\ NextReset(b, now) % Period[b] = 0
    BY <1>1, <2>1, Boundary
  <2>3. resetAt[b] > 0 /\ resetAt[b] <= now BY <1>2, <2>1 DEF IsDue
  <2>. QED BY <1>1, <2>1, <2>2, <2>3 DEF Rollovers, RolloverInv
<1> DEFINE new == {[budget |-> b, at |-> resetAt[b], next |-> NextReset(b, now)] :
                      b \in {c \in Budgets : IsDue(c)}}
<1>3. new \in SUBSET Rollovers /\ \A d \in new : RolloverInv(d) BY <1>2
<1>4. due' = [due EXCEPT ![r] = new] BY DEF SelectDue
<1>. HIDE DEF new
<1>5. due' \in [Requests -> SUBSET Rollovers] BY <1>3, <1>4 DEF TypeOK
<1>6. step' \in [Requests -> Places] BY DEF SelectDue, Goto, TypeOK, Places
<1>7. TypeOK' BY <1>5, <1>6 DEF SelectDue, TypeOK, windowVars, budgetVars, checkVars
<1>8. \A b \in Budgets : ResetInv(b)' /\ CountInv(b)'
  BY <1>1 DEF ResetInv, CountInv, IsDue, NextReset
<1>9. \A x \in Requests : \A d \in due'[x] : RolloverInv(d)
  BY <1>3, <1>4 DEF TypeOK
<1>10. \A x \in Requests : \A d \in due'[x] : RolloverInv(d)'
  BY <1>1, <1>9 DEF RolloverInv, NextReset
<1>. QED BY <1>7, <1>8, <1>10

LEMMA RollStep ==
    ASSUME IInv, NEW r \in Requests, NEW d \in due[r], RollOver(r, d) PROVE IInv'
<1>. USE DEF IInv
<1>1. UNCHANGED <<now, posted, slipped>> /\ now \in Nat
  BY AdmissionConstants DEF RollOver, TypeOK
<1>2. d \in Rollovers /\ RolloverInv(d) BY DEF TypeOK
<1>3. /\ d.budget \in Budgets /\ Period[d.budget] > 0
      /\ d.at \in Nat /\ d.next \in Nat
  BY <1>2 DEF Rollovers
<1>4. due' \in [Requests -> SUBSET Rollovers] /\ \A x \in Requests : due'[x] \subseteq due[x]
  BY DEF RollOver, TypeOK
<1>5. used' \in [Budgets -> Nat] /\ resetAt' \in [Budgets -> Nat]
  <2>1. CASE resetAt[d.budget] = d.at
    <3>1. /\ used' = [used EXCEPT ![d.budget] = 0]
          /\ resetAt' = [resetAt EXCEPT ![d.budget] = d.next]
      BY <2>1 DEF RollOver
    <3>. QED BY <1>3, <3>1 DEF TypeOK
  <2>2. CASE resetAt[d.budget] # d.at BY <2>2 DEF RollOver, TypeOK
  <2>. QED BY <2>1, <2>2
<1>6. TypeOK' BY <1>4, <1>5 DEF RollOver, TypeOK, windowVars, checkVars
<1>7. \A x \in Requests : \A e \in due'[x] : RolloverInv(e)'
  BY <1>1, <1>4 DEF RolloverInv, NextReset
<1>8. ASSUME NEW b \in Budgets PROVE ResetInv(b)' /\ CountInv(b)'
  <2>1. CASE b = d.budget /\ resetAt[b] = d.at
    <3>1. used'[b] = 0 /\ resetAt'[b] = d.next BY <2>1 DEF RollOver, TypeOK
    <3>2. ResetInv(b)'
      BY <1>1, <1>2, <1>3, <2>1, <3>1 DEF ResetInv, RolloverInv, NextReset
    <3>3. IsDue(b) BY <1>2, <2>1 DEF IsDue, RolloverInv
    <3>4. b \in slipped \/ posted[b] = 0 BY <3>3 DEF CountInv
    <3>. QED BY <1>1, <3>1, <3>2, <3>4 DEF CountInv
  <2>2. CASE ~(b = d.budget /\ resetAt[b] = d.at)
    <3>1. used'[b] = used[b] /\ resetAt'[b] = resetAt[b]
      BY <2>2 DEF RollOver, TypeOK
    <3>. QED BY <1>1, <3>1 DEF ResetInv, CountInv, IsDue, NextReset
  <2>. QED BY <2>1, <2>2
<1>. QED BY <1>6, <1>7, <1>8

LEMMA WriteKeeps ==
    ASSUME IInv, NEW r \in Requests, NEW budgets \in SUBSET Budgets,
           Write(r, budgets), now' = now, TypeOK',
           \A x \in Requests : due'[x] \subseteq due[x]
    PROVE  IInv'
<1>. USE DEF IInv
<1>1. ASSUME NEW b \in Budgets PROVE ResetInv(b)' /\ CountInv(b)'
  <2>1. resetAt' = resetAt BY DEF Write
  <2>2. ResetInv(b)' BY <2>1 DEF ResetInv, NextReset
  <2>3. IsDue(b)' <=> IsDue(b) BY <2>1 DEF IsDue
  <2>4. slipped' = slipped \union {c \in budgets : IsDue(c)} BY DEF Write
  <2>5. CASE b \notin budgets
    <3>1. used'[b] = used[b] /\ posted'[b] = posted[b]
      BY <2>5 DEF Write, TypeOK
    <3>. QED BY <2>2, <2>3, <2>4, <2>5, <3>1 DEF CountInv
  <2>6. CASE b \in budgets /\ IsDue(b) BY <2>2, <2>4, <2>6 DEF CountInv
  <2>7. CASE b \in budgets /\ ~IsDue(b)
    <3>1. used'[b] = used[b] + cost[r] /\ posted'[b] = posted[b] + cost[r]
      BY <2>7 DEF Write
    <3>2. b \in slipped \/ used[b] = posted[b] BY <2>7 DEF CountInv
    <3>. QED BY <2>2, <2>3, <2>4, <2>7, <3>1, <3>2 DEF CountInv
  <2>. QED BY <2>5, <2>6, <2>7
<1>2. \A x \in Requests : \A d \in due'[x] : RolloverInv(d)'
  BY DEF RolloverInv, NextReset
<1>. QED BY <1>1, <1>2

LEMMA PostStep ==
    ASSUME IInv, NEW r \in Requests, Post(r) \/ PostFails(r) PROVE IInv'
<1>1. TypeOK BY DEF IInv
<1>2. due' \in [Requests -> SUBSET Rollovers] /\ \A x \in Requests : due'[x] \subseteq due[x]
  BY <1>1 DEF Post, PostFails, TypeOK
<1>3. step' \in [Requests -> Places]
  BY <1>1 DEF Post, PostFails, Goto, TypeOK, Places
<1>4. /\ cost' \in [Requests -> Nat] /\ faults' \in 0 .. MaxFaults
      /\ loose' \subseteq Requests /\ now' = now
      /\ UNCHANGED <<windowVars, hasty, excess>>
  <2>1. cost' = [cost EXCEPT ![r] = 0] BY DEF Post, PostFails
  <2>2. cost' \in [Requests -> Nat] BY <1>1, <2>1 DEF TypeOK
  <2>3. faults' = faults \/ Fault BY DEF Post, PostFails
  <2>4. faults' \in 0 .. MaxFaults BY <1>1, <2>3, FaultTypes DEF TypeOK
  <2>5. loose' = loose \ {r} \/ loose' = loose \union {r} BY DEF Post, PostFails
  <2>6. loose' \subseteq Requests BY <1>1, <2>5 DEF TypeOK
  <2>7. now' = now /\ UNCHANGED <<windowVars, hasty, excess>> BY DEF Post, PostFails
  <2>. QED BY <2>2, <2>4, <2>6, <2>7
<1>5. CASE UNCHANGED budgetVars
  <2>1. TypeOK' BY <1>1, <1>2, <1>3, <1>4, <1>5 DEF TypeOK, windowVars, budgetVars
  <2>. QED BY <1>2, <1>4, <1>5, <2>1, QuietKeeps DEF Quiet, budgetVars
<1>6. ASSUME NEW budgets \in SUBSET Budgets, Write(r, budgets) PROVE IInv'
  <2>1. TypeOK'
    BY <1>1, <1>2, <1>3, <1>4, <1>6, WriteTypes DEF TypeOK, windowVars
  <2>. QED BY <1>2, <1>4, <1>6, <2>1, WriteKeeps
<1>. QED BY <1>5, <1>6 DEF Post, PostFails

-----------------------------------------------------------------------------
LEMMA InitInv == Init => IInv
<1>. SUFFICES ASSUME Init PROVE IInv
  OBVIOUS
<1>1. ASSUME NEW b \in Budgets
      PROVE  /\ NextReset(b, 0) \in Nat /\ ResetInv(b) /\ CountInv(b)
  <2>1. now = 0 /\ resetAt[b] = NextReset(b, 0) /\ used[b] = 0 /\ posted[b] = 0
    BY DEF Init
  <2>2. CASE Period[b] = 0
    BY <2>1, <2>2 DEF NextReset, ResetInv, CountInv, IsDue
  <2>3. CASE Period[b] # 0
    <3>1. Period[b] > 0 BY <2>3, AdmissionConstants
    <3>2. NextReset(b, 0) \in Nat /\ NextReset(b, 0) > 0
          /\ NextReset(b, 0) % Period[b] = 0
      BY <3>1, Boundary
    <3>. QED BY <2>1, <2>3, <3>2 DEF ResetInv, CountInv, IsDue
  <2>. QED BY <2>2, <2>3
<1>2. TypeOK
  BY <1>1, AdmissionConstants DEF Init, TypeOK, NoWindow, Window, Places
<1>3. \A r \in Requests : due[r] = {} BY DEF Init
<1>. QED BY <1>1, <1>2, <1>3 DEF IInv

LEMMA StepInv == IInv /\ [Next]_vars => IInv'
<1>. SUFFICES ASSUME IInv, [Next]_vars PROVE IInv'
  OBVIOUS
<1>1. CASE UNCHANGED vars
  <2>1. TypeOK' /\ Quiet
    BY <1>1 DEF IInv, TypeOK, Quiet, vars, windowVars, budgetVars, checkVars
  <2>. QED BY <2>1, QuietKeeps
<1>2. CASE Next
  BY <1>2, TickStep, PassStep, SelectStep, RollStep, GuardStep, PostStep DEF Next
<1>. QED BY <1>1, <1>2

\* Boundaries and what requests have read of them stay right, however many
\* requests select, roll over and write at once.
THEOREM Invariance == Spec => []IInv
BY InitInv, StepInv, PTL DEF Spec

\* Windows, budgets and requests keep their types; what a request is about to
\* roll over has a period.
THEOREM TypeCorrect == Spec => []TypeOK
<1>1. IInv => TypeOK BY DEF IInv
<1>. QED BY <1>1, Invariance, PTL

\* A budget's used_quota is what was written since its last boundary, unless
\* it was written between a boundary and the rollover.
THEOREM UsageIsCounted == Spec => []UsageCounted
<1>1. IInv => UsageCounted BY DEF IInv, CountInv, UsageCounted
<1>. QED BY <1>1, Invariance, PTL

-----------------------------------------------------------------------------
(* The windows: the requests a stored window let through belong to blocks, *)
(* one for each time it was opened.                                        *)

\* ends[i] is the end of the block of the i-th request.  The request that
\* opens a block comes Length before its end, a block is opened when the one
\* before it has ended, and it has at most Limit requests.
Blocks(n, limit, length, log, ends) ==
    /\ \A i \in 1 .. n :
          /\ log[i] < ends[i] /\ ends[i] <= log[i] + length
          /\ (i = 1 \/ ends[i - 1] # ends[i]) => ends[i] = log[i] + length
    /\ \A i, j \in 1 .. n : i < j => ends[i] = ends[j] \/ ends[i] + length <= ends[j]
    /\ \A i, j \in 1 .. n : j = i + limit => ends[i] # ends[j]

\* The last block may be the stored window's.
IsBlocks(w, ends) ==
    LET n == Len(passes[w])
        win == stored[w]
    IN  /\ Blocks(n, Limit[w], Length[w], passes[w], ends)
        /\ \A i \in 1 .. n : \/ ends[i] = win.until /\ i + win.count > n
                             \/ ends[i] + Length[w] <= win.until

\* The open block is the stored window's.
WindowInv(w) ==
    /\ \E ends \in [1 .. Len(passes[w]) -> Nat] :
          /\ IsBlocks(w, ends)
          /\ stored[w].until > 0 =>
                Len(passes[w]) > 0 /\ ends[Len(passes[w])] = stored[w].until
    /\ stored[w].until <= now + Length[w]

-----------------------------------------------------------------------------
(* The limit on successes: what is still at its upstream and was admitted  *)
(* with nothing else there.                                                *)

Awaited(r) == step[r] = "upstream" /\ r \notin hasty

SuccessInv ==
    /\ Count(stored["success"]) <= Limit["success"] + excess
    /\ \A r \in Requests : Awaited(r) =>
          /\ Count(stored["success"]) < Limit["success"] + excess
          /\ \A s \in Requests : Awaited(s) => s = r
    /\ \A r \in Requests : step[r] \in {"served", "closing"} => r \in hasty

-----------------------------------------------------------------------------
(* The budgets: an admitted request whose check saw all usage is the only  *)
(* such one, and what it asked for still fits.                             *)

Open(r) == step[r] \in {"limiting", "counting", "upstream", "served", "closing"}
Covered(r) == Open(r) /\ r \notin loose

BudgetInv ==
    /\ \A b \in Budgets : /\ beyond[b] <= posted[b]
                          /\ posted[b] <= BudgetLimit[b] + beyond[b]
    /\ \A r \in Requests : Covered(r) =>
          /\ \A b \in Budgets : posted[b] + Estimate <= BudgetLimit[b] + beyond[b]
          /\ \A s \in Requests : Covered(s) => s = r

LimitInv ==
    /\ IInv
    /\ \A w \in Windows : WindowInv(w)
    /\ SuccessInv
    /\ ~Overage => BudgetInv

-----------------------------------------------------------------------------
(* The windows' blocks are invariant.                                      *)

LEMMA WindowConstants ==
    ASSUME TypeOK, NEW w \in Windows
    PROVE  /\ Limit[w] \in Nat /\ Limit[w] > 0 /\ Length[w] \in Nat /\ Length[w] > 0
           /\ now \in Nat
           /\ stored[w] \in Window /\ stored[w].count \in Nat /\ stored[w].until \in Nat
           /\ passes[w] \in Seq(0 .. MaxTime) /\ Len(passes[w]) \in Nat
           /\ \A i \in 1 .. Len(passes[w]) : passes[w][i] \in Nat
BY AdmissionConstants DEF TypeOK, Window

LEMMA WindowIdle ==
    ASSUME TypeOK, TypeOK', NEW w \in Windows, WindowInv(w),
           passes'[w] = passes[w], stored'[w] = stored[w], now <= now'
    PROVE  WindowInv(w)'
<1>1. PICK ends \in [1 .. Len(passes[w]) -> Nat] :
          /\ IsBlocks(w, ends)
          /\ stored[w].until > 0 =>
                Len(passes[w]) > 0 /\ ends[Len(passes[w])] = stored[w].until
  BY DEF WindowInv
<1>2. IsBlocks(w, ends)' BY <1>1 DEF IsBlocks, Blocks
<1>3. stored'[w].until <= now' + Length[w]
  <2>1. stored[w].until <= now + Length[w] BY DEF WindowInv
  <2>2. /\ now \in Nat /\ now' \in Nat /\ Length[w] \in Nat
        /\ stored[w].until \in Nat
    BY WindowConstants, AdmissionConstants DEF TypeOK
  <2>. QED BY <2>1, <2>2
<1>. QED BY <1>1, <1>2, <1>3 DEF WindowInv

\* A request that the open block still has room for.
LEMMA WindowCounts ==
    ASSUME TypeOK, NEW w \in Windows, WindowInv(w), now' = now,
           stored[w].until > now, stored'[w].until = stored[w].until,
           stored'[w].count = stored[w].count + 1,
           \/ stored[w].count + 1 <= Limit[w] /\ passes'[w] = Append(passes[w], now)
           \/ passes'[w] = passes[w]
    PROVE  WindowInv(w)'
<1> DEFINE n == Len(passes[w])
           until == stored[w].until
           count == stored[w].count
           L == Length[w]
<1>1. PICK ends \in [1 .. n -> Nat] :
          IsBlocks(w, ends) /\ (until > 0 => n > 0 /\ ends[n] = until)
  BY DEF WindowInv
<1>2. /\ n \in Nat /\ until \in Nat /\ count \in Nat /\ L \in Nat /\ L > 0
      /\ Limit[w] \in Nat /\ Limit[w] > 0 /\ now \in Nat
      /\ n > 0 /\ ends[n] = until /\ until <= now + L
      /\ \A i \in 1 .. n : passes[w][i] \in Nat
  BY <1>1, WindowConstants DEF WindowInv
<1>3. CASE passes'[w] = passes[w]
  <2>1. IsBlocks(w, ends)'
    BY <1>1, <1>2, <1>3 DEF IsBlocks, Blocks
  <2>. QED BY <1>1, <1>2, <1>3, <2>1 DEF WindowInv
<1>4. CASE count + 1 <= Limit[w] /\ passes'[w] = Append(passes[w], now)
  <2>0. PICK more : more = [i \in 1 .. n + 1 |-> IF i = n + 1 THEN until ELSE ends[i]]
    OBVIOUS
  <2>1. /\ Len(passes[w])' = n + 1 /\ passes'[w][n + 1] = now
        /\ \A i \in 1 .. n : passes'[w][i] = passes[w][i]
    BY <1>4, WindowConstants
  <2>2. /\ more \in [1 .. n + 1 -> Nat] /\ more[n + 1] = until
        /\ \A i \in 1 .. n : more[i] = ends[i]
    BY <1>2, <2>0
  <2>3. \A i \in 1 .. n : /\ passes[w][i] < ends[i] /\ ends[i] <= passes[w][i] + L
                          /\ i = 1 \/ ends[i - 1] # ends[i] => ends[i] = passes[w][i] + L
    BY <1>1 DEF IsBlocks, Blocks
  <2>4. \A i, j \in 1 .. n : i < j => ends[i] = ends[j] \/ ends[i] + L <= ends[j]
    BY <1>1 DEF IsBlocks, Blocks
  <2>5. \A i, j \in 1 .. n : j = i + Limit[w] => ends[i] # ends[j]
    BY <1>1 DEF IsBlocks, Blocks
  <2>6. \A i \in 1 .. n : \/ ends[i] = until /\ i + count > n
                          \/ ends[i] + L <= until
    BY <1>1 DEF IsBlocks, Blocks
  <2>7. \A i \in 1 .. n + 1 : i = n + 1 \/ i \in 1 .. n
    BY <1>2
  <2>8. ASSUME NEW i \in 1 .. n + 1
        PROVE  /\ passes'[w][i] < more[i] /\ more[i] <= passes'[w][i] + L
               /\ i = 1 \/ more[i - 1] # more[i] => more[i] = passes'[w][i] + L
    <3>1. CASE i = n + 1
      <4>1. passes'[w][i] = now /\ more[i] = until
        BY <2>1, <2>2, <3>1
      <4>2. i - 1 = n /\ i # 1
        BY <1>2, <3>1
      <4>4. more[n] = ends[n]
        <5>1. n \in 1 .. n BY <1>2
        <5>. QED BY <2>2, <5>1
      <4>5. more[i - 1] = more[i]
        BY <1>2, <4>1, <4>2, <4>4
      <4>3. now < until
        OBVIOUS
      <4>. QED BY <1>2, <4>1, <4>2, <4>3, <4>5
    <3>2. CASE i \in 1 .. n
      <4>1. i = 1 \/ more[i - 1] = ends[i - 1] BY <1>2, <2>2, <3>2
      <4>. QED BY <2>1, <2>2, <2>3, <3>2, <4>1
    <3>. QED BY <2>7, <3>1, <3>2
  <2>9. ASSUME NEW i \in 1 .. n + 1, NEW j \in 1 .. n + 1, i < j
        PROVE  more[i] = more[j] \/ more[i] + L <= more[j]
    <3>1. i \in 1 .. n BY <1>2, <2>9
    <3>2. CASE j = n + 1 BY <2>2, <2>6, <3>1, <3>2
    <3>3. CASE j \in 1 .. n BY <2>2, <2>4, <2>9, <3>1, <3>3
    <3>. QED BY <2>7, <3>2, <3>3
  <2>10. ASSUME NEW i \in 1 .. n + 1, NEW j \in 1 .. n + 1, j = i + Limit[w]
         PROVE  more[i] # more[j]
    <3>1. i \in 1 .. n BY <1>2, <2>10
    <3>2. CASE j = n + 1
      <4>0. /\ i \in Nat /\ n \in Nat /\ count \in Nat /\ Limit[w] \in Nat
            /\ n + 1 = i + Limit[w] /\ count + 1 <= Limit[w]
        <5>1. i \in Nat /\ n \in Nat /\ count \in Nat /\ Limit[w] \in Nat BY <1>2
        <5>2. n + 1 = i + Limit[w] BY <2>10, <3>2
        <5>3. count + 1 <= Limit[w] BY <1>4
        <5>. QED BY <5>1, <5>2, <5>3
      <4>1. ~(i + count > n) BY <4>0
      <4>2. ends[i] + L <= until BY <2>6, <3>1, <4>1
      <4>3. ends[i] \in Nat BY <3>1
      <4>. QED BY <1>2, <2>2, <3>1, <3>2, <4>2, <4>3
    <3>3. CASE j \in 1 .. n BY <2>2, <2>5, <2>10, <3>1, <3>3
    <3>. QED BY <2>7, <3>2, <3>3
  <2>11. ASSUME NEW i \in 1 .. n + 1
         PROVE  \/ more[i] = until /\ i + (count + 1) > n + 1
                \/ more[i] + L <= until
    <3>1. CASE i = n + 1 BY <1>2, <2>2, <3>1
    <3>2. CASE i \in 1 .. n BY <1>2, <2>2, <2>6, <3>2
    <3>. QED BY <2>7, <3>1, <3>2
  <2>12. IsBlocks(w, more)'
    BY <2>1, <2>8, <2>9, <2>10, <2>11 DEF IsBlocks, Blocks
  <2>. QED BY <1>2, <2>1, <2>2, <2>12 DEF WindowInv
<1>. QED BY <1>3, <1>4

\* A window that has ended opens the next block.
LEMMA WindowOpens ==
    ASSUME TypeOK, NEW w \in Windows, WindowInv(w), now' = now,
           stored[w].until <= now, stored'[w].until = now + Length[w],
           stored'[w].count = 1, passes'[w] = Append(passes[w], now)
    PROVE  WindowInv(w)'
<1> DEFINE n == Len(passes[w])
           until == stored[w].until
           L == Length[w]
           T == now + L
<1>1. PICK ends \in [1 .. n -> Nat] : IsBlocks(w, ends)
  BY DEF WindowInv
<1>2. /\ n \in Nat /\ until \in Nat /\ L \in Nat /\ L > 0
      /\ Limit[w] \in Nat /\ Limit[w] > 0 /\ now \in Nat
      /\ \A i \in 1 .. n : passes[w][i] \in Nat
  BY WindowConstants
<1>0. PICK more : more = [i \in 1 .. n + 1 |-> IF i = n + 1 THEN T ELSE ends[i]]
  OBVIOUS
<1>3. /\ Len(passes[w])' = n + 1 /\ passes'[w][n + 1] = now
      /\ \A i \in 1 .. n : passes'[w][i] = passes[w][i]
  BY WindowConstants
<1>4. /\ more \in [1 .. n + 1 -> Nat] /\ more[n + 1] = T
      /\ \A i \in 1 .. n : more[i] = ends[i]
  BY <1>0, <1>2
<1>5. \A i \in 1 .. n : /\ passes[w][i] < ends[i] /\ ends[i] <= passes[w][i] + L
                        /\ i = 1 \/ ends[i - 1] # ends[i] => ends[i] = passes[w][i] + L
  BY <1>1 DEF IsBlocks, Blocks
<1>6. \A i, j \in 1 .. n : i < j => ends[i] = ends[j] \/ ends[i] + L <= ends[j]
  BY <1>1 DEF IsBlocks, Blocks
<1>7. \A i, j \in 1 .. n : j = i + Limit[w] => ends[i] # ends[j]
  BY <1>1 DEF IsBlocks, Blocks
<1>8. \A i \in 1 .. n : ends[i] \in Nat /\ ends[i] + L <= T
  <2>. SUFFICES ASSUME NEW i \in 1 .. n PROVE ends[i] \in Nat /\ ends[i] + L <= T
    OBVIOUS
  <2>1. ends[i] = until \/ ends[i] + L <= until
    BY <1>1 DEF IsBlocks, Blocks
  <2>2. ends[i] \in Nat /\ until <= now
    OBVIOUS
  <2>. HIDE DEF until, L
  <2>3. ends[i] + L <= now + L
    BY <1>2, <2>1, <2>2
  <2>. QED BY <2>2, <2>3 DEF L
<1>9. \A i \in 1 .. n + 1 : i = n + 1 \/ i \in 1 .. n
  BY <1>2
<1>10. ASSUME NEW i \in 1 .. n + 1
       PROVE  /\ passes'[w][i] < more[i] /\ more[i] <= passes'[w][i] + L
              /\ i = 1 \/ more[i - 1] # more[i] => more[i] = passes'[w][i] + L
  <2>1. CASE i = n + 1
    BY <1>2, <1>3, <1>4, <2>1
  <2>2. CASE i \in 1 .. n
    <3>1. i # 1 => i - 1 \in 1 .. n BY <1>2, <2>2
    <3>. QED BY <1>3, <1>4, <1>5, <2>2, <3>1
  <2>. QED BY <1>9, <2>1, <2>2
<1>11. ASSUME NEW i \in 1 .. n + 1, NEW j \in 1 .. n + 1, i < j
       PROVE  more[i] = more[j] \/ more[i] + L <= more[j]
  <2>1. i \in 1 .. n BY <1>2, <1>11
  <2>2. CASE j = n + 1 BY <1>4, <1>8, <2>1, <2>2
  <2>3. CASE j \in 1 .. n BY <1>4, <1>6, <1>11, <2>1, <2>3
  <2>. QED BY <1>9, <2>2, <2>3
<1>12. ASSUME NEW i \in 1 .. n + 1, NEW j \in 1 .. n + 1, j = i + Limit[w]
       PROVE  more[i] # more[j]
  <2>1. i \in 1 .. n BY <1>2, <1>12
  <2>2. CASE j = n + 1
    <3>1. ends[i] \in Nat /\ ends[i] + L <= T BY <1>8, <2>1
    <3>. QED BY <1>2, <1>4, <2>1, <2>2, <3>1
  <2>3. CASE j \in 1 .. n BY <1>4, <1>7, <1>12, <2>1, <2>3
  <2>. QED BY <1>9, <2>2, <2>3
<1>13. ASSUME NEW i \in 1 .. n + 1
       PROVE  (more[i] = T /\ i + 1 > n + 1) \/ more[i] + L <= T
  <2>1. CASE i = n + 1 BY <1>2, <1>4, <2>1
  <2>2. CASE i \in 1 .. n BY <1>4, <1>8, <2>2
  <2>. QED BY <1>9, <2>1, <2>2
<1>14. IsBlocks(w, more)'
  BY <1>3, <1>10, <1>11, <1>12, <1>13 DEF IsBlocks, Blocks
<1>. QED BY <1>2, <1>3, <1>4, <1>14 DEF WindowInv

LEMMA WindowConsumed ==
    ASSUME TypeOK, TypeOK', NEW r \in Requests, NEW w \in Windows,
           ConsumeStored(r, w), now' = now, \A v \in Windows : WindowInv(v)
    PROVE  \A v \in Windows : WindowInv(v)'
<1>1. ASSUME NEW v \in Windows, v # w PROVE WindowInv(v)'
  <2>1. passes'[v] = passes[v] /\ stored'[v] = stored[v]
    BY <1>1 DEF ConsumeStored, TypeOK
  <2>2. now <= now' BY WindowConstants
  <2>. QED BY <2>1, <2>2, WindowIdle
<1>2. WindowInv(w)'
  <2>1. stored'[w] = Consumed(stored[w], w)
    BY DEF ConsumeStored, TypeOK
  <2>2. passes'[w] = IF stored'[w].count <= Limit[w] THEN Append(passes[w], now)
                     ELSE passes[w]
    BY DEF ConsumeStored, Allowed, TypeOK
  <2>3. CASE stored[w].until <= now
    <3>1. stored'[w].count = 1 /\ stored'[w].until = now + Length[w]
      BY <2>1, <2>3 DEF Consumed
    <3>2. passes'[w] = Append(passes[w], now) BY <2>2, <3>1, WindowConstants
    <3>. QED BY <2>3, <3>1, <3>2, WindowOpens
  <2>4. CASE ~(stored[w].until <= now)
    <3>1. /\ stored'[w].count = stored[w].count + 1
          /\ stored'[w].until = stored[w].until
      BY <2>1, <2>4, WindowConstants DEF Consumed, Window
    <3>2. stored[w].until > now BY <2>4, WindowConstants
    <3>. QED BY <2>2, <3>1, <3>2, WindowCounts
  <2>. QED BY <2>3, <2>4
<1>. QED BY <1>1, <1>2

\* Of 2 * M requests in a row the last comes L after the first: they are in
\* different blocks, and in between there is a whole one unless the first has
\* opened its own.
LEMMA BlocksSpread ==
    ASSUME NEW n \in Nat, NEW M \in Nat, M > 0, NEW L \in Nat,
           NEW log \in [1 .. n -> Nat], NEW ends \in [1 .. n -> Nat],
           Blocks(n, M, L, log, ends),
           NEW i \in 1 .. n, NEW j \in 1 .. n, j = i + 2 * M - 1
    PROVE  log[j] >= log[i] + L
<1>1. ASSUME NEW k \in 1 .. n, k + M \in 1 .. n PROVE ends[k] + L <= ends[k + M]
  <2>1. k < k + M OBVIOUS
  <2>2. ends[k] = ends[k + M] \/ ends[k] + L <= ends[k + M]
    BY <1>1, <2>1 DEF Blocks
  <2>3. ends[k] # ends[k + M]
    BY <1>1 DEF Blocks
  <2>. QED BY <2>2, <2>3
<1>2. i + M \in 1 .. n /\ (i + M = j \/ i + M < j)
  OBVIOUS
<1> DEFINE a == ends[i]
           b == ends[i + M]
           c == ends[j]
           d == ends[(i - 1) + M]
           from == log[i]
           to == log[j]
<1>3. a + L <= b /\ (b = c \/ b + L <= c)
  BY <1>1, <1>2 DEF Blocks
<1>4. /\ from < a /\ c <= to + L
      /\ (i = 1 \/ ends[i - 1] # a) => a = from + L
  BY DEF Blocks
<1>5. a \in Nat /\ b \in Nat /\ c \in Nat /\ from \in Nat /\ to \in Nat
  BY <1>2
<1>6. ASSUME a # from + L PROVE a + L <= d /\ d + L <= c /\ d \in Nat
  <2>1. i # 1 /\ i - 1 \in 1 .. n /\ ends[i - 1] = a
    BY <1>4, <1>6
  <2>2. (i - 1) + M \in 1 .. n /\ ((i - 1) + M) + M = j
    BY <2>1
  <2>3. ends[i - 1] + L <= d /\ d \in Nat
    BY <1>1, <2>1, <2>2
  <2>4. d + L <= ends[((i - 1) + M) + M]
    BY <1>1, <2>2
  <2>. QED BY <2>1, <2>2, <2>3, <2>4
<1>. HIDE DEF a, b, c, d, from, to
<1>7. from + L <= to
  <2>1. CASE a = from + L BY <1>3, <1>4, <1>5, <2>1
  <2>2. CASE a # from + L BY <1>4, <1>5, <1>6, <2>2
  <2>. QED BY <2>1, <2>2
<1>. QED BY <1>7 DEF from, to

LEMMA WindowSpreads ==
    ASSUME TypeOK, NEW w \in Windows, WindowInv(w),
           NEW i \in DOMAIN passes[w], NEW j \in DOMAIN passes[w],
           j = i + 2 * Limit[w] - 1
    PROVE  passes[w][j] >= passes[w][i] + Length[w]
<1> DEFINE n == Len(passes[w])
<1>1. PICK ends \in [1 .. n -> Nat] : IsBlocks(w, ends)
  BY DEF WindowInv
<1>2. /\ n \in Nat /\ DOMAIN passes[w] = 1 .. n /\ passes[w] \in [1 .. n -> Nat]
      /\ Limit[w] \in Nat /\ Limit[w] > 0 /\ Length[w] \in Nat
  BY WindowConstants
<1>3. Blocks(n, Limit[w], Length[w], passes[w], ends)
  BY <1>1 DEF IsBlocks
<1>. QED BY <1>2, <1>3, BlocksSpread

LEMMA WindowStep ==
    ASSUME IInv, IInv', \A w \in Windows : WindowInv(w), Next
    PROVE  \A w \in Windows : WindowInv(w)'
<1>1. TypeOK /\ TypeOK' BY DEF IInv
<1>2. now \in Nat /\ now' \in Nat BY <1>1, AdmissionConstants DEF TypeOK
<1>3. CASE UNCHANGED <<stored, passes>> /\ now <= now'
  BY <1>1, <1>3, WindowIdle
<1>4. CASE now' = now /\ \E r \in Requests, w \in Windows : ConsumeStored(r, w)
  BY <1>1, <1>4, WindowConsumed
<1>5. CASE Tick
  BY <1>2, <1>3, <1>5 DEF Tick, windowVars
<1>6. ASSUME NEW r \in Requests, PassToken(r) \/ PassTotal(r) \/ UpstreamAnswers(r)
      PROVE  \A w \in Windows : WindowInv(w)'
  <2>1. now' = now
    BY <1>6 DEF PassToken, PassTotal, PassWindow, UpstreamAnswers
  <2>2. \E w \in Windows : ConsumeStored(r, w) \/ ConsumeLocal(r, w)
    BY <1>6 DEF PassToken, PassTotal, PassWindow, UpstreamAnswers, Windows
  <2>. QED BY <1>2, <1>3, <1>4, <2>1, <2>2 DEF ConsumeLocal
<1>7. ASSUME NEW r \in Requests,
             \/ ReadSuccess(r) \/ SelectDue(r) \/ \E d \in due[r] : RollOver(r, d)
             \/ Evaluate(r) \/ GuardFails(r) \/ UpstreamFails(r)
             \/ Post(r) \/ PostFails(r)
      PROVE  \A w \in Windows : WindowInv(w)'
  BY <1>2, <1>3, <1>7 DEF ReadSuccess, SelectDue, RollOver, Evaluate, GuardFails,
     UpstreamFails, Post, PostFails, windowVars
<1>. QED BY <1>5, <1>6, <1>7 DEF Next

-----------------------------------------------------------------------------
(* The limit on successes is invariant.                                    *)

LEMMA CountTyped ==
    ASSUME TypeOK PROVE Count(stored["success"]) \in Nat
BY WindowConstants DEF Count, Windows

\* The successes in the window stay what they are until it ends.
LEMMA CountFalls ==
    ASSUME TypeOK, TypeOK', stored'["success"] = stored["success"], now <= now'
    PROVE  Count(stored["success"])' <= Count(stored["success"])
<1>1. /\ stored["success"].count \in Nat /\ stored["success"].until \in Nat
      /\ now \in Nat /\ now' \in Nat
  <2>1. "success" \in Windows BY DEF Windows
  <2>2. now \in Nat /\ now' \in Nat BY AdmissionConstants DEF TypeOK
  <2>. QED BY <2>1, <2>2, WindowConstants
<1>. QED BY <1>1 DEF Count

\* A step after which nothing new is awaited.
LEMMA SuccessCalm ==
    ASSUME TypeOK, TypeOK', SuccessInv,
           Count(stored["success"])' <= Count(stored["success"]), excess' = excess,
           hasty' = hasty, \A r \in Requests : Awaited(r)' => Awaited(r),
           \A r \in Requests : step'[r] \in {"served", "closing"}
                                  => step[r] \in {"served", "closing"}
    PROVE  SuccessInv'
<1>1. /\ Count(stored["success"]) \in Nat /\ Count(stored["success"])' \in Nat
      /\ excess \in Nat /\ Limit["success"] \in Nat
  <2>1. Count(stored["success"])' \in Nat
    <3>1. stored'["success"] \in Window /\ now' \in Nat
      BY AdmissionConstants DEF TypeOK, Windows
    <3>. QED BY <3>1 DEF Count, Window
  <2>. QED BY <2>1, CountTyped, AdmissionConstants DEF TypeOK, Windows
<1>. QED BY <1>1 DEF SuccessInv

LEMMA ReadSuccessStep ==
    ASSUME TypeOK, TypeOK', SuccessInv, NEW r \in Requests, ReadSuccess(r)
    PROVE  SuccessInv'
<1>1. /\ step[r] = "counting" /\ excess' = excess /\ hasty \subseteq hasty'
      /\ stored' = stored /\ now' = now
      /\ \A s \in Requests : s # r => step'[s] = step[s]
      /\ step'[r] \in {"upstream", "refused"}
  BY DEF ReadSuccess, windowVars, Goto, TypeOK
<1>2. Count(stored["success"])' = Count(stored["success"])
  BY <1>1 DEF Count
<1>3. /\ Count(stored["success"]) \in Nat
      /\ excess \in Nat /\ Limit["success"] \in Nat
  BY CountTyped, AdmissionConstants DEF TypeOK, Windows
<1>4. \A s \in Requests : step'[s] \in {"served", "closing"} => s \in hasty'
  BY <1>1 DEF SuccessInv
<1>5. \A s \in Requests : s # r /\ Awaited(s)' => Awaited(s)
  BY <1>1 DEF Awaited
<1>6. ASSUME Awaited(r)'
      PROVE  /\ Count(stored["success"]) < Limit["success"]
             /\ \A s \in Requests : s # r => ~Awaited(s)
  <2>1. step'[r] = "upstream" /\ r \notin hasty'
    BY <1>6 DEF Awaited
  <2>2. ~\E s \in Requests \ {r} : step[s] = "upstream"
    BY <2>1 DEF ReadSuccess
  <2>3. Count(stored["success"]) < Limit["success"]
    BY <2>1 DEF ReadSuccess, Goto, TypeOK
  <2>. QED BY <2>2, <2>3 DEF Awaited
<1>7. ASSUME NEW s \in Requests, Awaited(s)'
      PROVE  /\ Count(stored["success"]) < Limit["success"] + excess
             /\ \A q \in Requests : Awaited(q)' => q = s
  <2>1. CASE s = r
    BY <1>3, <1>5, <1>6, <1>7, <2>1
  <2>2. CASE s # r
    <3>1. Awaited(s) /\ ~Awaited(r)' BY <1>5, <1>6, <1>7, <2>2
    <3>. QED BY <1>5, <3>1 DEF SuccessInv
  <2>. QED BY <2>1, <2>2
<1>. QED BY <1>1, <1>2, <1>4, <1>7 DEF SuccessInv

LEMMA UpstreamAnswersStep ==
    ASSUME TypeOK, TypeOK', SuccessInv, NEW r \in Requests, UpstreamAnswers(r)
    PROVE  SuccessInv'
<1> DEFINE C == Count(stored["success"])
<1>1. /\ step[r] = "upstream" /\ now' = now /\ hasty' = hasty \union {r}
      /\ excess' = IF r \in hasty THEN excess + 1 ELSE excess
      /\ step' = [step EXCEPT ![r] = "served"]
  BY DEF UpstreamAnswers, Goto
<1>2. /\ C \in Nat /\ excess \in Nat /\ Limit["success"] \in Nat
      /\ Length["success"] \in Nat /\ Length["success"] > 0 /\ now \in Nat
      /\ stored["success"].count \in Nat /\ stored["success"].until \in Nat
  BY CountTyped, WindowConstants DEF TypeOK, Windows
<1>3. C' \in Nat /\ C' <= C + 1
  <2>1. CASE ConsumeStored(r, "success")
    <3>1. stored'["success"] = Consumed(stored["success"], "success")
      BY <2>1 DEF ConsumeStored, TypeOK, Windows
    <3>2. CASE stored["success"].until <= now
      <4>1. /\ stored'["success"].count = 1
            /\ stored'["success"].until = now + Length["success"]
        BY <3>1, <3>2 DEF Consumed
      <4>. QED BY <1>1, <1>2, <4>1 DEF Count
    <3>3. CASE ~(stored["success"].until <= now)
      <4>0. stored["success"] \in Window
        BY DEF TypeOK, Windows
      <4>1. /\ stored'["success"].count = stored["success"].count + 1
            /\ stored'["success"].until = stored["success"].until
        BY <3>1, <3>3, <4>0 DEF Consumed, Window
      <4>. QED BY <1>1, <1>2, <3>3, <4>1 DEF Count
    <3>. QED BY <3>2, <3>3
  <2>2. CASE ConsumeLocal(r, "success")
    BY <1>1, <1>2, <2>2 DEF ConsumeLocal, Count
  <2>. QED BY <2>1, <2>2 DEF UpstreamAnswers
<1>4. \A s \in Requests : step'[s] \in {"served", "closing"} => s \in hasty'
  BY <1>1 DEF SuccessInv, TypeOK
<1>5. \A s \in Requests : Awaited(s)' => Awaited(s) /\ s # r
  BY <1>1 DEF Awaited, TypeOK
<1>. HIDE DEF C
<1>6. CASE r \in hasty
  <2>1. C <= Limit["success"] + excess
        /\ \A s \in Requests : Awaited(s) => C < Limit["success"] + excess
    BY DEF SuccessInv, C
  <2>2. C' <= Limit["success"] + excess'
    BY <1>1, <1>2, <1>3, <1>6, <2>1
  <2>3. \A s \in Requests : Awaited(s)' => C' < Limit["success"] + excess'
    BY <1>1, <1>2, <1>3, <1>5, <1>6, <2>1
  <2>. QED BY <1>4, <1>5, <2>2, <2>3 DEF SuccessInv, C
<1>7. CASE r \notin hasty
  <2>1. Awaited(r) BY <1>1, <1>7 DEF Awaited
  <2>2. C < Limit["success"] + excess /\ \A s \in Requests : Awaited(s) => s = r
    BY <2>1 DEF SuccessInv, C
  <2>3. \A s \in Requests : ~Awaited(s)'
    BY <1>5, <2>2
  <2>4. C' <= Limit["success"] + excess'
    BY <1>1, <1>2, <1>3, <1>7, <2>2
  <2>. QED BY <1>4, <2>3, <2>4 DEF SuccessInv, C
<1>. QED BY <1>6, <1>7

LEMMA SuccessStep ==
    ASSUME IInv, IInv', SuccessInv, Next
    PROVE  SuccessInv'
<1>1. TypeOK /\ TypeOK' BY DEF IInv
<1>2. now \in Nat /\ now' \in Nat BY <1>1, AdmissionConstants DEF TypeOK
<1>3. CASE Tick
  <2>1. /\ stored' = stored /\ now <= now' /\ excess' = excess /\ hasty' = hasty
        /\ step' = step
    BY <1>2, <1>3 DEF Tick, windowVars, checkVars
  <2>. QED BY <1>1, <2>1, CountFalls, SuccessCalm DEF Awaited
<1>4. ASSUME NEW r \in Requests,
             \/ PassToken(r) \/ PassTotal(r) \/ SelectDue(r)
             \/ \E d \in due[r] : RollOver(r, d)
             \/ Evaluate(r) \/ GuardFails(r) \/ UpstreamFails(r) \/ Post(r)
      PROVE  SuccessInv'
  <2>1. now' = now /\ excess' = excess /\ hasty' = hasty
    BY <1>4 DEF PassToken, PassTotal, PassWindow, SelectDue, RollOver, Evaluate,
       GuardFails, UpstreamFails, Post, checkVars
  <2>2. stored'["success"] = stored["success"]
    BY <1>1, <1>4 DEF PassToken, PassTotal, PassWindow, ConsumeStored, ConsumeLocal,
       SelectDue, RollOver, Evaluate, GuardFails, UpstreamFails, Post, windowVars,
       TypeOK, Windows
  <2>3. \A s \in Requests : /\ step'[s] = "upstream" => step[s] = "upstream"
                            /\ step'[s] \in {"served", "closing"}
                                  => step[s] \in {"served", "closing"}
    BY <1>1, <1>4 DEF PassToken, PassTotal, PassWindow, SelectDue, RollOver, Evaluate,
       GuardFails, UpstreamFails, Post, Goto, TypeOK
  <2>. QED BY <1>1, <1>2, <2>1, <2>2, <2>3, CountFalls, SuccessCalm DEF Awaited
<1>5. ASSUME NEW r \in Requests, PostFails(r) PROVE SuccessInv'
  <2>1. /\ now' = now /\ excess' = excess /\ hasty' = hasty /\ stored' = stored
        /\ step[r] \in {"served", "closing"}
        /\ step' = [step EXCEPT ![r] = "upstream"] \/ step' = [step EXCEPT ![r] = "ended"]
    BY <1>5 DEF PostFails, Goto, windowVars
  <2>2. r \in hasty BY <2>1 DEF SuccessInv
  <2>3. ASSUME NEW s \in Requests
        PROVE  /\ Awaited(s)' => Awaited(s)
               /\ step'[s] \in {"served", "closing"} => step[s] \in {"served", "closing"}
    BY <1>1, <2>1, <2>2 DEF Awaited, TypeOK
  <2>4. Count(stored["success"])' <= Count(stored["success"])
    BY <1>1, <1>2, <2>1, CountFalls
  <2>. QED BY <1>1, <2>1, <2>3, <2>4, SuccessCalm
<1>. QED BY <1>1, <1>3, <1>4, <1>5, ReadSuccessStep, UpstreamAnswersStep DEF Next

-----------------------------------------------------------------------------
(* The budgets are invariant.                                              *)

\* A step that writes nothing and admits nobody.
LEMMA BudgetCalm ==
    ASSUME BudgetInv, UNCHANGED <<posted, beyond>>,
           \A r \in Requests : Covered(r)' => Covered(r)
    PROVE  BudgetInv'
BY DEF BudgetInv

LEMMA BudgetTick ==
    ASSUME IInv, BudgetInv, Tick PROVE BudgetInv'
<1>1. UNCHANGED <<step, loose>> BY DEF Tick, checkVars
<1>2. \A r \in Requests : Covered(r)' = Covered(r)
  BY <1>1 DEF Covered, Open
<1>3. \A b \in Budgets : /\ posted[b] \in Nat /\ beyond[b] \in Nat
                         /\ BudgetLimit[b] \in Nat /\ Estimate \in Nat
  BY AdmissionConstants DEF IInv, TypeOK
<1>4. \A b \in Budgets : \/ posted'[b] = 0 /\ beyond'[b] = 0
                         \/ posted'[b] = posted[b] /\ beyond'[b] = beyond[b]
  BY DEF Tick
<1>5. \A b \in Budgets : beyond'[b] <= posted'[b] /\ posted'[b] <= BudgetLimit[b] + beyond'[b]
  BY <1>3, <1>4 DEF BudgetInv
<1>6. ASSUME NEW r \in Requests, Covered(r), NEW b \in Budgets
      PROVE  posted'[b] + Estimate <= BudgetLimit[b] + beyond'[b]
  <2>1. posted[b] + Estimate <= BudgetLimit[b] + beyond[b] /\ beyond[b] <= posted[b]
    BY <1>6 DEF BudgetInv
  <2>. QED BY <1>3, <1>4, <2>1
<1>. QED BY <1>2, <1>5, <1>6 DEF BudgetInv

LEMMA BudgetEvaluate ==
    ASSUME IInv, BudgetInv, ~Overage, NEW r \in Requests, Evaluate(r)
    PROVE  BudgetInv'
<1>1. /\ UNCHANGED <<used, posted, beyond>>
      /\ \A s \in Requests : s # r => step'[s] = step[s]
      /\ loose' = IF Pending(r) # {} \/ slipped # {} THEN loose \union {r} ELSE loose
      /\ step'[r] = IF ~Overage /\ \E b \in Budgets : Denies(b) THEN "refused"
                    ELSE "limiting"
  BY DEF Evaluate, budgetVars, Goto, IInv, TypeOK
<1>2. \A s \in Requests : s # r /\ Covered(s)' => Covered(s)
  BY <1>1 DEF Covered, Open
<1>3. ASSUME Covered(r)'
      PROVE  /\ \A b \in Budgets : posted[b] + Estimate <= BudgetLimit[b] + beyond[b]
             /\ \A s \in Requests : s # r => ~Covered(s)
  <2>1. step'[r] = "limiting" /\ r \notin loose'
    BY <1>1, <1>3 DEF Covered, Open
  <2>2. Pending(r) = {} /\ slipped = {} /\ \A b \in Budgets : ~Denies(b)
    BY <1>1, <2>1
  <2>3. ASSUME NEW b \in Budgets
        PROVE  posted[b] + Estimate <= BudgetLimit[b] + beyond[b]
    <3>1. posted[b] = 0 \/ posted[b] = used[b]
      BY <2>2 DEF IInv, CountInv
    <3>2. ~(used[b] + Estimate > BudgetLimit[b])
      BY <2>2 DEF Denies
    <3>3. /\ posted[b] \in Nat /\ beyond[b] \in Nat /\ used[b] \in Nat
          /\ BudgetLimit[b] \in Nat /\ Estimate \in Nat
      BY AdmissionConstants DEF IInv, TypeOK
    <3>. QED BY <3>1, <3>2, <3>3
  <2>4. \A s \in Requests : s # r => ~Open(s)
    BY <2>2 DEF Pending, Open
  <2>. QED BY <2>3, <2>4 DEF Covered
<1>. QED BY <1>1, <1>2, <1>3 DEF BudgetInv

\* What a covered request writes was left for it; what any other writes is
\* counted as uncovered.
LEMMA BudgetWrite ==
    ASSUME IInv, BudgetInv, NEW r \in Requests, Open(r),
           NEW budgets \in SUBSET Budgets, Write(r, budgets),
           \A s \in Requests : Covered(s)' => Covered(s) /\ s # r
    PROVE  BudgetInv'
<1> DEFINE uncovered == IF r \in loose THEN cost[r]
                        ELSE IF cost[r] > Estimate THEN cost[r] - Estimate ELSE 0
<1>1. cost[r] \in Nat /\ Estimate \in Nat
  BY AdmissionConstants DEF IInv, TypeOK
<1>2. uncovered \in Nat /\ uncovered <= cost[r]
  BY <1>1
<1>3. ASSUME NEW b \in Budgets
      PROVE  \/ posted'[b] = posted[b] + cost[r] /\ beyond'[b] = beyond[b] + uncovered
             \/ posted'[b] = posted[b] + 0 /\ beyond'[b] = beyond[b] + 0
  BY DEF Write
<1>4. \A b \in Budgets : posted[b] \in Nat /\ beyond[b] \in Nat /\ BudgetLimit[b] \in Nat
  BY AdmissionConstants DEF IInv, TypeOK
<1>5. ASSUME NEW b \in Budgets
      PROVE  beyond[b] <= posted[b] /\ posted[b] <= BudgetLimit[b] + beyond[b]
  BY DEF BudgetInv
<1>6. CASE r \in loose
  <2>1. uncovered = cost[r] BY <1>6
  <2>. HIDE DEF uncovered
  <2>2. \A b \in Budgets : beyond'[b] <= posted'[b] /\ posted'[b] <= BudgetLimit[b] + beyond'[b]
    BY <1>1, <1>3, <1>4, <1>5, <2>1
  <2>3. ASSUME NEW s \in Requests, Covered(s)', NEW b \in Budgets
        PROVE  posted'[b] + Estimate <= BudgetLimit[b] + beyond'[b]
    <3>1. posted[b] + Estimate <= BudgetLimit[b] + beyond[b]
      BY <2>3 DEF BudgetInv
    <3>. QED BY <1>1, <1>3, <1>4, <2>1, <3>1
  <2>4. \A s \in Requests : Covered(s)' => \A q \in Requests : Covered(q)' => q = s
    BY DEF BudgetInv
  <2>. QED BY <2>2, <2>3, <2>4 DEF BudgetInv
<1>7. CASE r \notin loose
  <2>1. Covered(r) BY <1>7 DEF Covered
  <2>2. \A s \in Requests : ~Covered(s)'
    BY <2>1 DEF BudgetInv
  <2>3. cost[r] <= Estimate + uncovered
    BY <1>1, <1>7
  <2>. HIDE DEF uncovered
  <2>4. ASSUME NEW b \in Budgets
        PROVE  beyond'[b] <= posted'[b] /\ posted'[b] <= BudgetLimit[b] + beyond'[b]
    <3>1. posted[b] + Estimate <= BudgetLimit[b] + beyond[b]
      BY <2>1 DEF BudgetInv
    <3>. QED BY <1>1, <1>2, <1>3, <1>4, <1>5, <2>3, <3>1
  <2>. QED BY <2>2, <2>4 DEF BudgetInv
<1>. QED BY <1>6, <1>7

LEMMA BudgetPost ==
    ASSUME IInv, BudgetInv, NEW r \in Requests, Post(r) \/ PostFails(r)
    PROVE  BudgetInv'
<1>1. /\ step[r] \in {"served", "closing"}
      /\ \/ step' = [step EXCEPT ![r] = "ended"] /\ loose' = loose \ {r}
         \/ step' = [step EXCEPT ![r] = "upstream"] /\ loose' = loose \union {r}
  BY DEF Post, PostFails, Goto
<1>2. \A s \in Requests : Covered(s)' => Covered(s) /\ s # r
  BY <1>1 DEF Covered, Open, IInv, TypeOK
<1>3. Open(r) BY <1>1 DEF Open
<1>4. CASE UNCHANGED budgetVars
  BY <1>2, <1>4, BudgetCalm DEF budgetVars
<1>5. ASSUME NEW budgets \in SUBSET Budgets, Write(r, budgets) PROVE BudgetInv'
  BY <1>2, <1>3, <1>5, BudgetWrite
<1>. QED BY <1>4, <1>5 DEF Post, PostFails

LEMMA BudgetStep ==
    ASSUME IInv, BudgetInv, ~Overage, Next
    PROVE  BudgetInv'
<1>1. ASSUME NEW r \in Requests,
             \/ PassToken(r) \/ PassTotal(r) \/ ReadSuccess(r) \/ SelectDue(r)
             \/ \E d \in due[r] : RollOver(r, d)
             \/ GuardFails(r) \/ UpstreamAnswers(r) \/ UpstreamFails(r)
      PROVE  BudgetInv'
  <2>1. UNCHANGED <<posted, beyond, loose>>
    BY <1>1 DEF PassToken, PassTotal, PassWindow, ReadSuccess, SelectDue, RollOver,
       GuardFails, UpstreamAnswers, UpstreamFails, budgetVars, checkVars
  <2>2. \A s \in Requests : Open(s)' => Open(s)
    BY <1>1 DEF PassToken, PassTotal, PassWindow, ReadSuccess, SelectDue, RollOver,
       GuardFails, UpstreamAnswers, UpstreamFails, Goto, Open, IInv, TypeOK
  <2>. QED BY <2>1, <2>2, BudgetCalm DEF Covered
<1>. QED BY <1>1, BudgetTick, BudgetEvaluate, BudgetPost DEF Next

-----------------------------------------------------------------------------
LEMMA InitLimits == Init => LimitInv
<1>. SUFFICES ASSUME Init PROVE LimitInv
  OBVIOUS
<1>1. IInv BY InitInv
<1>2. ASSUME NEW w \in Windows PROVE WindowInv(w)
  <2>1. /\ passes[w] = <<>> /\ stored[w].until = 0 /\ now = 0
        /\ Length[w] \in Nat /\ Len(passes[w]) = 0
    BY AdmissionConstants DEF Init, NoWindow
  <2>2. [i \in 1 .. 0 |-> 0] \in [1 .. 0 -> Nat] OBVIOUS
  <2>3. IsBlocks(w, [i \in 1 .. 0 |-> 0])
    BY <2>1 DEF IsBlocks, Blocks
  <2>4. stored[w].until <= now + Length[w] /\ ~(stored[w].until > 0)
    BY <2>1
  <2>. QED BY <2>1, <2>2, <2>3, <2>4 DEF WindowInv
<1>3. SuccessInv
  <2>1. Count(stored["success"]) = 0 /\ excess = 0 /\ Limit["success"] \in Nat
    BY AdmissionConstants DEF Init, Count, NoWindow, Windows
  <2>. QED BY <2>1 DEF SuccessInv, Awaited, Init
<1>4. BudgetInv
  BY AdmissionConstants DEF BudgetInv, Covered, Open, Init
<1>. QED BY <1>1, <1>2, <1>3, <1>4 DEF LimitInv

LEMMA StepLimits == LimitInv /\ [Next]_vars => LimitInv'
<1>. SUFFICES ASSUME LimitInv, [Next]_vars PROVE LimitInv'
  OBVIOUS
<1>1. IInv /\ IInv' BY StepInv DEF LimitInv
<1>2. CASE UNCHANGED vars
  <2>1. UNCHANGED <<now, stored, passes, step, hasty, excess, loose, posted, beyond>>
    BY <1>2 DEF vars, windowVars, budgetVars, checkVars
  <2>2. \A w \in Windows : WindowInv(w)'
    BY <2>1 DEF LimitInv, WindowInv, IsBlocks
  <2>3. SuccessInv' BY <2>1 DEF LimitInv, SuccessInv, Awaited, Count
  <2>4. ~Overage => BudgetInv' BY <2>1 DEF LimitInv, BudgetInv, Covered, Open
  <2>. QED BY <1>1, <2>2, <2>3, <2>4 DEF LimitInv
<1>3. CASE Next
  BY <1>1, <1>3, WindowStep, SuccessStep, BudgetStep DEF LimitInv
<1>. QED BY <1>2, <1>3

LEMMA LimitsInvariant == Spec => []LimitInv
BY InitLimits, StepLimits, PTL DEF Spec

\* However requests interleave on the shared windows, no span of a window's
\* length sees 2 * Limit of them, and successes exceed their limit by no more
\* than the requests whose check could not know of the others.
THEOREM LimitsHold == Spec => []WindowsHold
<1>1. LimitInv => WindowsHold
  BY WindowSpreads DEF LimitInv, IInv, SuccessInv, WindowsHold, Windows
<1>. QED BY <1>1, LimitsInvariant, PTL

\* In a period a budget is exceeded only by what requests used that were
\* admitted beside another one, and by what a request used more than it asked
\* for.
THEOREM BudgetsHold == Spec => []BudgetHolds
<1>1. LimitInv => BudgetHolds
  BY DEF LimitInv, BudgetInv, BudgetHolds
<1>. QED BY <1>1, LimitsInvariant, PTL
=============================================================================
