------------------------------ MODULE AuthCache ------------------------------
(***************************************************************************)
(* The cache of API keys in middleware/auth.ts, in one process: filled by  *)
(* a request that finds no entry, emptied by the notifications of          *)
(* auth_update that reach the process's listener (PgListener), and by the  *)
(* time to live of services/localTtlCache.ts.  Routes of any process       *)
(* change the rows behind it, and announce it, or do not.                  *)
(*                                                                         *)
(* Abstracted: what belongs to a key (token, user, organization, packages) *)
(* to the number of its last change; the checks of a request to whether it *)
(* is refused; time to ticks, Ttl of them an entry's life.  MaxChanges     *)
(* bounds the changes.                                                     *)
(***************************************************************************)
EXTENDS PgListener

CONSTANTS
    Requests,    \* the calls that may run at a time
    Ttl,
    MaxChanges,
    None         \* no key

ASSUME AuthConstants ==
    /\ Ttl \in Nat \ {0}
    /\ MaxChanges \in Nat
    /\ None \notin Keys

VARIABLES
    row,     \* the number of a key's last change
    owed,    \* announcements that a route has yet to send
    cached,  \* the change a key's entry shows, 0 without an entry
    age,     \* the ticks since it was stored
    stage,   \* "idle", "hit", "asked" or "read"
    apiKey,  \* the key a request presents
    seen,    \* the change it has read
    lapsed   \* history: the entry is out of date, and no news will come

auth == <<row, owed, cached, age, stage, apiKey, seen, lapsed>>
vars == <<listener, auth>>

TypeOK ==
    /\ ListenerTypeOK
    /\ row \in [Keys -> 1..MaxChanges + 1]
    /\ owed \in [Keys -> 0..MaxChanges]
    /\ cached \in [Keys -> 0..MaxChanges + 1]
    /\ age \in [Keys -> 0..Ttl]
    /\ stage \in [Requests -> {"idle", "hit", "asked", "read"}]
    /\ apiKey \in [Requests -> Keys \cup {None}]
    /\ seen \in [Requests -> 0..MaxChanges + 1]
    /\ lapsed \in [Keys -> BOOLEAN]

Init ==
    /\ ListenerInit
    /\ row = [k \in Keys |-> 1]
    /\ owed = [k \in Keys |-> 0]
    /\ cached = [k \in Keys |-> 0]
    /\ age = [k \in Keys |-> 0]
    /\ stage = [r \in Requests |-> "idle"]
    /\ apiKey = [r \in Requests |-> None]
    /\ seen = [r \in Requests |-> 0]
    /\ lapsed = [k \in Keys |-> FALSE]

\* An entry that a request may use, and one that should not be used.
Usable(k) == cached[k] # 0 /\ age[k] < Ttl
Stale(k) == cached[k] # 0 /\ cached[k] # row[k]

\* News of k that is lost leaves a stale entry as it is.
LoseNews(k) == lapsed' = [lapsed EXCEPT ![k] = @ \/ Stale(k)]
InFlight == {notices[i] : i \in 1..Len(notices)}

-----------------------------------------------------------------------------
(* A request.                                                              *)

HitRenews(r, k) ==
    /\ stage[r] = "idle"
    /\ Usable(k)
    /\ stage' = [stage EXCEPT ![r] = "hit"]
    /\ age' = [age EXCEPT ![k] = 0]
    /\ UNCHANGED <<listener, row, owed, cached, apiKey, seen, lapsed>>

Hit(r, k) ==
    /\ stage[r] = "idle"
    /\ Usable(k)
    /\ stage' = [stage EXCEPT ![r] = "hit"]
    /\ UNCHANGED <<listener, row, owed, cached, age, apiKey, seen, lapsed>>

\* LocalTtlCache.get removes an expired entry.
Miss(r, k) ==
    /\ stage[r] = "idle"
    /\ ~Usable(k)
    /\ cached' = [cached EXCEPT ![k] = 0]
    /\ stage' = [stage EXCEPT ![r] = "asked"]
    /\ apiKey' = [apiKey EXCEPT ![r] = k]
    /\ lapsed' = [lapsed EXCEPT ![k] = FALSE]
    /\ UNCHANGED <<listener, row, owed, age, seen>>

Read(r) ==
    /\ stage[r] = "asked"
    /\ stage' = [stage EXCEPT ![r] = "read"]
    /\ seen' = [seen EXCEPT ![r] = row[apiKey[r]]]
    /\ UNCHANGED <<listener, row, owed, cached, age, apiKey, lapsed>>

\* What was read is stored after the checks, whatever has happened since.
Fill(r) ==
    /\ stage[r] = "read"
    /\ stage' = [stage EXCEPT ![r] = "idle"]
    /\ apiKey' = [apiKey EXCEPT ![r] = None]
    /\ seen' = [seen EXCEPT ![r] = 0]
    /\ cached' = [cached EXCEPT ![apiKey[r]] = seen[r]]
    /\ age' = [age EXCEPT ![apiKey[r]] = 0]
    /\ lapsed' = [lapsed EXCEPT ![apiKey[r]] = seen[r] # row[apiKey[r]]]
    /\ UNCHANGED <<listener, row, owed>>

\* The end of a hit, a refusal by a check, or a failing statement.
Leave(r) ==
    /\ stage[r] # "idle"
    /\ stage' = [stage EXCEPT ![r] = "idle"]
    /\ apiKey' = [apiKey EXCEPT ![r] = None]
    /\ seen' = [seen EXCEPT ![r] = 0]
    /\ UNCHANGED <<listener, row, owed, cached, age, lapsed>>

\* The cache is full: another key's entry, the one used longest ago, goes.
Evict(k) ==
    /\ cached[k] # 0
    /\ cached' = [cached EXCEPT ![k] = 0]
    /\ lapsed' = [lapsed EXCEPT ![k] = FALSE]
    /\ UNCHANGED <<listener, row, owed, age, stage, apiKey, seen>>

TickOn ==
    /\ age' = [k \in Keys |-> age[k] + 1]
    /\ UNCHANGED <<listener, row, owed, cached, stage, apiKey, seen, lapsed>>

Tick ==
    /\ \E k \in Keys : Usable(k)
    /\ age' = [k \in Keys |-> IF Usable(k) THEN age[k] + 1 ELSE age[k]]
    /\ UNCHANGED <<listener, row, owed, cached, stage, apiKey, seen, lapsed>>

-----------------------------------------------------------------------------
(* The routes that change what belongs to a key.                           *)

\* A user's row, or one of his own tokens: an announcement follows.
Change(k) ==
    /\ row[k] <= MaxChanges
    /\ row' = [row EXCEPT ![k] = @ + 1]
    /\ owed' = [owed EXCEPT ![k] = @ + 1]
    /\ UNCHANGED <<listener, cached, age, stage, apiKey, seen, lapsed>>

Announce(k) ==
    /\ owed[k] > 0
    /\ owed' = [owed EXCEPT ![k] = @ - 1]
    /\ Publish(k)
    /\ IF subscribed THEN UNCHANGED lapsed ELSE LoseNews(k)
    /\ UNCHANGED <<row, cached, age, stage, apiKey, seen>>

\* The statement fails, or the process that would send it dies.
AnnounceFails(k) ==
    /\ Fault
    /\ owed[k] > 0
    /\ owed' = [owed EXCEPT ![k] = @ - 1]
    /\ LoseNews(k)
    /\ UNCHANGED <<row, cached, age, stage, apiKey, seen>>
    /\ UNCHANGED <<link, awaiting, unacked, connected, subscribed, notices>>

\* An administrator's change of a token, or of a subscription, which is
\* announced under a user's id.
ChangeUnannounced(k) ==
    /\ row[k] <= MaxChanges
    /\ row' = [row EXCEPT ![k] = @ + 1]
    /\ lapsed' = [lapsed EXCEPT ![k] = @ \/ cached[k] # 0]
    /\ UNCHANGED <<listener, owed, cached, age, stage, apiKey, seen>>

-----------------------------------------------------------------------------
(* The process's listener.                                                 *)

FlushById(k) ==
    /\ Receive(k)
    /\ lapsed' = [lapsed EXCEPT ![k] = FALSE]
    /\ UNCHANGED <<row, owed, cached, age, stage, apiKey, seen>>

\* The callback of initAuthSync.
Flush(k) ==
    /\ Receive(k)
    /\ cached' = [cached EXCEPT ![k] = 0]
    /\ lapsed' = [lapsed EXCEPT ![k] = FALSE]
    /\ UNCHANGED <<row, owed, age, stage, apiKey, seen>>

\* Nothing is flushed when a connection is lost, or is back.
Carry ==
    /\ Proceed \/ Mishap
    /\ lapsed' = [k \in Keys |->
                    lapsed[k] \/ (notices' = <<>> /\ k \in InFlight /\ Stale(k))]
    /\ UNCHANGED <<row, owed, cached, age, stage, apiKey, seen>>

Crash ==
    /\ Restart
    /\ cached' = [k \in Keys |-> 0]
    /\ age' = [k \in Keys |-> 0]
    /\ stage' = [r \in Requests |-> "idle"]
    /\ apiKey' = [r \in Requests |-> None]
    /\ seen' = [r \in Requests |-> 0]
    /\ lapsed' = [k \in Keys |-> FALSE]
    /\ UNCHANGED <<row, owed>>

-----------------------------------------------------------------------------
Next ==
    \/ \E r \in Requests : Read(r) \/ Fill(r) \/ Leave(r)
    \/ \E r \in Requests, k \in Keys : Hit(r, k) \/ Miss(r, k)
    \/ \E k \in Keys : Evict(k) \/ Change(k) \/ Announce(k) \/ AnnounceFails(k)
                       \/ ChangeUnannounced(k) \/ Flush(k)
    \/ Tick \/ Carry \/ Crash

\* Time passes, statements are answered, a reachable server answers, what has
\* arrived is handled.
Fairness ==
    /\ WF_vars(Tick)
    /\ \A r \in Requests : WF_vars(Read(r) \/ Fill(r) \/ Leave(r))
    /\ WF_vars(Carry /\ Proceed)
    /\ WF_vars(\E k \in Keys : Flush(k))

Spec == Init /\ [][Next]_vars /\ Fairness

-----------------------------------------------------------------------------
(* Correctness.                                                            *)

\* An entry that shows an older state of its key will be flushed by a
\* notification that is owed or on its way; unless the change was not
\* announced, the news was lost, or a slow request stored what it had read
\* before the change (which the history variable remembers).
CachedKeysAgree ==
    \A k \in Keys : Stale(k) => owed[k] > 0 \/ k \in InFlight \/ lapsed[k]

\* Whatever was lost, no request is served by an outdated entry for ever,
\* however often the key is used.
StaleKeysEnd == <>[]\A k \in Keys : Stale(k) => ~Usable(k)
=============================================================================
