--------------------------- MODULE Subscriptions ----------------------------
(***************************************************************************)
(* The subscriptions of one user (services/subscription.ts): binding a     *)
(* package, which may move the user to another group; expiry and           *)
(* cancellation, which may move the user back; and the refill of quota     *)
(* that every authenticated request looks for.  Time is a counter.  What a *)
(* transaction reads it reads when it begins, and it writes when it        *)
(* commits: the isolation level is PostgreSQL's default.                   *)
(***************************************************************************)
EXTENDS ResetCalendar, Sequences

CONSTANTS
    Requests,       \* requests in flight, whose awaits interleave
    Callbacks,      \* transactions of payment callbacks
    Packages,
    Package,        \* the row of each package
    BaseGroup,      \* the group of the user before any subscription
    NoGroup,        \* a null column of groups
    MaxRows,        \* bound: rows beyond which administrators bind no more
    MaxOps,         \* bound: operations of users and administrators
    MaxTime         \* bound: the clock

Upgrade(p) == Package[p].upgradeGroup

\* The columns of packages, with their integers; a period, a unit of cycles and
\* a unit of durations the code does not know are "never", "none" and "other".
PackageRow(pkg) ==
    /\ {pkg.limit, pkg.cycleQuota, pkg.resetLength, pkg.cycleInterval,
        pkg.durationValue, pkg.durationDays, pkg.customLength} \subseteq Int
    /\ pkg.resetPeriod \in Calendars \union {"custom", "never"}
    /\ pkg.cycleUnit \in {"hour", "day", "week", "month", "none"}
    /\ pkg.durationUnit \in {"year", "month", "day", "hour", "custom", "other"}

ASSUME SubscriptionConstants ==
    /\ \A p \in Packages : PackageRow(Package[p])
    /\ BaseGroup # NoGroup

Groups == {BaseGroup} \union ({Upgrade(p) : p \in Packages} \ {NoGroup})

VARIABLES
    now,
    group,    \* users.group
    sub,      \* the sequence of subscription rows, in the order of their ids
    job,      \* what each request is doing
    ops,      \* operations of users and administrators so far
    refilled, \* history: cycles credited for each row
    stale,    \* history: rows refilled from a last_reset_at already used
    tangled,  \* history: a group change the rows could not keep track of
    crowded   \* history: packages bound by overlapping transactions

subVars == <<now, group, sub, job, ops, refilled, stale, tangled, crowded>>
calendarVars == <<refilled, stale>>
groupVars == <<tangled, crowded>>

Actors == Requests \union Callbacks

Idle == [step |-> "idle"]

SubInit ==
    /\ now = 0
    /\ group = BaseGroup
    /\ sub = <<>>
    /\ job = [q \in Actors |-> Idle]
    /\ ops = 0
    /\ refilled = <<>>
    /\ stale = {}
    /\ tangled = FALSE
    /\ crowded = {}

Ids == DOMAIN sub

Upgraded(rows) == {s \in DOMAIN rows : Upgrade(rows[s].pkg) # NoGroup}

\* status = 1, whether or not the end has passed
Active(rows) == {s \in DOMAIN rows : rows[s].status = "active"}

Running(rows) == {s \in Active(rows) : rows[s].end > now}

\* One of the bounded number of operations users and administrators start.
Operation == ops < MaxOps /\ ops' = ops + 1

Tick ==
    /\ now < MaxTime
    /\ now' = now + 1
    /\ UNCHANGED <<group, sub, job, ops, calendarVars, groupVars>>

-----------------------------------------------------------------------------
(* Binding *)

Purchases(p) == {s \in Ids : sub[s].pkg = p /\ sub[s].status # "deleted"}

\* The checks at the start of the transaction of bindSubscriptionToUserTx.
MayBind(p) ==
    /\ Package[p].enabled
    /\ Package[p].limit > 0 => Cardinality(Purchases(p)) < Package[p].limit

BeginBind(q, p) ==
    /\ crowded' = IF \E r \in Actors : job[r].step = "bind" /\ job[r].pkg = p
                  THEN crowded \union {p} ELSE crowded
    /\ job' = [job EXCEPT ![q] =
                  [step |-> "bind", pkg |-> p, group |-> group]]

\* The writes: the group if it was another one when it was read, and the row.
CommitBind(q) ==
    /\ job[q].step = "bind"
    /\ LET p == job[q].pkg
           moves == Upgrade(p) \notin {NoGroup, job[q].group}
       IN  /\ sub' = Append(sub,
                 [status |-> "active", pkg |-> p, start |-> now,
                  end |-> DurationEnd(Package[p], now), last |-> now,
                  prev |-> IF moves THEN job[q].group ELSE NoGroup])
           /\ group' = IF moves THEN Upgrade(p) ELSE group
           /\ tangled' = (tangled \/ (/\ Upgrade(p) # NoGroup
                                      /\ group # job[q].group))
    /\ refilled' = Append(refilled, 0)
    /\ job' = [job EXCEPT ![q] = Idle]
    /\ UNCHANGED <<now, ops, stale, crowded>>

AdminBind(q, p) ==
    /\ Operation
    /\ job[q] = Idle /\ Len(sub) < MaxRows
    /\ MayBind(p)
    /\ BeginBind(q, p)
    /\ UNCHANGED <<now, group, sub, calendarVars, tangled>>

AdminBound(q) == CommitBind(q)

-----------------------------------------------------------------------------
(* The end of a subscription *)

\* mutant: a row that changed no group changes it back
DowngradedToNothing(g, s, rows) ==
    IF /\ g = Upgrade(rows[s].pkg)
       /\ \A o \in Running(rows) : Upgrade(rows[o].pkg) # g
    THEN rows[s].prev
    ELSE g

\* mutant: whatever the other subscriptions want
DowngradedAnyway(g, s, rows) ==
    IF rows[s].prev # NoGroup /\ g = Upgrade(rows[s].pkg) THEN rows[s].prev
    ELSE g

\* The group after downgradeUserGroupForSubscription for row s: unchanged if
\* the row changed no group, the user has moved on, or another running
\* subscription wants the same group.
Downgraded(g, s, rows) ==
    IF /\ rows[s].prev # NoGroup
       /\ g = Upgrade(rows[s].pkg)
       /\ \A o \in Running(rows) : Upgrade(rows[o].pkg) # g
    THEN rows[s].prev
    ELSE g

\* Rows that changed the group, or were bound for the one before any.
Holders(rows) ==
    {s \in Upgraded(rows) : rows[s].prev # NoGroup
                               \/ Upgrade(rows[s].pkg) = BaseGroup}

\* One of them ends while a later row that upgrades is active.
Outlived(ended, rows) ==
    \E s \in ended \intersect Holders(rows),
       o \in Upgraded(rows) \intersect Active(rows) : o > s

Expired == {s \in Active(sub) : sub[s].end <= now}

SyncedRows ==
    [s \in Ids |-> IF s \in Expired THEN [sub[s] EXCEPT !.status = "expired"]
                                    ELSE sub[s]]

\* One transaction; the rows come in no particular order.  A row not reached
\* yet is expired by its end, so it holds no group for the others.
SyncExpired ==
    LET n == Cardinality(Expired)
    IN  /\ sub' = SyncedRows
        /\ \E order \in {f \in [1 .. n -> Expired] :
                            \A i, j \in 1 .. n : f[i] = f[j] => i = j} :
              LET after[i \in 0 .. n] ==
                      IF i = 0 THEN group
                      ELSE Downgraded(after[i - 1], order[i], sub)
              IN  group' = after[n]
        /\ tangled' = (tangled \/ Outlived(Expired, sub))

\* syncExpiredSubscriptionsBatch does this for every user with expired rows.
SyncBatch ==
    /\ Expired # {}
    /\ SyncExpired
    /\ UNCHANGED <<now, job, ops, calendarVars, crowded>>

\* A row ends once more, and no running row wants its group.
Revived(s) ==
    /\ s \notin Active(sub) /\ sub[s].prev # NoGroup
    /\ group = Upgrade(sub[s].pkg)
    /\ \A o \in Running(sub) : Upgrade(sub[o].pkg) # group

Cancel(s) ==
    /\ Operation
    /\ sub[s].status # "deleted"
    /\ sub' = [sub EXCEPT ![s].status = "cancelled", ![s].end = now]
    /\ group' = Downgraded(group, s, sub')
    /\ tangled' = (tangled \/ Outlived({s} \intersect Active(sub), sub)
                            \/ Revived(s))
    /\ UNCHANGED <<now, job, calendarVars, crowded>>

\* A hard deletion looks for other subscriptions while its own is there.
Delete(s) ==
    /\ Operation
    /\ sub[s].status # "deleted"
    /\ sub' = [sub EXCEPT ![s].status = "deleted"]
    /\ group' = Downgraded(group, s, sub)
    /\ tangled' = (tangled \/ Outlived({s} \intersect Active(sub), sub)
                            \/ Revived(s)
                            \/ (s \in Running(sub) /\ sub[s].prev # NoGroup))
    /\ UNCHANGED <<now, job, calendarVars, crowded>>

-----------------------------------------------------------------------------
(* Refills *)

\* What checkAndResetSubscriptionQuota works out for row s.
Refill(s) ==
    LET pkg == Package[sub[s].pkg]
        policy == ResolveResetPolicy(pkg)
        cycles == CountResetCycles(sub[s].last, now, policy)
    IN  [row |-> s, seen |-> sub[s].last, cycles |-> cycles,
         last |-> AdvanceCursor(sub[s].last, cycles, policy, sub[s].end)]

DueRefills ==
    {r \in {Refill(s) : s \in {o \in Running(sub) :
                                  Package[sub[o].pkg].cycleQuota > 0}} :
        r.cycles > 0}

\* A request first synchronises the expired rows, which are not running, then
\* reads the running ones and leaves if nothing is due.
StartRefill(q) ==
    /\ Operation
    /\ job[q] = Idle
    /\ DueRefills # {}
    /\ job' = [job EXCEPT ![q] = [step |-> "refill", due |-> DueRefills]]
    /\ SyncExpired
    /\ UNCHANGED <<now, calendarVars, crowded>>

\* The transaction adds the quota and moves the cursors of the rows that are
\* still there, whatever has become of them.
FinishRefill(q) ==
    /\ job[q].step = "refill"
    /\ LET due == job[q].due
           RefillOf(s) == CHOOSE r \in due : r.row = s
           hit == {r.row : r \in due}
       IN  /\ refilled' = [s \in Ids |->
                 refilled[s] + IF s \in hit THEN RefillOf(s).cycles ELSE 0]
           /\ sub' = [s \in Ids |->
                 IF s \in hit /\ sub[s].status # "deleted"
                 THEN [sub[s] EXCEPT !.last = RefillOf(s).last] ELSE sub[s]]
           /\ stale' = stale \union {r.row : r \in {x \in due :
                                                x.seen # sub[x.row].last}}
    /\ job' = [job EXCEPT ![q] = Idle]
    /\ UNCHANGED <<now, group, ops, groupVars>>

SubNext ==
    \/ Tick
    \/ SyncBatch
    \/ \E s \in Ids : Cancel(s) \/ Delete(s)
    \/ \E q \in Requests :
          \/ \E p \in Packages : AdminBind(q, p)
          \/ AdminBound(q)
          \/ StartRefill(q)
          \/ FinishRefill(q)
=============================================================================
