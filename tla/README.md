# timekpr-next-hub: a TLA+ verification project

timekpr-next-hub shares one daily screen-time budget of a child between several
Linux machines.  On each machine an *agent* polls the local
[timekpr-next](https://mjasnik.gitlab.io/timekpr-next/) daemon over D-Bus and
reports to a *hub* (FastAPI and PostgreSQL); the hub adds the machines up and
answers with what is left, and the agent writes that back into timekpr.

This directory models the parts of the program whose correctness depends on
order, loss, restarts and clocks, model-checks them with TLC and proves the
core with TLAPS.  `PROJECT.json` maps each definition to the lines it
translates and lists runs, mutants, findings, hazards and theorems.

## 1. Inventory

| Part | Source | State it keeps | Operations | Made correct by |
|---|---|---|---|---|
| convergence controller | `core/.../convergence.py` | none (pure) | `compute_convergence`, `advance_cumulative`, `reset_for_new_canonical_day` | the planned write lands on the target; no second credited twice, none lost |
| agent tick loop | `agent/.../tick.py`, `cli.py` | locals of one tick | `run_tick`, `_apply_convergence`, `_apply_offline_policy`, `_apply_revoked`, the loop of `_cmd_run` | counters are monotone and never overstated; stale plans are repaired by the next tick; outages are capped |
| agent state file | `state.py` | one `UserState` per user, in memory and in `state.json` | `load`, `save` (write to a temporary file, rename) | a restart between any two steps loses and doubles nothing |
| timekpr daemon (external) | seen through `enforcer.py`; `tests/fakes/fake_timekpr.py` | balance, spent in memory, spent on disk, limit, hours, lockout | `setTimeLeft`, `setTimeLimitForDays`, ... | its contract: `=` reloads spent from disk |
| policy push | `policy_push.py`, `enforcer.py` | `policy_revision_applied` | `_apply_policy_push` and its steps | what is acknowledged is on the device |
| hub sync | `hub/.../api/sync.py` | one transaction | `sync` | merges commute with loss, replay and reordering |
| usage aggregation | `services/aggregate.py`, `core/.../interval_union.py` | `usage_counters`, `activity_intervals` | `upsert_usage_counter`, `insert_activity_interval`, `global_spent_*` | MAX-merge; the union never burns more than the sum |
| policy versions | `services/policy.py`, `day_hours.py`, `core/.../effective_policy.py` | one policy row per version; one-day hour overrides | `get_or_create_policy`, `update_policy`, `effective_policy_payload`, `set_/clear_day_hour_override` | versions are unique, the newest is the current one, a revision changes whenever the payload does |
| effective limit | `services/limits.py`, `summaries.py`; `api/admin/users.py`, `api/ui/overrides.py`, `dashboard.py` | per day: grants, an override, a release of the chore gate; on the user: gated weekdays | `effective_daily_limit`, `compute_user_summaries`, `compute_usage_history`; grant, set and clear an override, release and unrelease a day | five rows read one by one give the number that was in force; every device learns it |
| enrollment and devices | `api/enroll.py`, `services/enrollment.py`, `services/devices.py`, `api/auth.py`, `hubclient.py` | codes, device rows, tokens on hub and on disk | `enroll`, `revoke_device`, `delete_device`, `get_current_device`, token reload | a code is used once; one live row per machine; a revoked token stops working, a rotated one is picked up |
| admin accounts | `services/admin_auth.py`, `api/admin_auth.py` | admins, sessions, invites | set-up, log-in and log-out, invite, redeem, delete, change password | an invite makes one account; an admin remains; a session does not outlive its password |
| allowed hours | `core/.../allowed_hours.py` | none (pure) | conversion between intervals and per-hour D-Bus records | round trips |
| calendar, wire models | `core/.../calendar.py`, `models.py` | none | canonical day, validation | - |
| pages and forms | `api/ui/*` | the page in a browser | policy, settings and one-day forms; dashboard, statistics | what one administrator saves does not undo what another did; figures agree with each other |
| audit, set-up, deployment | `services/audit.py`, `app.py`, `deploy/` | append-only rows; configuration | - | - |

**How the parts interact.**  Once per poll interval, per device, `run_tick`
reads timekpr for every managed user, advances that user's counter, cuts an
activity span and posts all users in one `/sync`.  The hub locks each user's
row in the order of the request, merges counters and spans under *its own*
canonical day, and answers per user with the effective limit, the global total,
`enforce` or `observe`, and - if the revision the agent quoted is not the
current one - the policy payload.  The agent pushes the policy (several D-Bus
setters), plans one `setTimeLeft` from the observation it made *before* the
request, writes it, and saves `state.json` at the end of the tick.  If the hub
cannot be reached it applies the user's offline policy to figures cached at the
last contact; if the device was revoked it touches nothing.

**What is hard.**  A tick is not atomic and runs against a daemon, a user, three
midnights (the device's own, the household's by the agent's clock and by the
hub's), a network that loses and delays, and restarts.  Counters are absolute so
that replays are harmless, but spans are increments; `=` makes timekpr's own
counter jump back, and so does midnight.  The hazards are listed one by one, at
their lines, in `PROJECT.json`.

## 2. Modules

| Module | Models | Composes |
|---|---|---|
| `Convergence` | `convergence.py`: pure operators | - |
| `TimekprDaemon` | the daemon's contract, an external | - |
| `AgentTick` | tick loop, state file, outage policy, hub answer for one user on one device | `Convergence`, `TimekprDaemon` |
| `UsageLedger` | span cutting, buffering, replay; counters and spans on the hub; several devices and users | - |
| `PolicyPush` | policy versions, one-day hours, the revision gate of a sync, and a push setter by setter | - |
| `TokenRegister` | abstract: what the hub promises about codes and the tokens of machines | - |
| `Enrollment` | one-time codes, device rows, tokens on the hub, in the agent's file and in its memory | implements `TokenRegister` |
| `Provisioning` | users, policy versions and aliases under concurrent transactions with PostgreSQL's row locks | - |
| `DayHours` | `allowed_hours.py`: pure operators | - |
| `PolicyEditor` | one weekday's hours from form, API or one-day window to the payload | `DayHours` |
| `AdminAccounts` | accounts, sessions and invites under concurrent requests | - |
| `LimitRegister` | abstract: what the hub promises devices about a day's limit | - |
| `DayLimit` | the limit's five rows, who changes and who reads them, the row lock | implements `LimitRegister` |
| `HubPages` | two forms open in several browsers, and the statistics page | `DayLimit` |
| `AgentTickProofs` (with `Convergence` and `TimekprDaemon`), `UsageLedgerProofs`, `PolicyPushProofs`, `EnrollmentProofs`, `ProvisioningProofs`, `AdminAccountsProofs`, `PolicyEditorProofs`, `HubPagesProofs` (with `DayLimit`) | theorems | the modules they are about |
| `MC*` | model values and bounds for TLC | |

### AgentTick

The program counter `pc` follows one pass of `_cmd_run`:

| `pc` | Action | Code |
|---|---|---|
| `idle` | `Observe`: read timekpr, choose between first tick, new day and same day, advance the counter, build the request | `tick.py` `run_tick` up to `hub.sync` |
| `sent` | `HubSync`: one hub transaction; `Relinquish`: 401 for a revoked device; `Unreachable`: no connection | `sync.py`, `tick.py` |
| `replied` | `ApplyEnforce`, `ApplyObserve`: the answer is used; `Unreachable`: the answer was lost, though the hub has booked the request | `tick.py` |
| `save` | `Save`: `state.json` is replaced | `state.py`, `cli.py` |
| any | `Crash`: the process restarts from `state.json` | `cli.py`, the systemd unit |

`mem` and `disk` are the two copies of `UserState`; `tick` holds the locals that
survive the call to the hub, which is where stale values come from.  The user
(`Elapse`), other machines (`OtherDevice`), an administrator (`Admin`) and the
three midnights move between any two of these steps.  The three clocks are
separate variables that differ by at most one day in either direction.
`chargeable`, `misbooked`, `lost`, `tick.used` and `mem.atContact` are history: what
was really used, which days took a report measured for another, what may have
escaped measurement, and what had really been used at the observation and at the
last contact.

Abstractions.  Activity spans are left to `UsageLedger`; here the wall-clock
total is *any* value the union of spans could take (`GlobalSpent`).  A policy is
one number, since of its setters only the daily limit feeds back into the loop.
`applied_offset_s` is left out: the code writes it and never reads it.  A policy
revision hashes version and payload, so `applied` holds the payload.

### UsageLedger

`Tick` sends, `Sync` is the hub's transaction, and the answer (`Receive`) or the
time-out (`Timeout`) come in any order with it: a request in `net` whose sender
has given up may still be processed, later than a newer one and after midnight;
one that is never processed is a lost one.  `Timeout` stands for
`DeviceRevokedError` too, which buffers the unsent spans in the same way.
A device ticks at most once a second.  Clocks agree and timekpr's counter never
jumps back here: `AgentTick` is about what happens when they do not and it does.

### PolicyPush

One device, one user.  `Observe` .. `HubSync` decide whether there is something
to push; `StartPush` takes the readback that the whole push is compared with,
each `PushStep` is one setter call (skipped if the readback already has the
value, refused, or carried out but reported as failed), `EndPush` acknowledges
only if every call succeeded, `Save` makes that durable.  `UpdatePolicy`,
`SetDayHours`, `ClearDayHours` are the administrator's, `ChangeLocally` is
somebody at the device.  Settings with a setter of their own behave alike and are
represented by the weekly limit; lockout, hours per day, allowed days and the
projection of the daily limits to the allowed days are modelled as they are.
`touched` names the settings changed at the device since they were last written.

### Enrollment and TokenRegister

`Claim`, `LookUp`, `Flush`, `Commit` are the statements of `enroll` that another
transaction can come between, `SaveToken` and `Finish` the command's part after
the answer.  The agent (`StartAgent`, `Sync`, `Retry`) holds the token in memory
and re-reads the file once after a 401.  `Mint`, `Expire`, `Revoke`, `Delete` are
the administrator's and the clock's.  A code is claimed by a conditional UPDATE,
whose row lock lasts to the end of the transaction (`CodeLocked`); the partial
unique index on live machine ids makes a second insert wait and fail
(`InsertPending`, `Insertable`).

`TokenRegister` has no rows, locks or statements: an enrollment begins with an
unused code, and takes place at once; from then on its token is the machine's
only one.  A removal ends the machine's token.  Enrollments under way either come
after it or are *overtaken*: they pay with their code for a token that is dead from
the start.  In the refinement mapping (`Register`) the tokens good for a machine
are those of its live rows, a claimed code is an enrollment under way, and it is
overtaken when the row it has found is not live any more.  A row that was revoked
keeps its token column; that it is written once more does not show.

### Provisioning

A request is one transaction, and its `pc` is its next SQL statement: look up the
alias, insert the user in a savepoint, select it, lock it `FOR UPDATE`, insert
the alias (whose foreign key takes `FOR KEY SHARE`), commit.  `Blockers` says
whom a statement waits for.  What a transaction writes (`rows`, `links`) is
applied when it commits; constraints are looked at then too.  The four kinds of
request are a sync, an enrollment, an edit and a deletion; pages that create a
missing policy take the path of a sync that found its alias.  Names are the
local ones, which `provision_user_alias` takes as canonical.

### DayHours and PolicyEditor

`IntervalsToHours`, `HoursToIntervals` and `Valid` are translated with the length
of an hour and of a day as parameters.  Their reference is what each form says
of every minute (`IntervalMinutes`, `DeviceMinutes`).  In `PolicyEditor` a page
keeps the records it was opened with, so a save can be stale.  A day on which the
user may not log in at all is left out: the window is then refused.

`sorted(..., key=...)` is `Sorted`, *an* ascending order of the list.  Python's
sort is stable as well; that never tells here.  Two intervals with the same start
overlap, so `Valid` refuses them in either order, and the stored records of a day,
sorted by hour, are one an hour, which is part of the invariant that is proved
(`IsDay`).  `Classify` follows the early returns of `classify_day` one by one.

### AdminAccounts

A request's `pc` names what it waits for: the password's hash (`hashing`, before
the insert; `opening`, at a log-in), its commit (`joining`, `changing`,
`deleting`), or its next statement (`authed`, `counted`).  What it has read, or is
about to write, is in `tx`.  The row locks that matter are spelt out where they
bite: a claimed invite (`Claimable`), an address about to be inserted or not yet
gone (`Deciding`), an account being changed or deleted (`Deletable`, `Changing`,
`Deleting`).  `creator` is `created_by_admin_id`: the deletion of an account sets it
to NULL in the invites the account has minted (ON DELETE SET NULL), one after the
other (`ForgetCreator`), and has to wait for a redemption that has claimed one of
them.  If that redemption waits for the address being deleted, the two wait for each
other, and PostgreSQL ends one of them (`Blockers`, `DeadlockAbort`).
Passwords are numbers; knowing one is not modelled, so anyone may try to log in
and those who fail leave no trace.  `late` and `made` are history.

### DayLimit and LimitRegister

A sync reads the user (`Ask`), takes his row `FOR UPDATE` and reads it again
(`Lock`), then override, grants and release (`EffectiveDailyLimit`), and answers
at its commit (`Answer`).  The dashboard and the statistics read the same rows in
another order and without a lock (`OpenPage`, `ComputePage`, `ShowPage`).  A
change is one short transaction, hence one action, whose guard is what it waits
for.  `UpdatePolicy` and `UpdateSettings` update the locked row; a *new* grant,
override or release has a foreign key to it, for which PostgreSQL takes
`FOR KEY SHARE`, and that waits for `FOR UPDATE` too.  Replacing an override and
deleting an override or a release touch no key of the user, and go on while a
sync is reading.

That is why a sync's answer is the limit of *one* moment.  Of the rows it reads,
the user's row and the grants cannot change until it commits.  The override is
read before the release, and between these two reads the override may be
replaced and a release deleted, but no release can be *inserted*.  If the last
read finds the gate shut, the answer is 0, which is in force at that moment.  If
it finds the gate open, it was open when the override was read, too, and the
answer was in force at that moment.
`LimitRegister` states this as a specification: a question starts a set of the
limits in force since, and is answered from that set.  `Register` in `DayLimit`
is the refinement mapping: the five rows become one number per day (`InForce`),
the lock's owner the question.  `InForce` is written down apart from
`CombineLimit`, so the formula is checked against a reference as well.

### HubPages

A form holds what it showed when it was opened (`Shown` cuts seconds to minutes),
the reader changes a field (`Fill`), and saving writes all fields (`SaveForm`),
however long ago the page was opened.  One field per opened form is a bound: a
form with two changed fields is two forms, saved one after the other.  `wanted`
is what the last person who meant a field asked for; `undone` the fields a stale
form has put back since.

## 3. Runs

| Run | Shows | Bounds and why they are enough |
|---|---|---|
| `agent_tick` | the safety of the counters with two days, any order of the three midnights, one fault and restarts anywhere; landing, the cap of an outage, and settling, with bonus, policy edits, mode changes, revocation and use on other devices | two days make every kind of rollover; three active seconds exceed the regression tolerance (1), so artifact and rollover are both met, on either side of a fault; limits 1 and 4 with deadband 1 and threshold 2 make all four kinds of write occur.  `MCSpec` adds two bounds: a run has midnights, or else changes by an admin and use elsewhere (`MCNext`), and the device begins with less than the policy allows |
| `usage_ledger` | the union against the sum, and that no span is lost, with one user on two devices, midnight, late requests, two faults | a buffer of one overflows; a span before, after and across a fault fits into three seconds |
| `policy_push` | that what is acknowledged is held, and that what belongs on the device is in the end acknowledged | two edits, one override, one midnight, one local change, one fault: a push can be cut short at each setter, taken up again and overtaken by an edit |
| `enrollment` | the uniqueness of codes and devices, revocation, token pick-up | two terminals, two codes, three rows, two removals: every pair of transactions overlaps at every statement |
| `provisioning` | unbroken versions, live aliases, no clash; deadlocks only where the order of names differs, and progress in spite of them | two users, three devices, five requests: opposite orders, a third party waiting, an edit, a deletion; users that exist with and without aliases |
| `policy_editor` | that the device gets the minutes asked for, and what a save for another field's sake keeps | three hours of two minutes: inside, on and across an hour's boundary, first, inner and last hour; every single interval, and pairs around the first boundary |
| `admin_accounts` | invites, sessions, and that every request is answered | two browsers, two addresses, one invite, two accounts, three sessions, one password change: a log-in can cross the change, an address can be taken twice, and a deletion can wait for a redemption of an invite its target has minted, which waits for its address |
| `hub_pages` | that the limit's five rows are one register (a refinement) and devices learn the limit; that edits stand; that a page's figures are of one moment | one device, one browser with forms next to clients of the API, the statistics over two days, weeks of two days, minutes of two seconds (so that a limit has seconds to lose), two changes of all kinds between any two reads of either computation; a form is stale as soon as a client of the API comes before it is saved.  Syncs exclude one another by the lock, and a second device is one more reader; the proof is for any number |
| `span_collision`, `weekday_limit`, `offline_midnight`, `last_admin` | disagreements between comments and code (section 6) | bounds that show them |

`CHECK_DEADLOCK FALSE` is set where the model stops because its bounds (seconds,
faults, changes by an admin, codes) are used up.  `provisioning` checks deadlock:
its requests end, and `Finished` is the only way to stop.

**Fairness.**  In `AgentTick` and `PolicyPush`, `FairSpec` assumes weak fairness
of the agent's own steps and of the hub's answer only.  `_cmd_run` is a loop
without an exit; `run_tick` handles a hub that refuses or cannot be reached; any
other error ends the process, and the unit file has `Restart=always`.  In
`Enrollment` a running agent goes on syncing (`Sync`, `Retry`).  In
`Provisioning` every request goes on while the database lets it, PostgreSQL ends
a deadlock, and a request that got an error is made again, at the next poll - by
which time those who were waiting for the locks it gave up have them.  Nothing
is assumed of users, clocks, administrators, faults or the network; the bounds
on faults are what makes them end.  That, too, is what "eventually" means: after
the last fault.  In `AdminAccounts` the handler of a request goes on, and the
database ends one of those that wait in a circle (`WF_vars(Step(b))`).  In `DayLimit` devices sync for ever, and the lock is
strongly fair (`SF_vars(Lock(v))`): it is free and taken again and again, but
PostgreSQL queues those who wait for a row, so nobody is passed over for ever.

## 4. Properties

`AgentTick`
* `NeverOvercharges` - neither the process nor the file ever claims more of today than was used.
* `UseIsCounted` - and nothing of today is forgotten but what an `=` write made timekpr itself forget or what preceded the first tick of a new day.
* `HubBooksOnlyRealUse` - a day's row holds at most that day's use unless a report was booked across midnight.
* `LandsOnTarget` - an enforced tick leaves what the hub said, to within the deadband and the use since the observation.
* `OutageIsCapped` - past the grace period an offline tick leaves at most the cap less what has *really* been used since the last contact, but for seconds that escaped measurement; while no midnight has passed since that contact.
* `NeverRefunds` - the same over a midnight: the code breaks it (section 6).
* `EventuallySettles` - once the faults end, policy and time left agree with the hub.

`UsageLedger`
* `BurnOnce` - the wall-clock total (the union, or a single device's counter if that is more) never exceeds the sum of the counters, for days whose reports arrived on the day and devices that were not restarted mid-tick.
* `NoActivityLost` - every second a counter gained has a span on the hub, in the buffer or under way, except those that never had one.

`PolicyPush`
* `AppliedIsHeld` - while the acknowledged revision is the last one a push was begun for, every setting nobody touched at the device is as it wants it.
* `EventuallyAcknowledged` - once changes and faults end, the agent acknowledges what belongs on the device today.

`Enrollment`
* `CodeEnrollsOnce` - one committed enrollment per code.
* `RevokeSticks` - an old row never becomes active again.
* `TokensAreARegister` - the refinement of `TokenRegister`: a machine has the token of its last enrollment or none, and a dead token stays dead.  With it goes `OneLiveDevice`, one live row per machine, which is a theorem and needs no run of its own.
* `FindsItsToken` - a running agent takes up a rotated token from the file instead of giving up the device.

`Provisioning`
* `CurrentIsLatest`, `NobodyClashes` - versions are 1..n, the newest is current, and nobody fails because another was faster.
* `AliasesAreLive` - a device's name stands for the living user of that name.
* `DeadlocksAreCrossings`, `EveryoneFinishes` - requests wait for each other only if they list users in different orders, and all are answered.

`PolicyEditor`
* `DeviceGetsWhatWasAsked` - minute by minute, by whichever way it was asked.
* `ReassembledExactly` - intervals shown cover what is stored and are maximal.
* `UntouchedSaveKeepsExpressible` - a save for another field's sake changes no hours the form can show.

`AdminAccounts`
* `InviteIsOneAdmin` - an invite is used exactly when it has made one account.
* `SessionsKnowThePassword` - a session was opened with its account's present password, or kept at its change, or a login crossed the change.
* `RequestsEnd` - every request is answered, although a deletion and a redemption can wait for each other.
* `LastAdminStays` - the last admin cannot be deleted: the code breaks it (section 6).

`DayLimit`, `HubPages`
* `OneRegister` - the refinement of `LimitRegister`: no device is told a limit that was not in force while it was asked.
* `DevicesLearnTheLimit` - when changes stop, each device is told today's limit, and keeps being told it.
* `PageIsOneMoment` - the figures of a page are those of one moment if at most one change falls into its computation.
* `LastEditStands` - a field is what its last editor asked for, less than a minute lost, unless a stale form has put it back.

## 5. Proofs

`AgentTickProofs!PlanReachesTarget` shows that for all integers the planned
write, carried out by the daemon, takes the balance to the target (within the
deadband for a no-op), as long as the target is within the daemon's clamp.

`AgentTickProofs` proves, for all values of the constants that satisfy the
assumptions of the three modules:

| Theorem | Property | Argument |
|---|---|---|
| `TypeCorrect` | `TypeOK` | `TypeInv` = `TypeOK` and `SavesKeepUp`: the saved value is at most `SaveIntervalS` behind, never ahead |
| `NoOvercharge`, `HubBooks` | `NeverOvercharges`, `HubBooksOnlyRealUse` | `ChargeInv`: whatever `mem` and `disk` would credit at the *next* reading (`Covers`) is covered by the use that day, and so is what is already counted (`Sound`).  The property alone is not inductive: it does not say that the raw value a counter is measured from fits the one timekpr will show |
| `UseCounted` | `UseIsCounted` | `CountInv`: the raw value is at most `SaveIntervalS` above what timekpr shows (`Counted`), hence a drop is recognised as an artifact, and the clocks stay within a day of each other (`InOrder`) |
| `EnforcedTickLands` | `LandsOnTarget` | from `PlanReachesTarget` and the type invariant |
| `OutageCapped` | `OutageIsCapped` | `PlanReachesTarget` takes the balance to `OfflineTarget`, which the code computes from its own counters.  That these are worth what was really used takes `AnchorInv`, with `ChargeInv` and `CountInv`: the count cached at the last contact is at most what had been used of its day by then (`Anchored`), and what this tick has measured is at most what had been used when it observed, and that less `lost` at least (`Measured`).  After a midnight passed offline what is cached is another day's count and says nothing of this day's, as `offline_midnight` shows |

The strengthened invariants were checked by TLC before they were proved.  The
assumption that carries the weight is `FlushWithinTolerance` (`SaveIntervalS <=
RegressionToleranceS`): the code's tolerance (90 s, `convergence.py:62`) must cover what the daemon
may have failed to save.  `convergence.py` relies on it in a comment.

`UsageLedgerProofs` proves `TypeOK`, `BurnOnce` and `NoActivityLost` for any number
of devices and users, any length of a buffer, of an outage and of a day.  Both
properties count the seconds that sets of spans cover; they are sets of seconds in
the model (`Covered`, `ParallelSeconds`) and not sums, so that the library's facts
on the cardinality of a union carry the argument (`CoveredAdds`: one more span adds
at most its length, and all of it if it is apart; `SideBySide`).

* `LedgerInv` is about the spans of a user on a device wherever they are, on the hub,
  in a request, a buffer or a tick (`Spans`): none is empty, and no two end at the
  same second (`SpansDiffer`), which is what makes the hub's key safe for one user.
* `UnionIsNeverMore` (`BurnOnce`).  The property compares the union with counters
  that arrive at another time than the spans.  `Counted` closes the gap: for the
  agent, for every request under way and for the hub, what is covered *up to the
  moment* the counter was read is at most that counter.  A tick adds a span no longer
  than its counter gains and changes nothing up to an earlier moment; a sync brings
  the counter along with the spans.  It speaks of agents that did not die mid-tick:
  one that did may cut a second span over the same time, `last` being lost.
* `NothingIsLost` (`NoActivityLost`).  `Backed` says of each state, in memory and on
  disk, that its counter is covered by the spans up to some moment, since when
  timekpr has counted no more than has passed; so the next span, cut back from now,
  lies apart from all of them and adds its whole length.  `Delivered` says that an
  answer means the hub has the spans.  The hypothesis `[]NoSharedEnd` (no two users
  of a device have spans with the same end) is used there and nowhere else; it is
  what the run `span_collision` breaks.  With one managed user it holds by itself
  (`OnlyChildLosesNothing`).

`PolicyPushProofs` proves `AcknowledgedIsHeld` (`AppliedIsHeld`) for every policy,
length of the week and bound.  The property says nothing of a push under way, so
it is not inductive; `PushInv` adds that the revision being pushed is not the one
in memory, that file and memory agree until a push ends, and that the setters
already carried out in this push have left the device as the revision wants it
(`Progress`) - including those skipped because the readback had the value.
`TypeCorrect` needs `TypeInv`: whatever is in memory, in the file, in an answer or
in a push is a revision (`IsRevision`: a policy whose hours are there for every
weekday, with a version an edit made), and one step only ever copies one or takes
the hub's (`EffectiveIsRevision`).

`HubPagesProofs` proves first that `DayLimit` implements `LimitRegister`
(`OneRegisterHolds`: `Spec => OneRegister`, where the conclusion has no fairness)
for any number of devices and pages and any policies, gates, overrides and
grants, with `TypeCorrect` on the way.  The inductive invariant `LimitInv` says
what the sync that holds the user's row knows (`ReadSoFar`): its copies of the
user and of the grants are those of the database, the limit of this moment is
among those seen, and - *as long as the gate is open* - a limit seen is what the
copies amount to.  The condition is what makes it inductive: a release deleted
meanwhile shuts the gate and is the end of the obligation, and none can be
inserted.  Then each step maps to one of the register (a change, the lock, the
answer) or to none (`RegisterStep`).  The one assumption beside typing is that
no reader, number or question equals `None`.

`EnrollmentProofs` proves `CodeEnrollsOnce`, `OneLiveDevice`, `RevokeSticks` and
`TypeOK` for any terminals, codes, machines and rows.  None of them is inductive:
each is decided at a commit, by what a transaction has read before it.
`EnrollInv` says what that still is worth.  An open transaction is the only one
with its code, and the code is unused until it commits (`HoldsCode`, from the
row lock of the conditional UPDATE); the row it has
written is still there (`HoldsRow`, from that row's lock; the row may have been
revoked before it was written); and if it found none, the id it inserts is free,
its machine has no live row, and nobody else is inserting for that machine
(`HoldsMachine`, from the partial unique index).  `CodesCounted` and `LiveRowsUnique` then follow at `Commit`, and
`RevokeSticks` because a rebind writes the token and leaves the status alone.

`OneRegisterOfTokens` proves that `Enrollment` implements `TokenRegister`
(`TokensAreARegister`).  It needs two facts more about a row that was found and
not yet written: it belongs to the machine (`FoundIsItsMachines`), and its id is
not about to be inserted by somebody else (`FreshIsNobodys`).  So once it is not
live it never will be, and "overtaken" is for good.  `Claim` is the register's
`Begin`, `Commit` its `Complete` (`CommitCompletes`: by `LiveRowsUnique` the row
written is the machine's only live one, or none is), `Abort` its `Withdraw`; taking
a live row away is `Remove`, taking a revoked one away does not show
(`RemovalsRemove`), nor do `LookUp` and `Flush`.

`ProvisioningProofs` proves `CurrentIsLatest`, `NobodyClashes`, `AliasesAreLive`,
`DeadlocksAreCrossings` and `TypeOK` for any users, devices and requests.
`ProvisioningInv` says of every transaction what its locks are worth: a row it
holds is there and nobody else has a lock on it (`HoldsUser`); what it has written
for such a row is the next version (`WritesNext`, which fails without the second
read under the lock, `ReadAgain`); a row it is inserting is the first of its name
and of its id, and nobody else inserts the same (`WritesFirst`); every alias it
inserts is of a user it has locked or is inserting (`LinksHeld`).
`PoliciesBelong` (a policy goes with its user) keeps a new user's series from
beginning with somebody else's version.  For the deadlocks, `HoldsEarlier`: what a
request holds are users *earlier* in its list than the one it waits for.  If all of
a set of requests wait for one another and list users in one common order, take the
one that waits for the user furthest in it: whoever holds that user waits for one
further still.  That there is a furthest comes from the well-foundedness of `<` on
the natural numbers, since there are finitely many names.

`AdminAccountsProofs` proves `InviteIsOneAdmin`, `SessionsKnowThePassword` and
`TypeOK` for any browsers, addresses, invites and bounds.  `AccountsInv` adds to
them, per request: the invites it has written, by a claim or by forgetting their
creator, are nobody else's until it ends, and a claimed one is open until then
(`HoldsInvites`); the account about to appear is not there, and nobody else's
(`HoldsId`); a password change or a deletion has the row of its account
(`HoldsAccount`); and a password change *covers* its account's sessions: each is
among those it will delete, its own, or one of a log-in that crossed it
(`CoversSessions`).

The rest of `HubPagesProofs` is about `DayLimit` with the forms of `HubPages`:

* `EditsStand` (`LastEditStands`) and `FormsTypeCorrect` (`FormsTypeOK`).  The
  property says "less than a minute lost", which one more save could turn into two
  minutes as far as it goes; `AsWanted` is what is inductive: a limit is as it was
  asked for, or that cut to whole minutes, and `ShownAsEntered` says that a limit
  cut once is not cut again.
* `PagesShowOneMoment` (`PageIsOneMoment`).  `View(p)` are the figures a page will
  show if nothing changes until then.  While nothing has, its copies are up to date
  and `View` is what is in force; and, the lemma that carries it
  (`OneChangeIsSeenOrNot`), one change of one row leaves `View` either at what was
  in force before, if the row had been read, or at what is now, if not.  The
  invariant `PagesInv` follows `View(p) \in seen[p]` through every read as long as
  fewer than two changes have come between.

`PolicyEditorProofs` proves `DeviceGetsWhatWasAsked`, `ReassembledExactly`,
`UntouchedSaveKeepsExpressible` and `TypeOK` for every length of the hour and of
the day, any valid or invalid interval lists of API clients and any windows.  Most
of it is about the two conversions of `DayHours`, for lists of any length:

* Lists are compared minute by minute (`Agree`): a minute is covered by an interval
  iff the device's record of its hour allows it, and with the same flag.
* `ExpandedDay`: valid intervals expand into a day, that is one record an hour
  (`IsDay`), that agrees with them.  Valid intervals do not share an hour, even
  those that are not neighbours (`ValidApart`, from the sort), hence no record
  replaces another in a payload keyed by hour; and what is in the concatenation is
  in one of the pieces (`JoinedDays`, `PieceIs`).
* `MergedDay`: the merging loop returns intervals that agree with the day and
  cannot be merged further.  Its invariant is `MadeOf(ivs, o, k)`: after `k` turns
  the intervals are maximal, in order, and agree with the first `k` records; a turn
  appends an interval or moves the end of the last one (`OneTurn`).
* `StepByStep` is the induction used for both.  The library's induction theorems
  take an operator as a parameter, which no installed prover can instantiate; so the
  rule is stated about a *set* of naturals, and comes from the well-foundedness of
  `<`.  `FoldLeft` and `FlattenSeq` are recursive functions, whose equations
  `LoopIs` and `FlattenIs` derive.
* `EditorInv`: whatever is stored, overrides or was read by a page is a day; the
  history is what the device's records say; a page nobody touched shows how it
  would classify what it was opened on.  With it `UntouchedDay` compares, form by
  form, what a page sends back with what it was opened on.

**Assumptions on the constants.**  Beside types and bounds: `FlushWithinTolerance`
above; `None` is no member of the sets it is added to (needed wherever the code
tells "no row" from a row, and in the two registers for a question or an
enrollment), and `Unset` and `Rejected` are no lists of records
(`PolicyEditor`); names of users are finitely many (`Provisioning`, for the
deadlocks), and so are devices (`UsageLedger`, to add their counters up); any
limits of the weekdays, cut to whole minutes, are a policy an administrator may
save (`HubPages`: the form can send nothing else).  A bound on
ids that a definition only met by `CHOOSE` is a guard: `InsertUser` takes the least
of `FreshIds`, and the model stops where a random UUID would go on.

**Only model-checked**, and why (every safety invariant and action property of the
passing runs is a theorem):

* the liveness properties `EventuallySettles`, `EventuallyAcknowledged`,
  `FindsItsToken`, `EveryoneFinishes`, `RequestsEnd`, `DevicesLearnTheLimit`, and
  that requests end: liveness under fairness is beyond the prover;
* of two users of a device who do share the end of a span, what `NoActivityLost`
  says: there the code does not do it (section 6).

## 6. Where comments and code disagree

The runs marked `violation` each refute one sentence of the repository; the
quotations are in `PROJECT.json` under `findings`.

* `span_collision` (`NoActivityLost`): two managed users active in the same tick
  have spans with the same device and end, which is the key of the table; the second
  is dropped.
* `weekday_limit` (`LimitIsTodays`): with fewer than seven allowed weekdays the agent
  reads another day's limit from the list it wrote itself, or runs off its end.
* `offline_midnight` (`NeverRefunds`): after a midnight passed offline the cached
  counter of the last contact is yesterday's, so offline use is not deducted until
  the new one has caught up, and each tick gives it back.
* `last_admin` (`LastAdminStays`): two deletions that have each counted two admins
  leave none, and then /setup is open again.

More places are hazards without a run of their own.  The properties of the passing
runs name these cases as exceptions, or claim nothing of them; the notes in
`PROJECT.json` quote the sentences they contradict.

* A report booked after the hub's midnight overcharges the new day for good.
* A span resent after midnight overlaps another device's rows of the day before.
* A device the hub told to observe (or revoked) is written to when the hub then
  stays unreachable past the grace period.
* An agent that dies between writing a one-day override and saving its revision
  can leave the override's hours standing.
* If the answer of an enrollment is lost after its commit, the agent is refused and
  takes itself for removed, until the command is repeated.
* A window up to midnight cannot be saved from the page it is shown on, and hours
  that are unaccounted all day are shown as "all day" and lose the mark with the
  next save.
* Two set-ups at once both succeed.
* A log-in that crosses a password change leaves a session of the old password.
* An invite whose redemption failed on a taken address is not "burned": the
  rollback takes the claim back, and it can be used again.
* The dashboard and the statistics, which lock nothing, can show a limit that was
  never in force when two changes fall into their reads.

## 7. Not modelled, and known gaps

* A clock that is set back while the agent runs; only midnights that pass early
  or late relative to each other.
* An unreadable `state.json`: `load` starts afresh, which `FirstTick` then
  treats like a new enrollment (everything timekpr shows is credited).
* In `AgentTick` a request that the agent has given up is either processed before
  that or never; late ones are in `UsageLedger`.
* Rendering, templates, audit rows (append-only, nothing reads them back),
  migrations, packaging.
* Weekly and monthly ceilings: computed from the same rows, returned, and read by
  no agent.
* In `HubPages` a save is one step.  In the code it reads the user first and
  writes the columns that differ from what it has read, so that of two saves at
  the same instant the later can leave a column the earlier has just changed.
  The form's other fields (weekly cap, PlayTime, offline policy) are written in
  the same way as the two modelled.
* The dashboard's forms name the day they were rendered for; a page left open over
  midnight changes the day it shows, its buttons the day it is.  Days are free in
  `DayLimit`, so both are among its changes.
* The page of past days judges them by today's policy and gates; that is what the
  model computes, too, and nothing claims otherwise.
* In `Provisioning` other statements of a request (counters, audit rows) touch
  rows nobody else waits for and are left out; a deleted user's history is not
  modelled.
* The policy form's other fields, which are copied as they are.

## 8. Plan

1. (done) `Convergence`, `TimekprDaemon`, `AgentTick` with proofs; `UsageLedger`;
   `PolicyPush` with its proof; `Enrollment`; `Provisioning`; `DayHours`,
   `PolicyEditor`; `AdminAccounts`; `LimitRegister`, `DayLimit` and the refinement,
   with its proof; `TokenRegister` and the refinement of `Enrollment`, with its proof;
   `HubPages`.
2. An abstract specification of the budget (one pool, any number of devices) that
   `AgentTick` and `UsageLedger` implement between midnights.
3. (done) Proofs of the safety properties of `AgentTick`, `PolicyPush`,
   `Enrollment`, `Provisioning`, `AdminAccounts`, `DayLimit`, `HubPages` and
   `PolicyEditor`.
4. (done) Proofs of `UsageLedger`: its types, `BurnOnce` and `NoActivityLost`.
5. (done) Proofs of `DayHours`: both conversions, for lists of any length.
