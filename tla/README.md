# Formal models of kakei_app

TLA+ models of the household-accounting API (`apps/api/src`) and of the login of its web application
(`apps/web/src/features/authentication`), the TLC runs that check them on small instances, and TLAPS proofs
of what matters most. All paths below are relative to the repository; `gm/` stands for
`apps/api/src/group-management/` and `st/` for `apps/api/src/settlement/domain/`.

## 1. The system

The API is a modular monolith. Aggregates are immutable TypeScript objects: a method returns a new object or
throws, so nothing is half changed in memory. What is hard lies in four places: long sequences of legal
commands, several callers and nodes over one PostgreSQL database, other contexts and external services that
answer late or not at all, and irreversible workflows that have to be resumed.

| Component | State | Operations | What makes it correct |
|---|---|---|---|
| Group aggregate (`gm/domain/group.ts`) | members with join order, invitations, owner, closing with receipts, archive | create, transferOwnership, leave, invite/cancel/acceptInvitation, startClosing, record(Un)FenceReceipt, archive, reserve/completeClosingCancellation | a stored group can be restored; membership only through an invitation; history is only added to; closing freezes, cancelling is irrevocable |
| Command service and repository (`gm/application/group-command-service.ts`, `gm/infrastructure/postgres/`) | group rows with version, stored operations under keyed locators, locator key state | replay lookup, load, compare-and-swap, commit, race resolution, recovery | an operation id takes effect at most once, no update is lost, a reported success is the stored one, no call hangs |
| Close coordinator and context ports (`gm/application/group-close-*.ts`) | fences of the two contexts, receipts in flight | installFence, reserveAndRemoveFences | no fence is removed from a group that can be archived; archived means settled; cancelled means usable |
| Settlement case (`st/settlement-case.ts`, `st/entities/`) | revisions, approvals, payment attempts, cancellation requests | start, approve, reject, resubmit, withdraw, reportPayment, confirmReceipt, returnPayment, request/agree/declineCancellation | only what all agreed to is paid, once; payment and cancellation exclude each other; decisions are final |
| Snapshot content, payment derivation (`st/value-objects`, `st/payment-instruction-derivation.ts`) | none | pure computation over balances | balances total zero; fewest payments; deterministic order |
| Calendar (`gm/domain/group-value-objects.ts`) | none | plusDays, plusCalendarYearInTokyo | month ends, leap days |
| Access policy (`gm/**/group-access-policy.ts`) | access index rows with the policy version | authorise a read against the version | nobody reads with a membership that ended |
| Retention deletion, close-intent registry (`gm/application/use-cases`, `group-management-retention-adapter.ts`) | registry rows, deletion receipts | verify evidence, delete a group's data, purge the registry | row, group and receipt go together; an answer "deleted" is true; an intent is not reused for a year |
| Invitation by recipient code (`registered-recipient-invitation-service.ts`, `enlisted-group-repository.ts`) | group commit enlisted in the authentication transaction | consume a code and invite | both happen or neither |
| Expense and receipt aggregates (`apps/api/src/expense-recording/domain`) | expenses, receipt bundles, corrections | edit, split, move, correct | the amounts of a receipt always add up |
| Authentication routes, login and session store (`apps/api/src/**/authentication`) | login attempts, sessions, identity aliases | begin, complete, inspect, logout, withSession | an attempt ends once, a revoked session stays so |
| Login page (`apps/web/src/features/authentication`) | phase, attempt and session of each tab; the cookies its tabs share | start, refresh, begin, credential, cancel, logout, stop | no answer that comes late leaves a view that contradicts what the tab holds; every busy view ends; a confirmed sign-out is one |
| Recipient codes | codes, leases, key generations | issue, replace, revoke, consume, clean up | a code is consumed once, before it ends, by a live session |
| Actor deletion, restore, cleanup | external ledger, keys, database rows | resumable workflows with deadlines | nothing deleted comes back, no key outlives its deadline unnoticed |
| HTTP rate limit | fixed windows in the database | reserve, cleanup | no window exceeds its limit |
| Presentation, record protection, the rest of the web application, migrations and tooling | – | stateless mapping, encodings, rendering | not modelled, see section 7 |

Interaction: the command service loads a `Group`, runs one aggregate method and hands the result to the
repository, which compares versions in one transaction. The coordinator calls the command service for the
reservation and then the ports of the expense-recording and the settlement context. The access policy reads
what the commits wrote. Invitations by code enlist the group commit in the authentication transaction. The
login page calls the authentication routes through `fetch`; the answers change its state in the controller
and the cookies in the browser, and the second happens even when the controller drops the answer. The
settlement case has no repository yet; its callers are to compare `expectedVersion`, which every method
already checks.

The hazards this code is exposed to, with their lines and the properties that would catch them, are listed
in `PROJECT.json` under `hazards`.

## 2. Modules

| Part | Modules | Checked by | Proofs |
|---|---|---|---|
| Group aggregate | `Group` | `MCAggregates` | `Group_proofs` |
| Coordinator and contexts, with `Group` | `GroupClose` | `MCAggregates`, `MCGroupClose`, `MCProgress` | `Group_proofs` |
| Command service, repository, commit kernel | `GroupCommit`; abstract: `GroupOperations` | `MCGroupStore`, `MCProgress` | `GroupStore_proofs` |
| Retention deletion and registry | `GroupRetention`, with a retrying caller `RetriedRetention` | `MCGroupStore`, `MCRetriedRetention`, `MCProgress` | `GroupStore_proofs` |
| Evidence of a deletion | `RetentionEvidence` | `MCGroupStore` | `GroupStore_proofs` |
| Calendar | `TokyoCalendar` | `MCGroupStore` | `GroupStore_proofs` |
| Settlement case | `SettlementCase`; abstract: `SettlementOutcome` | `MCAggregates` | `SettlementCase_proofs` |
| Content of a revision, derivation of payments | `SnapshotContent`, `PaymentDerivation` | `MCAggregates` | |
| Expenses and receipts | `GroupExpense`, `ReceiptAdjustment`, `Receipt`, composed by `ReceiptBundles` | `MCExpense` | `ReceiptBundles_proofs` |
| Routes and records of login | `AuthenticationServer` | as part of `WebLogin` | |
| Login page, with the routes and one cookie jar | `WebLogin` | `MCWebLogin`, `MCProgress` | `WebLogin_proofs` |
| First login of an account | `FirstLogin` | `MCTransactions`, `MCProgress` | `Transactions_proofs` |
| Recipient codes | `RecipientCode` | `MCTransactions`, `MCProgress` | `Transactions_proofs` |
| The transaction that uses a code | `InvitationLease`; abstract: `AtomicInvitation` | `MCTransactions` | |
| Cleanup of recipient codes | `RecipientCodeCleanup` | `MCMaintenance` | `RecipientCodeCleanup_proofs` |
| HTTP budgets | `HttpRate` | `MCTransactions`, `MCProgress` | `Transactions_proofs` |
| Deletion of an actor, cleanup of sessions | `AuthenticationRecords`, `ActorDeletion`, with a retrying operator `RetriedDeletion` | `MCMaintenance`, `MCProgress` | `AuthenticationRestore_proofs` |
| Restore from a backup, beside deletions | `AuthenticationRestore` | `MCMaintenance` | `AuthenticationRestore_proofs` |

Each module names its source files and what it leaves out at its top; `PROJECT.json` maps every definition
to its lines. The operators marked `Mutant:` are plausible bugs of the definition they stand before. Nothing
uses them: `PROJECT.json` names, for each property of each run, the one that violates it when it is put in
the place of the original.

What follows says how state and actions correspond to the code where that is not obvious.

**Group.** One action per public method. A method that throws changes nothing, so its checks are guards; one
that returns `this` is a stuttering step. All methods except `transferOwnership` rebuild the group with
`Group.restore`. The checks of `restore` that a method does not make itself and that can refuse its result
are guards too: in `Leave` that the member issued no invitation at or after the instant of leaving, in
`InviteParticipant` that the owner had joined by then. The rest of `restore` is the invariant
`RestoreAccepts`. Instants can be carried in any order, since they come from the callers' clocks;
`RetentionEnd` stands for `plusCalendarYearInTokyo`, which is `TokyoCalendar`.

**GroupClose** extends `Group`. A group action is one compare-and-swap commit. Issued receipts and sent
requests stay and can be delivered at any time, which covers delay, repetition and reordering. The contexts
exist in the repository only as the port `GroupCloseContextPort`.

**GroupCommit.** Each client is a process that runs one command at a time: `FindReplay`, `Load`, `Begin`,
`Stage` (key comparison and replay inside the transaction), `Persist` (row lock and compare-and-swap),
`InsertLocator`, `Commit`. `LoseCommit` is the COMMIT whose answer is lost: `SettleInDoubt` applies or drops
it later, possibly after the caller tried again. The aggregate is reduced to its version. `GroupOperations`
is an atomic object: an operation takes effect once and callers are told its result.

**GroupRetention.** One action per statement of the two transactions, under row locks; what a transaction
has written stays in its job until it commits. `deletedAt` is the clock at `ReadReceipt`, before any lock,
as in the code. A repetition that runs beside the first try may be answered `RegistryNotLive` or
`GroupNotFound` although the deletion succeeds. The primary key of receipts and the `RESTRICT` of the
registry's foreign key are modelled. The code neither checks that the group is archived nor binds evidence
to a group: both are the caller's duty, and the model does not either (`RequestsAssumption` is the rule of
ADR 55 that a receipt names one group). `Year` abstracts the calendar, which `TokyoCalendar` computes; a day
of February 29 makes its end earlier than that of the day before, so nothing relies on monotony.
`RetentionEvidence` is checked by itself: two of the four key namespaces stand for all.

**SettlementCase.** One action per public method, with the version and the snapshot the caller read as
inputs, so commands prepared against an older case are among them. The status of the case is `caseStatus`,
so that one run can extend this module and `Group`. Contents are a parameter with the facts of
`ContentsAssumption`; `SnapshotContent` computes them from expenses, and `ContentsSettleExpenses` shows that
they meet that assumption. The memo of the derivation changes its cost alone and is left out.

**ReceiptBundles.** The aggregates are joined by nothing under `src/` yet. An action is the joint step the
contracts of `docs/domain` ask of a caller: the method of the receipt and the reflecting method of every
affected expense, saved together.

**AuthenticationServer, WebLogin.** A request is a slot of `calls`: sent with the cookies of that moment,
served in one or two transactions, answered. A secret is modelled as the record it selects. Every `await` of
the controller is a call in flight; its answer arrives (`Receive`), is lost (`Lose`) or is given up after 30
seconds while the server goes on (`GiveUp`). The controller compares `version` and `inspection` with what
they were at the call; both only grow, so a call carries whether they are unchanged (`fresh`, `latest`).
Headers and body arrive in one step. `spent` and `signedOut` are history variables. The second transaction
of a login looks at the attempt again (`CanComplete`): it may have been replaced by a new begin, or
consumed, since the first.

**FirstLogin.** The rotation of search keys is outside the repository; it follows
`docs/security/authentication-protected-storage.md:79-83`. An actor that is disabled but not removed loses
its aliases with the old key version, and its account can then log in anew; the id of a removed actor stays
taken. **RecipientCode** leaves key rotation out; **InvitationLease** allows any callback. **HttpRate**: a
key stands for namespace, version, limits and secret together, and one operation for four, whose rows have
different keys; a peer that is limited still spends the global budget, as in the code.

**RecipientCodeCleanup.** A run reads two rows under their MACs, that of the code and that of its actor.
Either may be damaged, and the key that verifies it may be out of reach at any time; that of a code is gone
once the provider destroyed it. So a reading is "valid", "mismatch" or "unverifiable", and the worse of the
two decides: a mismatch seals the authentication off, and a time that could not be verified does not count
and is reported, for a code without a row too, whose actor's row is read all the same. `claims`, `late` and
`blind` are history variables of a run: the codes that were over, and a day late, when it began, and those
it could not verify. The module lets a row be skipped at any time and the seal never be blocked, both more
than the code does.

**ActorDeletion, AuthenticationRestore.** Every call to the ledger, the database and the key registry is a
step. Workers in flight are not assumed to have stopped when a backup is put in place. The epoch and the
generation of the database are folded into its status, "rotating" counts as active, and all services share
one clock.

## 3. Runs

| Run | Question | Distinct states |
|---|---|---|
| `aggregates` | a group with its invitations, closings and receipts, alone and with its contexts; a whole settlement, refinement of `SettlementOutcome`; contents and payments | 132,973 |
| `group_store` | racing retries, lost commits and a change of the key, refinement of `GroupOperations`; deletions, purges and closings at once; the issue of evidence; the calendar | 615,638 |
| `expense_recording` | a receipt, its bundles, corrections and settlements; spreads and splits | 40,049 |
| `web_login_tabs` | calls and answers in one tab with two attempts or two sessions, or in two tabs, within the bounds below; an attempt replaced or consumed between the two transactions of a login | 1,402,223 |
| `authentication_maintenance` | deletions; a restore beside one; the cleanup of codes, with rows that cannot be verified | 1,851,293 |
| `authentication_transactions` | logins, codes, the transaction of a code (refinement of `AtomicInvitation`), budgets | 1,051,325 |
| `everything_ends` | liveness of eight components under contention | 158,640 |
| `group_close_stuck`, `group_retention_cancelled`, `web_login_late`, `restore_late_deletion`, `cleanup_complete` | the findings below | violation |

What the properties say stands before each of them. Components that share no state are checked side by side
by one run: a behaviour belongs to the `part` it starts with, and the state of the others is left out.

**Bounds.** They are at the top of each `.cfg`, and constraints are operators of the MC module with a
comment. They are chosen so that what is hard happens: a full group whose member leaves and returns; two
closings, so that receipts of the cancelled one meet the second; two callers of two calls each on two
operation ids and two groups, so that a retry, a rival and a rotation overlap; two groups that share a close
intent, and a year that ends within the clock; two revisions, three reports and two cancellation requests;
three items under one discount; two calls in flight, the one a tab waits for and one it has given up; two
workers of two deletions with a crash between any two calls, and one worker beside a restore; three logins
of two accounts with two key versions; budgets that are used up within two windows. The pure calculations
are checked for all inputs of the stated sizes, against definitions that enumerate (the fewest payments, the
closest spread) or count (the days of the calendar). A group by itself goes through eight changes.

Two components are too large to have everything at once. What a run leaves out there is:
- *The login page* (`OneThingAtATime`). One tab with one attempt and one session goes through every order of
  its two calls. With a second attempt, a second session or a second tab no request is refused for its
  frequency, and the only call that nobody awaits any more is a login between its transactions, in one tab.
  With two sessions no attempt expires. In two tabs there is one session and no attempt expires, and a
  second attempt comes while a login is between its two transactions, beside which only a begin is under
  way. So a login whose attempt is replaced or consumed between its transactions, from the same tab after a
  reload or from the other one, is in the run: without the second look at the attempt, `LoginsStand` is
  violated. The invariants are proved without these bounds (section 5).
- *Maintenance* (`OneWorker`). Beside a restore there is one deletion, whose deadline is ahead; with two,
  `restore_late_deletion` finds what section 4 says, and that the deletions the restore did apply survive is
  proved for any number. Of the cleanup of codes, two runs beside each other see one code with intact rows,
  and go on only while neither has failed or found anything late; a run by itself sees two codes, or one
  whose row or whose actor's row is damaged, or one that came back from a backup. What it answers is proved
  for any number of runs and codes.

**Deadlock** is checked in `web_login_tabs`, where a page can always be left or entered. It is not checked
in the others: an archived group, a settled case and callers that used up their calls have nothing left to
do, and some bounds stop the clock.

**Symmetry** is used over ids that no definition orders, and in no run with a liveness property.

**Fairness.** Every component names its own in its module, and `MCProgress` uses them. A process that runs
takes its next step, and a call of the client ends (its timeout makes that true): weak fairness. Where
transactions compete for a lock or a retry competes with others, the step of the one is taken if it is
possible again and again: strong fairness, which the lock queues of PostgreSQL give. Crashes and failures
are not fair, and where they would prevent every end they stop at some time (`calm`). Nothing is assumed of
users or of other contexts. The contenders are alike, so what is said of one of them stands for both. Inside
that run nothing expires, codes have no clock, and a group is not reopened.

## 4. Findings

`group_close_stuck` violates `CancellationCompletes`. `reserveClosingCancellation` asks only for the phase
`Fencing`, and the coordinator validates the receipts it is handed, not those the group recorded. A
cancellation reserved while an issued fence receipt is not on record cannot end: the group refuses the fence
receipt, because it is no longer in `Fencing`, and the unfence receipt, because it has no fence receipt to
match. The group stays `Closing` although no fence stands, while the ADR
(`docs/adr/group-close-consistency-and-retention-boundary.md:56`) relies on retries.

`group_retention_cancelled` violates `ArchivedGroupsAreDeleted`. A cancelled closing leaves its live row in
the registry. The deletion retires the row of its own intent only, so the foreign key of the other one
refuses it, and every repetition, for ever; the port says of that answer that it can be repeated
(`group-management-retention-port.ts:55`).

`web_login_late` violates `LateInspectionKeepsLogin`. An inspection without a session is answered 401 with a
`Set-Cookie` that deletes the session cookie (`authentication-http.ts:231`). If it is late and a login was
answered meanwhile, the controller drops it, as its test says, but the browser obeys the header, and the new
session is lost to the user until it expires on the server.

`restore_late_deletion` violates `NewHeadsAreApplied`. `applyDeletions` applies the deletions of the head it
was given, but returns the head it read again after completing one that was still prepared
(`authentication-restore-service.ts:77, 81`). A deletion that another worker prepared meanwhile belongs to
the head that is returned: what compares heads afterwards sees no change, no further pass runs, and the
database is opened with the actor of that deletion active. The documents apply every new head, up to three
times (`docs/security/authentication-maintenance.md:45`). What does hold is `DeletionsSurviveRestore`, which
speaks of the head whose deletions were applied.

`cleanup_complete` violates `CompleteRunIsDone`. The result "complete" is documented as "all due targets
processed, none unreached and no failure" (`recipient-code-cleanup-service.ts:113`, in Japanese), and the
runbook says that only a run that confirmed all targets is complete
(`docs/operations/invitation-code-retention-restore.md:64`; line 62 says that such a target may be delayed
until its code expires, not that the run is complete). A run that cannot verify the row of a disabled actor
does not count the time of the disabling, leaves the code as not due, and answers "complete"
(`recipient-code-cleanup-service.ts:251, 432`): neither its ticket is registered nor its key destroyed. It
is taken up once the key can be reached again, or the code expires. Two runs beside each other are another
way: one answers "complete" when the other has registered the ticket and not yet destroyed the key. What
does hold is `CleanupAnswersAreTrue`, which exempts what a run could not verify and asks of the rest that
the row is gone and the destruction registered, or, when it was a day late, done.

Observations that are not runs: a deletion that completes after its 24 hours is reported complete
(`authentication-deletion-service.ts:162`; `docs/security/authentication-protected-storage.md:130` speaks of
the deadline). A run of the cleanup that could not verify an actor's row may reach its limit and answer
"pending" over a code of that actor that is a day late, although it means to leave no early target behind
(`recipient-code-cleanup-service.ts:400`), and a ticket it registers has a later time, which the runs after
it go by. The window of a budget is counted anew when the cleanup has removed its row
(`postgres-authentication-http-rate.ts:156`; `docs/security/authentication-http-boundary.md:67`). The access
index leaves out participants who left (`group-record-preparer.ts:210-225`; INV-002 of
`docs/domain/group-access-policy-contract.md`).

## 5. Proofs

All proofs hold for any sets of ids, nodes, callers and instants and rely only on the assumptions on
constants that the modules name. Every inductive invariant below was checked by TLC before it was proved, on
the instances of section 3 (`AuthenticationRestore`: one actor with a session, and two actors without). Each
is a conjunction of named parts, with one lemma or step per action and under it one per part that the action
can disturb.

**`Group_proofs`** (from `ConstantsAssumption`, `NullAssumption`). `TypeCorrect`: `TypeOK` is inductive.
`StoredGroupsCanBeRestored`: the inductive invariant is `TypeOK /\ IsFiniteSet(DOMAIN participants) /\
RestoreAccepts`; finiteness is needed because the capacity is a statement about a cardinality. The
interesting steps are `Leave`, where the invitations of the leaving member stay valid only because of the
guard that comes from `restore`, and `AcceptInvitation`, where the new join order differs from all others
because the former maximum ranges over those who left too. `MembershipsComeFromInvitations` is inductive
together with it. The action properties `MembershipIsFrozenOnceClosing`,
`ReservedCancellationIsIrrevocable`, `HistoryIsNeverRewritten` and `VersionsTellStatesApart` follow from
that invariant and the guards.

The module goes on with the group closed together with its contexts (`GroupClose`). That fences follow the
group is not inductive: receipts and requests that are still on their way decide what the next steps may do.
`CloseInv` adds that an intent that is over was fenced by both contexts (`StartedInv`), which closing a
fence belongs to (`FenceInv`), that a receipt stands for a fence that is still there unless its removal was
asked for, and that nothing starts behind a fence (`ReceiptInv`), that a reservation is one of an intent
that can only be cancelled (`ReservationInv`), and that an archived group is fenced and settled in both
(`SettledInv`). Theorems: `FencesAlwaysFollowTheGroup`, and `CloseImplementsGroup`: closed together with its
contexts, a group is still a `Group`, so all the above holds of it.

**`GroupStore_proofs`**, of what the group context keeps in PostgreSQL.

*Commits.* That a version is made by one stored operation is not inductive: it must be known what a
transaction has locked and read. `CommitInv` adds that a running call has its request, and which locks it
holds follows from where it is (`CallsFit`: `CallHasRequest`, `LocksFit`), what an open transaction holds
and has seen (`TransactionsFit`), that locks exclude each other (`CommitLocksExclude`), under which key
states a locator is stored (`KeysAreHeld`), that an operation has one locator although the key is changed
(`OneLocatorPerOperation`) and who made each version (`VersionsAreMade`). The step that needs all of it is
the insert of a locator by a transaction that compared the keys before the rotation.
`CommitImplementsOperations` is the refinement `Spec => ImplementsGroupOperations`: a commit that takes
effect, also one in doubt that is settled after its caller gave up, is the atomic step of `GroupOperations`;
an answer is a step that tells a caller the stored result; all else stutters.

*Deletions.* `IInv` says of each transaction what it has read under the locks it holds and of each committed
row which receipt it went with (`JobsFit`, `LocksExclude`, `ReceiptsFit`, `RowsFit`, `AnswersHold`). From it
follow `DeletionsAreTogether`, `AnswersAreTrue`, `DeletionsAreFinal` and `IntentsAreNotReusedEarly`. The
purge locks many rows, so a row's lock has to be followed from the statement that takes it to the commit: a
transaction in a state that holds a lock has seen the row as it is, until it writes it itself.

*Evidence and calendar.* `EvidenceInv` says that a call under way asks ports of one of each context, and
that both receipts were issued before it asks for keys; from it follows `EvidenceAlwaysWhole`. Of
`TokyoCalendar`, both clamps of a day are the same on every date (`ClampsAgree`), so that both computations
agree at every instant that has a date (`CalendarsAlwaysAgree`). That `DateOf` finds a date for every
instant within the years stays with TLC.

**`SettlementCase_proofs`** (from `ContentsAssumption` among others: what a content says does not change).
`IInv` fixes which statuses a revision, an attempt and a request can have together with the status of the
case (`HistoryFits`, `StatusFits`, `AttemptsFit`, `RequestsFit`), that what is due or paid was agreed to
(`PaymentsAreAgreed`, `OneAgreedRevision`) and that an instruction has one open or successful attempt
(`NoDoublePayment`). Theorems: `PaidOnce`, `CancelledOrPaid`, `DecisionsStayFinal`, and the refinement
`CaseImplementsOutcome`.

**`Transactions_proofs`**.

*First logins.* That an account has one active actor depends on a race: two logins that both found no alias.
`IInv` says that writers of one alias exclude each other (`WritesDiffer`, `NewActorsDiffer`), that what a
login has read under its locks still holds (`LoginsFit`), that aliases are those of their account
(`AliasesAreOwn`), that every active actor is found under a version that is searched
(`ActorsStayReachable`), that all searched aliases of an account lead to one actor (`SearchedAliasesAgree`)
and that no alias is newer than the key (`NoneNewer`). Theorems: `AccountsKeepOneActor`,
`ActiveActorsAreFound`. How often a login may lose a race is counted by the actors that are gone, and one
more when its account has an active one (`TriesInv`); so the retries of the code suffice:
`LoginsAlwaysFindTheirActor`.

*Recipient codes.* A request decides by rows it has locked, or by a row that cannot change any more.
`CodeInv` says of every request, at every step, what it knows of them (`RequestsFit`), that requests exclude
each other (`RequestsExclude`), that consumed codes and stored operations correspond one to one
(`SavedFits`), and of an answer "denied" that its code is over and that nobody who could still consume it is
under way (`AnswersFit`). Theorems: `CodesAlwaysSpentOnce`, `CodeAnswersAlwaysHold`.

*HTTP budgets.* `RateInv` says that a count a transaction has written is one more than the committed one,
which nobody else can change before it commits, and that a row is deleted only when its window is over
(`WritesFit`); so while a window runs, no more requests were allowed against it than its row counts, but for
those whose time was read late (`TalliesFit`). Theorem: `RateAlwaysHolds`.

**`WebLogin_proofs`** (from `SecretsAssumption`), in two layers, for any number of tabs, calls in flight,
attempts and sessions.

The first is about a tab and the calls that can change it. `PhaseMatchesSecrets` is not inductive: an answer
applied in a phase it was not sent in would break it. `IInv` adds that a call that will be heard belongs to
an active tab and is of the kind its phase awaits (`CallsFit`), that only one such call is under way unless
it is an inspection (`OneHeard`), and that an answer carries what was asked for (`CallsWell`). Every move of
a tab is an instance of the lemma `TabStep`. Theorems: `TypeCorrect`, `ViewsFitSecrets`.

The second is about sessions and attempts, over all tabs. `SessionsInv` says that a session somebody knows
of exists, and that no answer under way will bring its cookie once more (`KnownStay`, `CarriedOnce`), so
that a session that is over stays over; that what an inspection or a sign-out under way will tell of the
session of its tab is true when it is heard (`InspectionsAreTrue`, `LogoutsAreTrue`, `SignOutsAreFollowed`);
that one inspection of a tab will be heard (`OneLatest`); and that a session whose end was confirmed is over
and no inspection will show it (`SignedOutAreGone`). `AttemptsInv` says that an attempt is offered to, or
held by, one tab until it is spent. Both are kept by any step that changes calls, tabs and records as
`Evolves` says (`SessionsKept`, `AttemptsKept`), and every step of the program does (`NextEvolves`).
Theorems: `SignOutsAreFinal`, and from the same invariant the action properties of `LoginsAlwaysStand`.

**`ReceiptBundles_proofs`** (from `BundlesAssumption`, which says what a reviewed receipt is made of).
Neither property is inductive. `IInv` adds that the figures of a confirmed receipt are those its amounts and
adjustments give (`FiguresFit`), that bundles hold items it has (`BundlesFit`), that an expense is what its
methods can return (`ExpenseFits`), and that the receipt knows of every case about one of its bundles
(`SelectionsFit`). The last part links the two: the receipt lets a selected bundle be corrected only while
its case is rejected, so what it refuses is what a running case relies on. The step that needs all of it is
a correction: a bundle whose facts the receipt did not want has no item of which a figure changes, so its
expense may stay as it is (`AffectedAreFree`). Theorems: `BooksAlwaysAgree`, `SettledFactsAlwaysStand`. The
spread and the split are left uninterpreted: the books agree whatever they compute.

**`AuthenticationRestore_proofs`** (from `NoneAssumption`), for any number of actors, sessions, deletions
and workers. `IsGone` is broken by a backup alone: every other step of a worker, a cleanup, a user or the
restore keeps a deletion that is whole as it is (`Evolves`, `Keeps`), except that preparing its ticket anew
would make its keys live again. So `IInv` says that the entries of a deletion name one actor, whose
identifier was given out, and that it has a ticket (`LedgerFits`); that a worker about to prepare a ticket
is alone with it, and that one that resumes a deletion found it in the ledger (`JobsFit`); how many of the
deletions of its head the run has made whole at each of its steps (`RunFits`); that they are all whole once
users are let in (`OpeningFits`); and that the backup is put in place before the run (`BackupComesFirst`).
The step that needs most of it is `ReapplyDeletion`: the database is the backup's, and the actor and its
rows are taken from the ledger alone. Theorems: `RestoreInvariant`, `DeletionsSurvive`,
`OldSessionsStayOver`.

Two more invariants stand on it. `KInv` (from `ScopesAssumption` too) is about keys: what the registry, a
worker or a cleanup names was given out (`ScopesFit`), a deletion destroys the key of no actor but its own
(`TicketsFit`), the head a restore works with knows every deletion that destroyed an actor's key or is about
to (`RunSeals`), and no key that is destroyed, or may be without another look at the rows, belongs to a row
that users could read (`DoomedIsGone`). Theorems: `RowsStayReadable`, `TypesHold`. `StoryInv` is about what
is told of a deletion: the database never says more than the ledger (`StoriesFit`), an actor has one
deletion and a worker that begins one has seen no other (`OneIntent`), the keys of a ticket that is done are
dead (`DoneIsDead`), and what a worker did lasts until a backup is put in place (`WorkLasts`). Theorem:
`DeletionsStayWhole`.

**`RecipientCodeCleanup_proofs`** (from `CleanupAssumption`), for any number of codes, actors and runs
beside each other. `CodesInv` says what the tables and the provider hold of a code (`CodeFits`), what a
transaction of a user holds under the actor's lock (`UseFits`) and what a run knows of the code it works on
(`SweepFits`); it gives `KeysOutlast`. What a run tells depends on what it saw before other runs went on, so
the proof rests on what every step keeps (`Lasts`, `RowsMove`: a row that is gone stays gone unless a backup
brings it back, an end is final). `ClaimsInv` says of a run that could still answer "complete" that every
code that was over when it began, and that it could verify, is registered and its row gone, or is still on
its list (`ClaimFits`, `StillToDo`). `LateInv` says the same of the codes that were a day late: what the run
knew of them when it had collected them (`Ends`), what it has done about them if it skipped none (`Does`),
and that it cannot be silent about one if everything could be verified (`Tells`). Theorem: `AnswersTrue`. It
does not say that "complete" means that every key is destroyed, which is false (section 4).

**Only model-checked.** Liveness under fairness and `ENABLED`, which the prover does not reach
(`TransactionsEnd`, `RetriesEnd`, `BusyEnds`). What recursive definitions and sums over sets compute, since
that needs induction over data: `FirstOfTheFewest` and `ContentsSettleExpenses` (`PaymentDerivation`,
`SnapshotContent`), `SpreadIsClosest` and `BurdensAreFair`, and that an expense never refuses a correction
of its receipt (`CorrectionsAreReflected`). The refinement of `AtomicInvitation` by `InvitationLease`
(`LeaseImplementsPromise`).

## 6. Plan

What the plan named is modelled and checked but for one component, and every safety property of the passing
runs that is not named above is proved. What is left: a proof of the refinement of `AtomicInvitation`, and a
model of the version-checked reads of the access policy.

## 7. Not modelled

Record protection, canonical encodings and digests are data conversions; the protocols use only that what is
read is what was written, and that a digest belongs to one key. Presentation keeps no protocol state, nor
does the web application outside its login. Migrations are modelled where the code relies on their
constraints. The access policy is read-only but for `withExclusiveMutation`, which runs the transaction of
another context while it holds the row of the group's version; neither is modelled. `GroupRetention` takes
evidence as given and `RetentionEvidence` says when it is issued; the two are not composed. `PROJECT.json`
lists every component with its status.
