# Formal models of the ONS Wagtail CMS

TLA+ models of the parts of this repository whose correctness depends on the
order in which things happen: bundles of pages that are reviewed, approved and
published together, the messages that report on a publication, the actions that
follow it, what the CMS keeps in step with others (the files of private media, the
search service, the Bundle API, the identity API), and how articles, release
calendar pages and reviews fare when forms, drafts and schedules cross. TLC checks the models on small instances; TLAPS proves the most
important results for any number of bundles, pages, processes and threads.
`PROJECT.json` maps every definition to the lines it models and lists runs,
hazards, findings and theorems.

To check: `tlc -workers 2 -config X.cfg M` for a run (module `M` and `X.cfg` as
listed below), `tlapm M.tla` for a module of proofs.

## The system and its parts

The CMS is a Django/Wagtail application on PostgreSQL. The same code runs as web
processes (the Wagtail admin), as a scheduler process that runs management
commands each minute (`cms/core/management/commands/scheduler.py`), and as
management commands run by hand or by cron.

| Part | State | Operations | Interacts with | What is hard | What makes it correct |
|---|---|---|---|---|---|
| Bundles (`cms/bundles`) | bundle rows with status, approval stamp, schedule, pages; workflow step and revisions of pages | form save, approve, return, publish, add page, delete; `publish_bundles` | workflows, release calendar, Bundle API, notifications, post-publish actions | requests write back the whole row they read earlier; a publication commits page by page over a row others may change; two commands may overlap | one active bundle per page; an approved bundle has its stamp; only reviewed content goes live; published means every page is live; a due bundle is handled |
| Notifications (`cms/bundles/notifications`, `cms/core/slack.py`, support executor in `cms/post_publish_actions/executor.py`) | task queue, threads, last future per bundle, stored Slack timestamp | submit, wait for the task before, send or update, report | publication, post-publish actions | tasks wait for tasks of their own pool; several threads, one order; failing calls | the pool never starves; messages go out in order; the last word is the report's |
| Post-publish actions (`cms/post_publish_actions`) | a row per page and action type, jobs in the memory of a process | enqueue, run, report or time out, retry | publication, retry command; S3, CDN and search as handlers | jobs outlive the rows and verdicts about them; jobs are lost with their process; retries overlap | success is honest; every action ends; retries are bounded |
| Bundle API synchronisation (`cms/bundles/bundle_api_sync_service.py`) | remote bundle, contents, ETag; ids in the local rows | create, add and remove contents, set state and metadata, delete | bundle form | remote calls cannot be rolled back with the local transaction | no orphan, no dangling id; after a save that succeeds both sides agree |
| Emails (`cms/bundles/signal_handlers.py`) | sent flag per team | mail on save | every save of a bundle | the mail is sent after the transaction that notes it, and may fail | no mail for a row that is rolled back, no second one |
| Publishing outside bundles (`publish_scheduled_without_bundles`) | scheduled revisions | publish and expire what is due | bundles, media, search, corrections | the choice of pages is made before they are published | a page of an active bundle is left alone |
| Private media (`cms/private_media`) | privacy, times of change and of permissions, ACL in the store | upload, save, renditions, publish, unpublish, retry, serve | page signals, post-publish actions | file store calls fail or arrive late; stale rows are written back | nothing is public early; what is not outdated is set; retries converge |
| Frontend cache (`cms/frontend_cache`) | cached URLs | purge, replay of a purge | post-publish actions, page signals | which pages depend on which | nothing stale stays cached |
| Core (`cms/core`) | read replica, advisory lock | route reads and writes, migrate under a lock | all | reads behind writes; nested contexts | a context that asks for the write database gets it, migrations do not overlap |
| Workflows (`cms/workflows`) | tasks of a page, locks | submit, approve, send back, unlock, cancel | bundles | who may approve, what locks | nobody approves their own work; a ready page is not edited |
| Articles (`cms/articles`, `cms/core/forms.py`) | revisions and corrections of a page, open forms | edit, correct, publish, schedule | workflow, scheduled publication | forms submitted late | published corrections are kept, and supersede what readers saw |
| Release calendar (`cms/release_calendar`) | announced release, draft, log of changes of its date | edit, publish by hand or by a bundle | bundles, workflow | two sources of announcements | statuses move on; every change of a date is logged |
| Methodology, standard pages, topics, home | pages and their forms | edit, publish | cache, search | little of their own | |
| Search (`cms/search`) | messages to two Kafka topics | publish, move, unpublish, delete | post-publish actions, page signals | moves of subtrees, topics that cross, messages lost or late | the index follows the live tree |
| Teams and logins (`cms/teams`, `cms/users`) | local copy of remote groups; roles and teams of accounts | sync command, login | identity API | entries that vanish and return, logins beside syncs | the copy follows the source; an account has what its token says |
| Taxonomy (`cms/taxonomy`) | local copy of the topics | sync command | topic API | entries that vanish and return | the copy equals the source |
| Authentication sessions (`cms/auth`) | sessions, tokens | middleware | identity provider | stale sessions | session and token agree |
| Navigation, datasets, data downloads, data visualisations, images, documents, locale | mostly content | forms, views, conversions | | little concurrency | |

## Modules

| Module | What it is |
|---|---|
| `BundlePublishing` | bundles, their pages, web requests, `publish_bundles`, `publish_bundle` |
| `BundleStatusFlow` | abstract specification: the status flow of the admin's buttons |
| `MCBundlePublishing` | instance for TLC, with symmetry |
| `BundlePublishingProofs` | proofs about `BundlePublishing` |
| `BundleNotifications` | the support executor, Slack and the tasks of a publication |
| `MCBundleNotifications` | instance for TLC |
| `BundleNotificationsProofs` | proofs about `BundleNotifications` |
| `PostPublishActions` | action rows, jobs, reports, retries, crashes |
| `PostPublishActionsProofs` | proofs about `PostPublishActions` |
| `PrivateMedia` | privacy of images and documents: rows, files in the store, the edge |
| `PrivateMediaProofs` | proofs about `PrivateMedia` |
| `SearchIndex` | the page tree, two topics of messages, and the index made from them |
| `SearchIndexProofs` | proofs about `SearchIndex` |
| `BundleAPISync` | a bundle's row, its counterpart at the Bundle API, the review mails |
| `BundleAPISyncProofs` | proofs about `BundleAPISync` |
| `TeamsAccess` | preview teams, `sync_teams`, logins |
| `TeamsAccessProofs` | proofs about `TeamsAccess` |
| `ArticleCorrections` | corrections of a statistical article and its open forms |
| `ReleaseCalendar` | a release calendar page, its drafts and its bundle |
| `PageWorkflow` | the review of a page by another person |
| `PageFormsProofs` | proofs about the last three |
| `MCServices` | instance for TLC of these seven, one at a time |

### BundlePublishing

`row` is the bundle table with the pages of each bundle, `page` the workflow step
and versions of each page, `req` the requests under way, `queue` and `run` the
progress of each command and each `publish_bundle`; `tried` is a history variable.

* A request of the edit view is four actions, for it reads the row each time anew:
  `Dispatch` lets the action through (`viewsets/bundle.py:145`, `get_available_actions`),
  `ReadInstance` gives the form its instance, `Validate` posts the status (a plain save
  that of the row by then, `viewsets/bundle.py:174`) and runs `clean`, `Commit` writes
  every column of the stale instance and applies the inline changes. Whatever another
  process does may come between. Within `Dispatch` the redirect of a published bundle
  and the two calls of `get_available_actions` are one read, and the form's queries
  are one. Creation and `AddToBundleView` are `Begin...` and `Commit`.
* Saving through the form reads the row again by its key (`viewsets/bundle.py:208`), so
  a deleted bundle makes it fail; `AddToBundleView` does not, and Django's save
  inserts the row anew.
* Inline changes are additions and removals, applied to the pages the bundle has
  at commit. A return from `APPROVED` ignores inline forms and keeps the schedule.
* `publish_bundle` is `LoadPages`, one `PublishPage` or `PageFails` for each page,
  then `Conclude` or `CalendarFails`. A scheduled one runs while the row says
  `APPROVED`, one by hand when it says `PUBLISHED`. The latest revision of each page
  is loaded when the loop begins; approving a page still in review advances its
  task, goes live with nothing, and counts as published.
* The buttons a page hides do not refuse a POST from a form left open, so requests
  are guarded by what the code behind them checks.
* Release 0 is no release. Rejected or cancelled reviews, page deletion (refused
  in an active bundle), the release calendar page's own workflow and other users'
  permissions are left out.

### BundleNotifications

`task` is the append-only queue of the pool and `taken` how much of it threads have
taken; `after` in a task is the future it was chained to. `Notify` chains a message
to the last one of its bundle, `Report` submits the final report, threads `Take`,
`Wait`, `Send`, `Poll`, `Reply` and `Settle`. `message` and `ts` are what Slack shows
and what the bundle row stores. The pool is first in, first out and a Slack call
succeeds, fails, or fails as an update and is posted anew. Posting and the
conditional update of the timestamp are one step; alerts' text, messages of other
requests and reports that raise are left out. A process does not publish a bundle
again while it waits for its report.

### PostPublishActions

`row` maps each page and type to its row, with a key so that a recreated row differs
from the one a job has read. `queued` and `running` are jobs, each of the process
that submitted it; `proc` is the loop of a publication or a retry command.
`handled` is a history variable.

* The rows of a page are committed with it and then its jobs submitted, in one step:
  a crash just after stands for one in between.
* Time is counted in units of the timeout and stops at "more": a row or a process
  whose age is `Over` is past the code's limit.
* `RetryPick` reads the rows to retry and their keys together; `RetryCommit` selects
  again, as the `UPDATE` does. `failed_reason`, durations and `timed_out_at` are left
  out, as are the pool's size and order.
* Handlers return, in success or failure, in finite time.

### PrivateMedia

`media` holds the row of each item, `acl` the permissions of its files in the store,
`cached` what the edge has, and `work` what each process has in memory.

* `bulk_set_privacy` is `BeginBulk` (rows and files read), `BulkPermissions` (the calls,
  any subset of which takes effect and any of which is reported), `BulkWrite` and
  `BulkPurge`. A save is `EditLoad`, `EditSave`, `SavePermissions`, `SaveStamp`; the
  retry is `RetryLoad`, the same calls and `RetryWrite`. Stale rows are written back
  whole, as the code does, and a time is the number of changes so far.
* Pages start these: `PublishPage` at once, `PublishInBundle` by an action that
  `RunAction` runs later, `UnpublishPage` for what no other live page uses.
* `unheard` marks a call that failed with nothing taking note of it, `raced` an item
  on which two processes were at work at once. Deletion, the access of editors to
  private files and other models that use media are left out.

### SearchIndex

`status`, `above` and `slug` are the tree; `updated` and `deleted` the two topics, each
in order and neither in step with the other; `index` what the service holds.
`Publish`, `Unpublish`, `Move`, `Delete` and `ChangePrivacy` are the handlers;
A deletion announces the addresses of restricted pages as well, since their
restrictions are gone by the time of `post_delete`, unless a parent that stays is
restricted. `PublishFromBundle` leaves an action that `ActionRead` builds from the row it finds
and `ActionSend` sends, fails to, or has sent again. Any message may be lost.
`upset` marks addresses with a lost, late or overtaken message: about those the code
promises nothing. The index starts as a rebuild from `/v1/resources` leaves it.

### BundleAPISync

`saved` is the committed row, `draft` the row in the transaction, `remote` the bundles
of the API, `sync` the place in `BundleAPISyncService.sync`. Each remote call is a
step that succeeds, fails, or takes effect unheard (`Change`, `CreateFails`,
`RemoteDeleteFails`); `Abort` is a process that dies; `Cleanup` the compensating
deletion, which may fail as well. `Meddle` is somebody else's change of the remote
bundle, which the ETag shows. `Finish` ends a request: after a commit its review mails
go to `outbox` (`transaction.on_commit`), after a rollback they are dropped. From there
each is sent (`SendMail`) or not (`MailFails`: the send raises, which
`_send_bundle_email` only logs, or the process dies before it), while later requests go
on; `lost` remembers the second. A mail whose send raised may have been taken all the
same. Only one form is saved at a time. The validation that
approval makes of the datasets and the Slack messages about failures are left out.

### TeamsAccess

`directory` is the identity API, `team` and `account` are the rows. `sync_teams` is
`FetchGroups`, `ReadTeams`, `WriteTeams` (one transaction); a login `AssignGroups`,
`FindMissing` and `AssignTeams`, three statements that no transaction surrounds.

### ArticleCorrections

`drafts` are the revisions, `article` the row, `form` what each open form was loaded
with. A submission reads, checks and saves in one step (`SaveForm`). What a request
edits is the row, or the latest revision if there are unpublished changes
(`Instance`). A publication copies a revision to the row and freezes the corrections
there, not in the revision (`Freeze`); one that is due later locks the page, is
logged under another name when it comes and, if the page is not live, sends the
signal of a publication at once. Text, dates of corrections and notices are left out.

### ReleaseCalendar

`announced` is the row, `proposed` the latest revision, `phase` whether the page is
live, has unpublished changes and is ready. An entry of the log is frozen or loose,
and only their numbers are kept: that is all the form compares. `SaveSheet` is the
form with its checks, `PublishByHand` the end of the workflow,
`update_bundle_linked_release_calendar_page` the bundle, which saves the row, not the
latest revision, as a new revision and publishes it. `Reviewed` stands for the
workflow up to its last step; the choice of the page for a bundle and the save of the
bundle's form are separate steps. Scheduled publication of a release calendar page,
texts of dates and notices are left out. `UnpublishCalendar` is the date at which a page
expires: the admin never offers it (`permission_testers.py:14`).

### PageWorkflow

`editors` lists who saved each revision, `task` is the step. `MayReview` is looked at
before the form is saved, and `FormSaved` lets an approval carry changes. People are
members of the groups that edit, review and publish. Cancelling is refused to nobody:
in an approved bundle only the menu hides it (`wagtail_hooks.py:41-44`). If a page is
cancelled there and submitted again, its bundle approves the review, for no user.

### MCServices

The seven modules share no state. A behaviour of the instance belongs to one of them
(`area`) while the others rest, so its states are the sum of theirs, not the product.

## Runs

| Run | Module, configuration | Properties | Shows |
|---|---|---|---|
| bundle_schedule | MCBundlePublishing, BundleSchedule.cfg | OneActiveBundle, DueBundleIsHandled | with one request at a time beside the command, a page stays in one active bundle, and a due bundle does not stay approved |
| bundle_concurrent | BundleConcurrent.cfg | TypeOK, ApprovalStamp | two requests and a command: an approved bundle is stamped, an editable one is not unless its publication began between the reads of a request |
| bundle_manual | BundleManual.cfg | LiveWasReviewed, PublishedIsLive, ApprovedWhenReady, ApprovedPagesLocked, FollowsStatusFlow | publication by hand, one editor, keeps review and implements the status flow |
| bundle_two_editors | BundleTwoEditors.cfg | OneActiveBundle, violated | two forms pass the check before either saves |
| bundle_final | BundleFinal.cfg | PublishedIsFinal, violated | a stale return to draft overwrites a publication |
| bundle_republish | BundleRepublish.cfg | LiveWasReviewed, violated | a failing release calendar page leaves the bundle approved; the next run publishes later drafts |
| bundle_calendar_hides | BundleCalendarHides.cfg | PublishedIsLive, violated | the same failure hides that a page failed |
| notifications | MCBundleNotifications, Notifications.cfg | TypeOK, NeverStuck, InOrder, PublicationIsTold | order and progress of the messages |
| post_publish | PostPublishActions, PostPublish.cfg | TypeOK, SuccessIsHonest, ActionsAreSettled | success is not written for another publication; every action ends |
| post_publish_success | PostPublishSuccess.cfg | SuccessIsFinal, violated | a retried action whose first job succeeds late is set back to RUNNING |
| cms_services | MCServices, Services.cfg | NoEarlyLeak, FreshMeansSet, LiveUsesArePublic, PrivateIsPurged, PermissionsSettle | privacy of media under failing, late and overlapping calls |
| | | OnlyReleasedIsIndexed, QuietIndexIsRight | the index under moves, lost and crossing messages |
| | | InLockstep, CounterpartWhenNeeded, NoOrphans, MailAccounted | the counterpart of a bundle and the mails about it under failures at every call and after the commit |
| | | TeamsConverge, OneToken | teams and accounts under overlapping syncs and logins |
| | | CorrectionsKept, SupersededWasPublic | corrections under forms submitted late, schedules and unpublication |
| | | RescheduleIsLogged, StatusMovesOn | announcements by hand and by bundle over each other's drafts |
| | | ReadyWasReviewed | reviews whose approvals carry changes |
| sync_moved_back | BundleAPISync, SyncMovedBack.cfg | ReconciledWhenMovedBack, violated | an approval takes up a stale ETag unread; moving the bundle back then reconciles nothing |

**Bounds.** Two bundles compete for one page, or one bundle has two pages: conflicts
are between two, and a third only repeats them. `MaxVersion` 2 lets a page be edited
after its review; in bundle_concurrent the two requests and the command reach the draft that
keeps its stamp (see below), so the exception of ApprovalStamp is met; `MaxTime` 1 lets a release be future, then due. Two threads and six tasks let a
report wait beside two chained messages of each bundle; the pool's default is three.
One action is enough for the life of a row, since rows meet only in the report,
which waits for all of them, and in the retry's transaction; the proofs cover any
number. Three processes allow a publication beside two retry commands, two
publications a recreated row, one retry an exhausted one, and one crash loses jobs.
In Services.cfg two pages share one item, one of them in a bundle; one editing process
and one retry are two processes that can cross; three changes of privacy give public,
private and public again. Two pages, two slugs and two operations move a page with a
child, rename it, and give its address to another. Two datasets, two remote ids and
three saves let a save fail, a second one repair and a third one find nothing to do.
One group with two syncs and a login: what overlaps, overlaps on one team. Two open
forms and four revisions let an old form meet a correction published since, and one
that was scheduled; two forms, two dates and two entries let a second change of the
date follow a first; three people are an editor, a reviewer and one more, and four
revisions leave an approval with changes after an unlock. Larger instances passed as
well: teams with two changes of the directory (199 104 states), search with three
operations (4.5 million, a restricted page deleted among them), sync with four saves
(1 044 981) and, for one dataset, with two teams and two titles (127 234).
`LateActions` is FALSE; TRUE violates NoEarlyLeak (see below).

**Deadlock** is not checked: every model may come to rest (all bundles handled, all
tasks done, the bounds reached).

**Fairness.** Time passes; the scheduler or cron starts the commands again and again;
a process that has begun a publication, a report or a job goes on, unless it is
killed, and a handler returns. The retry of file permissions is run again and again,
and a call of it that is tried again and again succeeds in the end (strong fairness:
the store is not broken for good); `sync_teams` is run again and again. Nothing is asked of administrators: a bundle need
never be approved. Crashes are bounded, not fair.

**What the violated runs say.** Each quotes the line it contradicts in `findings`. They
are races or double failures, each of a few steps. The counterexample of
post_publish_success needs a job still at work twice the timeout (220 s by default)
after its row was made; that of sync_moved_back a save that fails after a remote call
and an approval as the next one.

## Proofs

Every invariant and action property that a passing run checks, and the refinement, is
a theorem for all values of the constants, from the assumptions named here. Each
module of proofs goes the same way: types first; then, for each result, an inductive
invariant that TLC had checked on small instances, a lemma per action (or per kind of
step) that it is kept, and the theorem.

`BundlePublishingProofs`
* `TypeCorrect`, `ApprovalStampKept`: for all constants. The stamp is not inductive
  alone: `StampInv` follows every request from read to read. The instance a form has
  read is stamped if it is approved; if it is editable, it is not, or the publication
  of the bundle has begun (`tried`, which only grows); what a validated request is going
  to write is stamped as its own status asks, with the same exception; and a
  publication under way is of a bundle that has been tried. An action that only an
  approved bundle is offered meets another status only after a publication.
* `OneActiveBundleKept`, `ApprovedAreLocked`: assume `OneEditor` (at most one request in
  flight, which bundle_two_editors shows to be necessary) and any number of commands.
  `ExclusiveInv` adds that the page changes of the pending request keep it so;
  `LockedInv` that a page somebody is about to unlock, or to publish alone, is in no
  approved bundle: nobody can approve one before that request is done.
* `FollowsFlow`, `ApprovedAreReady`: assume `OneByHand`, one request and no command.
  `QuietInv` says that a request or a publication is under way, never both; that the
  status a request is about to write is one the row's buttons offer; that a publication
  finds its bundle PUBLISHED; and that the pages of a pending approval are ready.
  Beside a command it fails: bundle_final is the counterexample. `FollowsFlow` is the
  refinement: initial states map to initial states, each step to a step of
  `BundleStatusFlow` or a stutter.
* `LiveIsReviewed`: assumes `OneByHand`; bundle_republish shows why no command may run.
  `HandInv` joins the two invariants above and adds that the pages of an approved
  bundle are ready, and that those a publication has still to come to are ready and in
  no approved bundle: so each is published with the revision that was reviewed.
* `PublishedAreLive`: assumes besides that no bundle has a release calendar page;
  bundle_calendar_hides shows why. `RunningCovers` says that a publication which has
  had no failure leaves only live pages behind.
  `OneByHand` is needed: beside one editor and one command, on one bundle and one page
  without calendar pages, `ApprovedWhenReady`, `LiveWasReviewed` and `PublishedIsLive`
  all fail, when a return, an unlocking or an addition that was checked before the
  publication is saved after it.

`BundleNotificationsProofs`: for any pool, any number of bundles and tasks, and any
failures.
* `NotificationTypes`, `NotificationsInOrder`, `PoolNeverStuck`: `PoolInv` says that the
  queue is in order: a task is chained to an older one of its bundle, the chain has no
  gaps, and what a thread waits for is older than what it holds; so the oldest task
  that is not done can always go on.
* `PublicationsAreTold`: `TellInv` follows a bundle as long as no call has failed: of its
  tasks one at a time is being sent, each sender knows the stored message, the one
  that opens a publication makes a new message, and the report replies to that one.

`PostPublishActionsProofs`
* `ActionTypes`: for all constants; no row counts more retries than the limit.
* `SuccessIsHonestKept`: assumes `OnePublisher` (publications of one bundle do not
  overlap; otherwise a row may be reset under a running job of the same row, whose
  success then stands for the new publication). `HonestInv` adds that a publication
  has no rows for pages it has not reached, and that no job holds the key of a row
  still to be made.

`PrivateMediaProofs`: for any pages, items and processes.
* `MediaTypes`, `NothingLeaksEarly`: the second assumes `~LateActions`. `SecretInv` says
  that whatever a process has in memory gives away only items that a page has been
  live with: the rows it loaded are private but for those, and it has files of no
  others in hand to open.
* `PrivateArePurged`, `LiveUsesPublic`, `FreshAreSet` rest on `CourseInv`: an item that
  two processes were never at work on at once is worked on by one, what that one
  has in memory is what the row says, and at each step of its kind it holds what the
  step needs. To that the first adds that a copy at the edge of an item just made
  private is about to be purged; the second that an item a live page uses is public
  or is held by the operation that makes it so; the third, for each step, which files
  have the permissions of the row and which are still to be set, and that no stamp
  is of a later time than the clock's.

`SearchIndexProofs`: for any tree and any slugs.
* `SearchTypes`, `OnlyReleasedFound`: the messages on their way and those held by actions
  name only pages that have been live.
* `QuietAddressesAreRight`: `TreeInv` (a page is at the top or below one that is, and
  alone of its slug there) gives every address one page. `RightInv` says of each address
  that is not upset that an action still owes its page, or that it settles: a removal
  on its way is of a free address that no update names; the last update about it puts
  there what is expected; with neither on its way the index is right. A move or
  another slug tells every address it takes or gives away, and no page of the
  family moves to where another was (`RenameApart`).

`BundleAPISyncProofs`
* `SyncTypes`, `MailsAreAccounted`, `NothingOrphaned`, `CounterpartsNeeded`,
  `SyncKeepsLockstep`: for any datasets, teams and ids. `RowsInv` says at every step of a
  request what the draft and the committed row have in common, which remote bundle is
  the request's own and which mails wait: those of the request are of teams not noted in the
  committed row, those in the outbox of teams noted and not yet mailed. `LockstepInv` adds that a fresh ETag with no
  local drift means that the contents agree, step by step of the reconciliation.
  Failing calls are handled once, by lemmas about `Failed` and `Change`.

`TeamsAccessProofs`
* `TeamsTypes`, `AccountsAreAsTheToken`: for any groups, users, syncs and logins.
  `TokenInv` says that no two logins of a user whose account is not mixed up are under
  way, and that the one that is has given the roles before it looks for teams.

`PageFormsProofs`
* `WorkflowTypes`, `ReadyIsReviewed`: for any people. What makes it inductive is that a
  page in a workflow has a revision.
* `CalendarTypes`, `StatusesMoveOn`, `ReschedulesAreLogged`: for any dates, forms and
  bounds. `ProposalFollows` says of the draft of a live page what the form checked:
  it keeps the frozen entries, logs just the change of the date it makes, and has a
  status the announced one may become; the row has no loose entries. Publication of
  the draft, or of the row by a bundle, then announces only what follows.
* `ArticleTypes`, `CorrectionsAreKept`, `SupersededArePublic`: for any forms and
  revisions. The types need `AllNumbered`: every set of corrections has a highest number,
  so that there is a next one (by the library's well-foundedness of the naturals, with
  no induction of its own). `LatestHasThem`
  says that the corrections readers see are in the latest revision and among those the
  form protects; `LatestIsNext` that a scheduled revision is the latest, since the page
  is locked; `AllSeen` that every correction anywhere supersedes a public revision.

Only model-checked: the liveness properties (`DueBundleIsHandled`, `ActionsAreSettled`,
`PermissionsSettle`, `TeamsConverge`), which with fairness and ENABLED are out of the
prover's reach, and the counterexamples.

## Observed, with no run of its own

* A bundle whose release is moved later is still published at the time it was listed
  with (`publish_bundles.py:49-52` looks at the status alone).
* `is_ready_to_be_published` (`models.py:238-245`) admits failed bundles so that they
  can be published again, but `dispatch` turns them away.
* The release calendar page is published even when every page failed (`utils.py:503`).
* An approved bundle emptied by a stale request, without datasets, is run by every
  command and never changes status.
* A return to draft or to preview that is let through while the bundle is APPROVED, and
  whose form is made after the publication has ended (FAILED, say), saves a draft that
  keeps its approval stamp: `clean` compares the status with that of the form's
  instance and clears the stamp only if that one is approved (`forms.py:511-524`).
  ApprovalStamp therefore excepts editable bundles whose publication has begun, and
  only these.
* Approval and the unlocking of a page check each other's state, then commit.
* `RetryCommit` counts by the second selection: an action that succeeded in between is
  run again uncounted, one that failed in between is READY with no job until the
  next retry.
* A report that times out while the last job writes may leave a row RUNNING with a
  finish time; the summary counts it neither as done nor as failed.
* The retry command is not in `scheduler.py`; that actions settle depends on a
  schedule kept elsewhere.
* `notify_slack_of_bundle_failure` says it always posts a new message; it goes through
  the update path.
* Media: an S3_ACL action that runs after its page was unpublished (or that the retry
  command takes up then) makes the media public all the same, and a later go-live
  written into the page does not stop it: `LateActions` TRUE violates NoEarlyLeak in
  eight steps. An error of the store that is swallowed in the pool lets a save stamp
  permissions that were not set (`unheard`). Files whose permissions were never set
  (`file_permissions_last_set` NULL) are not retried, though
  docs/custom-features/media_privacy.md:49 reads otherwise. Media that a republished
  page no longer uses stay public.
* Search: an action that runs late indexes a page that was unpublished meanwhile; a
  message that Kafka did not take is not sent again; a page made private leaves its
  entry. A handler that raises inside `publish_scheduled_without_bundles` is caught
  inside the transaction: the page goes live and the handlers after it never run.
* Bundle API: when the answer of a creation or deletion is lost, an orphan or a
  dangling id is left. The status that `publish_bundle` sets is not sent. The branch for
  PARTIALLY_PUBLISHED and FAILED bundles cannot be reached from the form. The
  publication mail goes out with every save of a published bundle
  (`signal_handlers.py:44`), `preview_notification_sent` is never reset, and stays set
  when the mail failed or was lost with its process after the commit (`email.py:70-97,
  118-119`), so nobody sends it again: MailAccounted allows just that. A bundle
  created in review mails inactive teams.
* Teams: a team that was deactivated and is listed again unchanged stays inactive
  (`Overlooked`); the roles of a login that fails on its teams stay.
* `sync_topics` reads outside a transaction, from a replica that may lag: a child of a
  topic just made may be put under the root.
* Workflow: the review task "requires the approver to be different than the last
  editor" (`workflows/models.py:49`), and both checks look at the last revision before
  the form is saved. An approval whose form holds changes saves them as the reviewer's
  own revision, and the page is ready with a last editor who approved it. ReadyWasReviewed
  therefore allows the reviewer the last revision, and no more. A page cancelled in an
  approved bundle and submitted again becomes ready with no reviewer when the bundle
  is published, and the bundle counts it as published. Of two approvals at
  once the second may act on the step the first has led to.
* Release calendar: `forms.py:176` says "removed or tampered with" but only numbers of
  frozen entries are compared. The bundle publishes the row, so a draft that is ready,
  even a reviewed cancellation or another date, is dropped, and approval accepts such a
  page (`bundles/forms.py:413`). A page cancelled between its choice and the save of the
  bundle's form is linked all the same and becomes PUBLISHED.
* Corrections: the superseded revision is looked up among log entries "wagtail.publish"
  (`core/forms.py:113`), while scheduled and bundled publications are logged as
  "wagtail.publish.scheduled": a correction may point to an older version than the
  one readers had, or be refused for a live page as not published yet. "Once a
  correction is published, it cannot be deleted" (`core/blocks/panels.py:55`) holds while
  the page stays public; freezing only reaches the row, so after an unpublication a
  form can leave a published correction out. A stale form resaves an unpublished
  correction with its outdated `previous_version`.

## Not modelled, and why

The parts listed as `not_modelled` in `PROJECT.json`: the database router and locked
migrations, taxonomy and sessions are planned below; blocks, charts, templates,
downloads and most of the pages are pure functions of their input, or forms with no
interleavings, and the functional tests are tests. They are most of the code.
Of the modelled parts: in `BundlePublishing` datasets beyond their presence, teams and
previews, permissions, crashes of web processes and of the publication itself (in
`PostPublishActions` and `BundleAPISync` a process may die at any point); two saves of
one bundle against the Bundle API at once; page URLs in the frontend cache; the models
of `MCServices` do not share pages, so an unpublication that races a review, say, is in
neither. Each subsection above names what its module leaves out.

## Plan

1. `BundlePublishing`, `BundleStatusFlow`, `BundleNotifications`, `PostPublishActions`,
   `PrivateMedia`, `SearchIndex`, `BundleAPISync`, `TeamsAccess`, `ArticleCorrections`,
   `ReleaseCalendar`, `PageWorkflow`: done, with proofs.
2. Proofs: assumptions weaker than `OneByHand` under which `LiveWasReviewed` and
   `PublishedIsLive` hold beside commands (an editor who never crosses a publication).
3. `FrontendCache`: the page URLs purged for moves, renames and publications; purge and
   replay; an edge that reads a lagging replica after the purge.
4. `DatabaseRouter` with nested contexts and a lagging replica; `LockedMigrate`;
   `SyncTopics` on top of the replica.
5. Scheduled publishing outside bundles beside `BundlePublishing`; crashes of the
   publication and of web processes there.
6. The latest edition of a series, headline figures and where they are used;
   authentication sessions.
