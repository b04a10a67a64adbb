------------------------- MODULE BundlePublishing -------------------------
(***************************************************************************)
(* The life of bundles: the admin's web requests that create, edit, move   *)
(* between statuses, publish by hand and delete a bundle; the workflow of  *)
(* the pages put into it; and the publish_bundles command, which releases  *)
(* approved bundles at their release time, page by page.                   *)
(*                                                                         *)
(* A web request never locks the row it works on.  The edit view reads it  *)
(* when it decides whether the action asked for is available (Dispatch),   *)
(* again for the instance of its form (ReadInstance), once more for the    *)
(* status of a plain save (Validate), and writes the WHOLE row back at the *)
(* end (Commit, Django's Model.save of a stale instance).  Each is an      *)
(* action, and everything may happen between them.                         *)
(* publish_bundle commits one page at a time, while the bundle's row still *)
(* says APPROVED (scheduled) or already says PUBLISHED (by hand).          *)
(***************************************************************************)
EXTENDS Naturals, FiniteSets

CONSTANTS
  Bundle,         \* bundle rows that may ever exist
  Page,           \* pages that may be bundled
  Web,            \* admin requests that may be in flight at the same time
  Cron,           \* publish_bundles processes that may overlap
  WithDatasets,   \* bundles that also hold Data API datasets
  WithCalendar,   \* bundles linked to a release calendar page
  MaxVersion,     \* bound: how often a page is edited
  MaxTime,        \* bound: the last instant of the clock
  IncludeFuture   \* the command's --include-future option

ASSUME ConstantsAssumption ==
  /\ WithDatasets \subseteq Bundle
  /\ WithCalendar \subseteq Bundle
  /\ Web \cap Cron = {}
  /\ MaxVersion \in Nat \ {0}
  /\ MaxTime \in Nat \ {0}
  /\ IncludeFuture \in Nat

VARIABLES
  row,        \* the bundle table, with the pages each bundle holds
  page,       \* workflow step and content versions of each page
  now,        \* the clock
  req,        \* the web requests between their validation and their commit
  queue,      \* the scheduler queue of each publish_bundles process
  run,        \* progress of publish_bundle in each process
  announced,  \* bundles whose release calendar page has been published
  tried       \* history: bundles whose publication has begun

vars == <<row, page, now, req, queue, run, announced, tried>>

---------------------------------------------------------------------------
(* Statuses (cms/bundles/enums.py); NEW and DELETED stand for no row.      *)

ActiveStatus    == {"DRAFT", "IN_REVIEW", "APPROVED"}
EditableStatus  == {"DRAFT", "IN_REVIEW"}
DeletableStatus == {"DRAFT", "IN_REVIEW"}
PublishedStatus == {"PUBLISHED", "FAILED", "PARTIALLY_PUBLISHED"}
BundleStatus    == ActiveStatus \cup PublishedStatus
Status          == BundleStatus \cup {"NEW", "DELETED"}

NoRelease == 0
Time      == 0 .. MaxTime
Version   == 0 .. MaxVersion
Process   == Web \cup Cron

BundleRow == [status : Status, pages : SUBSET Page, release : Time,
              approved : BOOLEAN]
PageState == [step : {"none", "review", "ready"}, draft : Version,
              live : Version, reviewed : Version]

\* What a POST to the edit view asks for: a plain save, or a status.
EditAction == ActiveStatus \cup {"edit", "PUBLISHED"}

\* The edit view: first only the action it has let through, then also what
\* the instance of its form was read with.
Instance    == [status : BundleStatus, release : Time, approved : BOOLEAN]
PostRequest == [kind : {"post"}, bundle : Bundle, action : EditAction]
FormRequest == [kind : {"form"}, bundle : Bundle, action : EditAction,
                seen : Instance]

\* A validated bundle request carries the columns it will write and the change
\* it makes to the bundle's pages; a page request carries its page.
BundleRequest == [kind : {"create", "save", "add"}, bundle : Bundle,
                  status : BundleStatus, add : SUBSET Page,
                  del : SUBSET Page, release : Time, approved : BOOLEAN]
PageRequest   == [kind : {"unlock", "publish_page"}, page : Page]
NoRequest     == [kind |-> "idle"]

\* publish_bundle: the pages still to do, with the latest revision each had
\* when the loop loaded it, and what happened so far.
Running == [step : {"started", "pages"}, bundle : Bundle, update : BOOLEAN,
            todo : SUBSET (Page \X Version), some : BOOLEAN, failed : BOOLEAN]
NotRunning == [step |-> "idle"]

TypeOK ==
  /\ row \in [Bundle -> BundleRow]
  /\ page \in [Page -> PageState]
  /\ now \in Time
  /\ req \in [Web -> PostRequest \cup FormRequest \cup BundleRequest
                      \cup PageRequest \cup {NoRequest}]
  /\ queue \in [Cron -> SUBSET (Bundle \X Time)]
  /\ run \in [Process -> Running \cup {NotRunning}]
  /\ announced \subseteq Bundle
  /\ tried \subseteq Bundle

---------------------------------------------------------------------------
(* What the code asks of bundles and pages.                                *)

ActiveBundles(p) ==
  {b \in Bundle : row[b].status \in ActiveStatus /\ p \in row[b].pages}

\* active_bundle is the first by release date, the undated last; which of two
\* equal ones comes first is left open.
FirstActive(b, p) ==
  /\ b \in ActiveBundles(p)
  /\ \A c \in ActiveBundles(p) : row[c].release <= row[b].release

\* Mutant: an approved bundle is not seen as ready.
IsReadyToBePublished_FailedOnly(bundle) ==
  bundle.status \in {"PARTIALLY_PUBLISHED", "FAILED"}

\* Asked of a row of the table or of an instance read from it.
IsReadyToBePublished(bundle) ==
  bundle.status \in {"APPROVED", "PARTIALLY_PUBLISHED", "FAILED"}

InBundleReadyToBePublished(p) ==
  \A b \in Bundle : FirstActive(b, p) => IsReadyToBePublished(row[b])

CanBeManuallyPublished(bundle) ==
  /\ IsReadyToBePublished(bundle)
  /\ bundle.release = NoRelease \/ bundle.release < now

HasUnpublishedChanges(p) == page[p].draft # page[p].live

ReleaseNotInPast(t) == t = NoRelease \/ t >= now

---------------------------------------------------------------------------
(* The bundle form: what a POST may ask for, and what it validates.        *)

Idle(w) == req[w] = NoRequest /\ run[w] = NotRunning

\* Mutant: a deleted bundle is still found.
Exists_DeletedToo(b) == row[b].status # "NEW"

Exists(b) == row[b].status \notin {"NEW", "DELETED"}

\* Mutant: the form does not ask whether a page is in another active bundle.
ValidPages_NoBundleCheck(b, P) == \A p \in P : HasUnpublishedChanges(p)

\* The pages a form may leave in bundle b: none in another active bundle,
\* each with something to publish.
ValidPages(b, P) ==
  \A p \in P : /\ ActiveBundles(p) = {} \/ FirstActive(b, p)
              /\ HasUnpublishedChanges(p)

SaveRequest(kind, b, status, P, release, approved) ==
  [kind |-> kind, bundle |-> b, status |-> status,
   add |-> P \ row[b].pages, del |-> row[b].pages \ P,
   release |-> release, approved |-> approved]

BeginCreate(w, b) ==
  /\ Idle(w)
  /\ row[b].status = "NEW"
  /\ \A v \in Web : req[v].kind = "create" => req[v].bundle # b
  /\ \E P \in SUBSET Page, t \in Time :
       /\ ValidPages(b, P)
       /\ ReleaseNotInPast(t)
       /\ req' = [req EXCEPT ![w] = SaveRequest("create", b, "DRAFT", P, t, FALSE)]
  /\ UNCHANGED <<row, page, now, queue, run, announced, tried>>

\* Mutant: one ready page is enough.
PagesReady_OneIsEnough(b) == \E p \in row[b].pages : page[p].step = "ready"

\* Mutant: the workflow step of the pages is not looked at.
PagesReady_Unchecked(b) == row[b].pages # {}

\* There is something to publish, and each page is ready for it.
PagesReady(b) ==
  /\ row[b].pages # {} \/ b \in WithDatasets
  /\ \A p \in row[b].pages : page[p].step = "ready"

\* Mutant: the actions of an approved bundle are offered to any ready one.
AvailableActions_AnyReady(b) ==
  {a \in EditAction :
     \/ row[b].status = "DRAFT"     /\ a \in {"edit", "IN_REVIEW"}
     \/ row[b].status = "IN_REVIEW" /\ a \in {"edit", "DRAFT", "APPROVED"}
     \/ IsReadyToBePublished(row[b]) /\ a \in EditableStatus
     \/ CanBeManuallyPublished(row[b]) /\ a = "PUBLISHED"}

\* The buttons, named by the status each asks for: nothing for a bundle whose
\* publication has ended, so dispatch turns those away.
AvailableActions(b) ==
  {a \in EditAction :
     \/ row[b].status = "DRAFT"     /\ a \in {"edit", "IN_REVIEW"}
     \/ row[b].status = "IN_REVIEW" /\ a \in {"edit", "DRAFT", "APPROVED"}
     \/ row[b].status = "APPROVED"  /\ a \in EditableStatus
     \/ /\ row[b].status = "APPROVED" /\ CanBeManuallyPublished(row[b])
        /\ a = "PUBLISHED"}

\* dispatch: the action must be available for the row as it is now.
Dispatch(w, b) ==
  /\ Idle(w)
  /\ \E a \in AvailableActions(b) :
       req' = [req EXCEPT ![w] = [kind |-> "post", bundle |-> b, action |-> a]]
  /\ UNCHANGED <<row, page, now, queue, run, announced, tried>>

\* post: the instance of the form is read from the row again.
ReadInstance(w) ==
  LET b == req[w].bundle IN
  /\ req[w].kind = "post"
  /\ Exists(b)
  /\ req' = [req EXCEPT ![w] =
               [kind |-> "form", bundle |-> b, action |-> req[w].action,
                seen |-> [status |-> row[b].status, release |-> row[b].release,
                          approved |-> row[b].approved]]]
  /\ UNCHANGED <<row, page, now, queue, run, announced, tried>>

\* get_form_kwargs: a plain save posts the status the row has by now.
PostedStatus(r) == IF r.action = "edit" THEN row[r.bundle].status ELSE r.action

\* Mutant: the approval stamp survives the return to an editable status.
Stamp_Kept(seen, posted) ==
  IF posted = seen.status THEN seen.approved
  ELSE posted \in {"APPROVED", "PUBLISHED"} \/ seen.approved

\* clean: approving or publishing stamps the bundle, leaving APPROVED clears
\* the stamp; what is compared is the instance's status with the posted one.
Stamp(seen, posted) ==
  IF posted = seen.status THEN seen.approved
  ELSE \/ posted \in {"APPROVED", "PUBLISHED"}
       \/ seen.approved /\ seen.status # "APPROVED"

\* The form is bound and validated. An approval takes no other change; leaving
\* APPROVED ignores the inline forms and keeps the schedule. An editable
\* instance accepts an active status only, any other accepts every status.
Validate(w) ==
  LET r      == req[w]
      b      == r.bundle
      posted == PostedStatus(r) IN
  /\ r.kind = "form"
  /\ r.action = "edit" => Exists(b)
  /\ r.seen.status \in EditableStatus => posted \in ActiveStatus
  /\ posted = "APPROVED" => PagesReady(b)
  /\ \E P \in SUBSET Page, t \in Time :
       /\ "APPROVED" \in {r.seen.status, posted}
          => P = row[b].pages /\ t = r.seen.release
       /\ (r.seen.status = "APPROVED" /\ posted # "APPROVED") \/ ValidPages(b, P)
       /\ ReleaseNotInPast(t) \/ CanBeManuallyPublished(r.seen)
       /\ req' = [req EXCEPT ![w] =
                    SaveRequest("save", b, posted, P, t, Stamp(r.seen, posted))]
  /\ UNCHANGED <<row, page, now, queue, run, announced, tried>>

\* AddToBundleView: the chosen bundle is editable, the page in no active one.
BeginAdd(w, b, p) ==
  /\ Idle(w)
  /\ row[b].status \in EditableStatus
  /\ ActiveBundles(p) = {}
  /\ req' = [req EXCEPT ![w] =
               SaveRequest("add", b, row[b].status, row[b].pages \cup {p},
                           row[b].release, row[b].approved)]
  /\ UNCHANGED <<row, page, now, queue, run, announced, tried>>

---------------------------------------------------------------------------
(* Committing or losing a request.                                         *)

\* form.save (or bundle.save) writes every column the instance holds and
\* applies the inline changes; a manual publish then enters publish_bundle.
\* Saving through the form first re-reads the row, so a deleted bundle makes
\* it fail; AddToBundleView has no such read, and its save inserts the row
\* again when the update finds none.
Commit(w) ==
  LET r == req[w] IN
  /\ r.kind \in {"create", "save", "add"}
  /\ r.kind = "save" => Exists(r.bundle)
  /\ row' = [row EXCEPT ![r.bundle] =
               [status   |-> r.status,
                pages    |-> (row[r.bundle].pages \ r.del) \cup r.add,
                release  |-> r.release,
                approved |-> r.approved]]
  /\ req' = [req EXCEPT ![w] = NoRequest]
  /\ run' = IF r.status = "PUBLISHED"
            THEN [run EXCEPT ![w] =
                    [step |-> "started", bundle |-> r.bundle, update |-> FALSE,
                     todo |-> {}, some |-> FALSE, failed |-> FALSE]]
            ELSE run
  /\ tried' = IF r.status = "PUBLISHED" THEN tried \cup {r.bundle} ELSE tried
  /\ UNCHANGED <<page, now, queue, announced>>

\* The form is refused, the row is gone, or the transaction rolls back (the
\* Bundle API sync failed).
Abort(w) ==
  /\ req[w] # NoRequest
  /\ req' = [req EXCEPT ![w] = NoRequest]
  /\ UNCHANGED <<row, page, now, queue, run, announced, tried>>

\* The row is re-read under a lock, so the check and the deletion are one step.
Delete(w, b) ==
  /\ Idle(w)
  /\ row[b].status \in DeletableStatus
  /\ row' = [row EXCEPT ![b] = [status |-> "DELETED", pages |-> {},
                                release |-> NoRelease, approved |-> FALSE]]
  /\ UNCHANGED <<page, now, req, queue, run, announced, tried>>

---------------------------------------------------------------------------
(* Pages: drafts, review and the ready-to-publish lock.                    *)

\* A page in the ready-to-publish step is locked for everybody.
EditPage(p) ==
  /\ page[p].step # "ready"
  /\ page[p].draft < MaxVersion
  /\ page' = [page EXCEPT ![p].draft = @ + 1]
  /\ UNCHANGED <<row, now, req, queue, run, announced, tried>>

SubmitPage(p) ==
  /\ page[p].step = "none"
  /\ HasUnpublishedChanges(p)
  /\ page' = [page EXCEPT ![p].step = "review"]
  /\ UNCHANGED <<row, now, req, queue, run, announced, tried>>

ReviewPage(p) ==
  /\ page[p].step = "review"
  /\ page' = [page EXCEPT ![p].step = "ready", ![p].reviewed = page[p].draft]
  /\ UNCHANGED <<row, now, req, queue, run, announced, tried>>

\* "Unlock editing" of a page that is ready: refused while its bundle is.
BeginUnlock(w, p) ==
  /\ Idle(w)
  /\ page[p].step = "ready"
  /\ ActiveBundles(p) = {} \/ ~InBundleReadyToBePublished(p)
  /\ req' = [req EXCEPT ![w] = [kind |-> "unlock", page |-> p]]
  /\ UNCHANGED <<row, page, now, queue, run, announced, tried>>

CommitUnlock(w) ==
  /\ req[w].kind = "unlock"
  /\ page[req[w].page].step = "ready"
  /\ page' = [page EXCEPT ![req[w].page].step = "review"]
  /\ req' = [req EXCEPT ![w] = NoRequest]
  /\ UNCHANGED <<row, now, queue, run, announced, tried>>

\* "locked-approve": publish a ready page on its own, outside any bundle.
BeginPublishPage(w, p) ==
  /\ Idle(w)
  /\ page[p].step = "ready"
  /\ ActiveBundles(p) = {}
  /\ req' = [req EXCEPT ![w] = [kind |-> "publish_page", page |-> p]]
  /\ UNCHANGED <<row, page, now, queue, run, announced, tried>>

\* Approving the last task of a workflow publishes the revision it carries.
WorkflowFinished(p) ==
  [page EXCEPT ![p].step = "none", ![p].live = page[p].reviewed]

CommitPublishPage(w) ==
  /\ req[w].kind = "publish_page"
  /\ page[req[w].page].step = "ready"
  /\ page' = WorkflowFinished(req[w].page)
  /\ req' = [req EXCEPT ![w] = NoRequest]
  /\ UNCHANGED <<row, now, queue, run, announced, tried>>

---------------------------------------------------------------------------
(* publish_bundles                                                         *)

DueBundles ==
  {b \in Bundle : /\ row[b].status = "APPROVED"
                  /\ row[b].release # NoRelease
                  /\ row[b].release <= now + IncludeFuture}

\* handle: the list is evaluated once; each bundle is entered in the
\* scheduler at the release time it had then.
ListBundles(k) ==
  /\ queue[k] = {} /\ run[k] = NotRunning
  /\ DueBundles # {}
  /\ queue' = [queue EXCEPT ![k] = {<<b, row[b].release>> : b \in DueBundles}]
  /\ UNCHANGED <<row, page, now, req, run, announced, tried>>

\* _handle_bundle_action: the earliest entry whose time has come; the row is
\* refreshed and must still be APPROVED.
HandleBundle(k) ==
  /\ run[k] = NotRunning
  /\ \E e \in queue[k] :
       /\ e[2] <= now
       /\ \A f \in queue[k] : e[2] <= f[2]
       /\ queue' = [queue EXCEPT ![k] = @ \ {e}]
       /\ run' = IF row[e[1]].status = "APPROVED"
                 THEN [run EXCEPT ![k] =
                         [step |-> "started", bundle |-> e[1], update |-> TRUE,
                          todo |-> {}, some |-> FALSE, failed |-> FALSE]]
                 ELSE run
       /\ tried' = IF row[e[1]].status = "APPROVED" THEN tried \cup {e[1]} ELSE tried
  /\ UNCHANGED <<row, page, now, req, announced>>

---------------------------------------------------------------------------
(* publish_bundle                                                          *)

\* The loop's query: the pages of the bundle now, with their latest revision.
LoadPages(k) ==
  /\ run[k].step = "started"
  /\ run' = [run EXCEPT ![k].step = "pages",
               ![k].todo = {<<p, page[p].draft>> : p \in row[run[k].bundle].pages}]
  /\ UNCHANGED <<row, page, now, req, queue, announced, tried>>

\* One page in its own durable transaction. A page in a workflow has its
\* current task approved, which publishes it only if the task is the last
\* one; any other page has the revision loaded above published.
Published(p, v) ==
  CASE page[p].step = "ready"  -> WorkflowFinished(p)
    [] page[p].step = "review" ->
         [page EXCEPT ![p].step = "ready", ![p].reviewed = page[p].draft]
    [] page[p].step = "none"   -> [page EXCEPT ![p].live = v]

PublishPage(k) ==
  /\ run[k].step = "pages"
  /\ \E e \in run[k].todo :
       /\ page' = Published(e[1], e[2])
       /\ run' = [run EXCEPT ![k].todo = @ \ {e}, ![k].some = TRUE]
  /\ UNCHANGED <<row, now, req, queue, announced, tried>>

\* The transaction of a page raises: it is rolled back, the loop goes on.
PageFails(k) ==
  /\ run[k].step = "pages"
  /\ \E e \in run[k].todo :
       run' = [run EXCEPT ![k].todo = @ \ {e}, ![k].failed = TRUE]
  /\ UNCHANGED <<row, page, now, req, queue, announced, tried>>

PagesDone(k) == run[k].step = "pages" /\ run[k].todo = {}

\* Updating the release calendar page raises: publish_bundle is left with the
\* status untouched.
CalendarFails(k) ==
  /\ PagesDone(k)
  /\ run[k].bundle \in WithCalendar
  /\ run' = [run EXCEPT ![k] = NotRunning]
  /\ UNCHANGED <<row, page, now, req, queue, announced, tried>>

\* Mutant: a publication is a success when any page was published.
FinalStatus_SomeIsEnough(k) ==
  CASE run[k].failed /\ ~run[k].some -> "FAILED"
    [] run[k].some /\ run[k].update  -> "PUBLISHED"
    [] OTHER                         -> row[run[k].bundle].status

\* Mutant: update_status is understood the wrong way round.
FinalStatus_NoUpdate(k) ==
  CASE run[k].failed /\ ~run[k].some -> "FAILED"
    [] run[k].failed /\ run[k].some  -> "PARTIALLY_PUBLISHED"
    [] ~run[k].failed /\ ~run[k].update /\ run[k].some -> "PUBLISHED"
    [] OTHER -> row[run[k].bundle].status

FinalStatus(k) ==
  LET b == run[k].bundle IN
  CASE run[k].failed /\ ~run[k].some -> "FAILED"
    [] run[k].failed /\ run[k].some  -> "PARTIALLY_PUBLISHED"
    [] ~run[k].failed /\ run[k].update /\ (run[k].some \/ b \in WithDatasets)
         -> "PUBLISHED"
    [] OTHER -> row[b].status

\* The calendar page is published, then the status column (alone) is saved;
\* saving it fails if the row has been deleted meanwhile.
Conclude(k) ==
  LET b == run[k].bundle IN
  /\ PagesDone(k)
  /\ announced' = IF b \in WithCalendar THEN announced \cup {b} ELSE announced
  /\ row' = IF Exists(b) THEN [row EXCEPT ![b].status = FinalStatus(k)] ELSE row
  /\ run' = [run EXCEPT ![k] = NotRunning]
  /\ UNCHANGED <<page, now, req, queue, tried>>

---------------------------------------------------------------------------

Tick ==
  /\ now < MaxTime
  /\ now' = now + 1
  /\ UNCHANGED <<row, page, req, queue, run, announced, tried>>

Init ==
  /\ row = [b \in Bundle |-> [status |-> "NEW", pages |-> {},
                              release |-> NoRelease, approved |-> FALSE]]
  /\ page = [p \in Page |-> [step |-> "none", draft |-> 1, live |-> 0, reviewed |-> 0]]
  /\ now = 0
  /\ req = [w \in Web |-> NoRequest]
  /\ queue = [k \in Cron |-> {}]
  /\ run = [k \in Process |-> NotRunning]
  /\ announced = {}
  /\ tried = {}

BundleRequestStep(w) ==
  \/ \E b \in Bundle :
       \/ BeginCreate(w, b) \/ Dispatch(w, b) \/ Delete(w, b)
       \/ \E p \in Page : BeginAdd(w, b, p)
  \/ ReadInstance(w)
  \/ Validate(w)
  \/ Commit(w)
  \/ Abort(w)

PageRequestStep(w) ==
  \/ \E p \in Page : BeginUnlock(w, p) \/ BeginPublishPage(w, p)
  \/ CommitUnlock(w)
  \/ CommitPublishPage(w)

PageStep(p) == EditPage(p) \/ SubmitPage(p) \/ ReviewPage(p)

CommandStep(k) == ListBundles(k) \/ HandleBundle(k)

PublicationStep(k) ==
  \/ LoadPages(k) \/ PublishPage(k) \/ PageFails(k)
  \/ CalendarFails(k) \/ Conclude(k)

Next ==
  \/ Tick
  \/ \E w \in Web : BundleRequestStep(w) \/ PageRequestStep(w)
  \/ \E p \in Page : PageStep(p)
  \/ \E k \in Cron : CommandStep(k)
  \/ \E k \in Process : PublicationStep(k)

Spec == Init /\ [][Next]_vars

\* The clock runs, the command is started again and again by its schedule and
\* a process that has begun runs on; administrators owe nothing.
Fairness ==
  /\ WF_vars(Tick)
  /\ \A k \in Cron : WF_vars(CommandStep(k))
  /\ \A k \in Process : WF_vars(PublicationStep(k))

FairSpec == Spec /\ Fairness

---------------------------------------------------------------------------
(* Properties                                                              *)

\* A bundle that is ready to publish carries its approval stamp, whatever stale
\* rows requests write back. A bundle that may be edited carries one only if a
\* publication of it had begun: BundleAdminForm.clean clears approved_at/by when
\* the instance it reads is still APPROVED, and a publication that ends between
\* dispatch and that read is the one way round it.
ApprovalStamp ==
  \A b \in Bundle :
    /\ row[b].status = "APPROVED" => row[b].approved
    /\ row[b].status \in EditableStatus /\ row[b].approved => b \in tried

\* A page is in at most one active bundle (BundledPageMixin.active_bundle).
OneActiveBundle ==
  \A b, c \in Bundle :
    /\ row[b].status \in ActiveStatus
    /\ row[c].status \in ActiveStatus
    /\ row[b].pages \cap row[c].pages # {}
    => b = c

\* A bundle becomes ready to publish only when all its pages are ready.
ApprovedWhenReady ==
  [][\A b \in Bundle :
       row'[b].status = "APPROVED" /\ row[b].status # "APPROVED"
       => \A p \in row'[b].pages : page'[p].step = "ready"]_vars

\* While its bundle is ready to publish, a ready page leaves that step only by
\* going live with its reviewed content: it cannot be unlocked.
ApprovedPagesLocked ==
  [][\A b \in Bundle : \A p \in row[b].pages :
       /\ row[b].status = "APPROVED" /\ row'[b].status = "APPROVED"
       /\ page[p].step = "ready" /\ page'[p].step # "ready"
       => page'[p].live = page[p].reviewed]_vars

\* Nothing goes live that has not been through review.
LiveWasReviewed ==
  \A p \in Page : page[p].live <= page[p].reviewed

\* A bundle that says it is published, with no publication under way, has
\* every one of its pages live (a page that failed changes the status).
PublishedIsLive ==
  \A b \in Bundle :
    /\ row[b].status = "PUBLISHED"
    /\ \A k \in Process : run[k] = NotRunning \/ run[k].bundle # b
    => \A p \in row[b].pages : page[p].live > 0

\* A published bundle does not become editable or ready to publish again, and
\* keeps its pages.
PublishedIsFinal ==
  [][\A b \in Bundle :
       row[b].status = "PUBLISHED"
       => /\ row'[b].status \in PublishedStatus
          /\ row'[b].pages = row[b].pages]_vars

\* An approved bundle whose release time has come does not stay approved.
DueBundleIsHandled ==
  \A b \in Bundle :
    row[b].status = "APPROVED" /\ row[b].release # NoRelease /\ row[b].release <= now
    ~> row[b].status # "APPROVED"

\* With one administrator at a time and no scheduled command, bundles live
\* the life get_available_actions draws: no stale save takes any other way.
StatusFlow == INSTANCE BundleStatusFlow WITH status <- [b \in Bundle |-> row[b].status]
FollowsStatusFlow == StatusFlow!Spec
===========================================================================
