---------------------------- MODULE PageFormsProofs ----------------------------
(***************************************************************************)
(* Proofs about the editing of pages: PageWorkflow, ReleaseCalendar and    *)
(* ArticleCorrections, for any people, dates, forms and bounds.            *)
(***************************************************************************)
EXTENDS PageWorkflow, ReleaseCalendar, ArticleCorrections, WellFoundedInduction, TLAPS

LOCAL INSTANCE FiniteSetsExt

---------------------------------------------------------------------------
(* The workflow                                                            *)

\* A page in a workflow has a revision: submitting it saves one.
SubmittedWasSaved == task # "none" => editors # <<>>

WorkflowInv == WorkflowTypeOK /\ SubmittedWasSaved /\ ReadyWasReviewed

LEMMA WorkflowInitially ==
  ASSUME WorkflowInit
  PROVE  WorkflowInv
  BY DEF WorkflowInit, WorkflowInv, WorkflowTypeOK, SubmittedWasSaved, ReadyWasReviewed, Nobody

LEMMA SavedAppends ==
  ASSUME WorkflowTypeOK, NEW u \in Person, Saved(u)
  PROVE  /\ editors' \in Seq(Person)
         /\ editors' # <<>>
         /\ Len(editors') = Len(editors) + 1
         /\ editors'[Len(editors')] = u
         /\ editors # <<>> => editors'[Len(editors') - 1] = LastEditor
  BY DEF WorkflowTypeOK, Saved, LastEditor

LEMMA ReviewKeeps ==
  ASSUME WorkflowInv, NEW u \in Person, ApproveDraft(u)
  PROVE  WorkflowInv'
  <1>1. WorkflowTypeOK /\ editors # <<>> /\ u # LastEditor
    BY DEF WorkflowInv, SubmittedWasSaved, ApproveDraft, MayReview, SelfApprover
  <1>2. editors' \in Seq(Person) /\ editors' # <<>>
    BY <1>1, SavedAppends DEF ApproveDraft, FormSaved, WorkflowTypeOK
  <1>3. (WorkflowTypeOK /\ SubmittedWasSaved)'
    BY <1>1, <1>2 DEF ApproveDraft, WorkflowTypeOK, SubmittedWasSaved
  <1>4. ReadyWasReviewed'
    <2>1. CASE UNCHANGED editors
      BY <2>1, <1>1 DEF ApproveDraft, ReadyWasReviewed, LastEditor
    <2>2. CASE Saved(u)
      <3>1. Len(editors') > 1 /\ editors'[Len(editors') - 1] = LastEditor
        BY <2>2, <1>1, SavedAppends DEF WorkflowTypeOK
      <3>2. reviewer' # editors'[Len(editors') - 1]
        BY <3>1, <1>1 DEF ApproveDraft
      <3>3. QED
        BY <3>1, <3>2 DEF ReadyWasReviewed
    <2>3. QED
      BY <2>1, <2>2 DEF ApproveDraft, FormSaved
  <1>5. QED
    BY <1>3, <1>4 DEF WorkflowInv

LEMMA WorkflowKept ==
  ASSUME WorkflowInv, [WorkflowNext]_workflowVars
  PROVE  WorkflowInv'
  <1>1. ASSUME NEW u \in Person, EditDraft(u) \/ SubmitDraft(u) \/ RequestChanges(u)
        PROVE  WorkflowInv'
    <2>1. editors' \in Seq(Person) /\ (editors # <<>> => editors' # <<>>)
      BY <1>1, SavedAppends
      DEF WorkflowInv, WorkflowTypeOK, EditDraft, SubmitDraft, RequestChanges, FormSaved
    <2>2. SubmitDraft(u) => editors' # <<>>
      BY SavedAppends DEF WorkflowInv, SubmitDraft
    <2>3. WorkflowTypeOK'
      BY <1>1, <2>1
      DEF WorkflowInv, WorkflowTypeOK, EditDraft, SubmitDraft, RequestChanges
    <2>4. task' # "ready"
      BY <1>1 DEF EditDraft, SubmitDraft, RequestChanges, EditingLocked
    <2>5. SubmittedWasSaved'
      BY <1>1, <2>1, <2>2
      DEF WorkflowInv, SubmittedWasSaved, EditDraft, SubmitDraft, RequestChanges, MayReview
    <2>6. QED
      BY <2>3, <2>4, <2>5 DEF WorkflowInv, ReadyWasReviewed
  <1>2. ASSUME NEW u \in Person, ApproveDraft(u)
        PROVE  WorkflowInv'
    BY <1>2, ReviewKeeps
  <1>3. ASSUME CancelWorkflow \/ Unlock \/ LockedApprove \/ BundlePublishes
        PROVE  WorkflowInv'
    <2>1. CASE CancelWorkflow \/ Unlock \/ LockedApprove
      BY <2>1
      DEF CancelWorkflow, Unlock, LockedApprove, WorkflowInv, WorkflowTypeOK,
          SubmittedWasSaved, ReadyWasReviewed
    <2>2. CASE BundlePublishes
      <3>1. task = "review" => LastEditor # Nobody
        BY WorkflowAssumption DEF WorkflowInv, WorkflowTypeOK, SubmittedWasSaved, LastEditor
      <3>2. QED
        BY <2>2, <3>1
        DEF BundlePublishes, WorkflowInv, WorkflowTypeOK, SubmittedWasSaved,
            ReadyWasReviewed, LastEditor
    <2>3. QED
      BY <1>3, <2>1, <2>2
  <1>4. ASSUME NEW from, NEW to \in {"no", "editable", "approved"}, BundleChanges(from, to)
        PROVE  WorkflowInv'
    BY <1>4
    DEF BundleChanges, WorkflowInv, WorkflowTypeOK, SubmittedWasSaved, ReadyWasReviewed, LastEditor
  <1>5. CASE UNCHANGED workflowVars
    BY <1>5
    DEF workflowVars, WorkflowInv, WorkflowTypeOK, SubmittedWasSaved, ReadyWasReviewed, LastEditor
  <1>6. QED
    BY <1>1, <1>2, <1>3, <1>4, <1>5 DEF WorkflowNext, PersonStep

\* Revisions, the task and the people of a page stay what they can be
\* (cms/workflows).
THEOREM WorkflowTypes == WorkflowSpec => []WorkflowTypeOK
  <1>1. WorkflowInv => WorkflowTypeOK
    BY DEF WorkflowInv
  <1>2. QED
    BY <1>1, WorkflowInitially, WorkflowKept, PTL DEF WorkflowSpec

\* However many people edit, submit, send back, unlock and approve a page, and
\* whatever their approvals save with it, what is ready to be published was not
\* approved by the one who wrote it (cms/workflows).
THEOREM ReadyIsReviewed == WorkflowSpec => []ReadyWasReviewed
  <1>1. WorkflowInv => ReadyWasReviewed
    BY DEF WorkflowInv
  <1>2. QED
    BY <1>1, WorkflowInitially, WorkflowKept, PTL DEF WorkflowSpec

---------------------------------------------------------------------------
(* The release calendar                                                    *)

\* A draft of a release that is announced logs exactly what it would announce.
LogMatches(r) ==
  announced.status \in DatedStatus /\ r.status \in DatedStatus
    => Entries(r) = Entries(announced) + IF r.date = announced.date THEN 0 ELSE 1

StatusFollows(r) ==
  /\ announced.status # "PROVISIONAL" => r.status # "PROVISIONAL"
  /\ announced.status = "PUBLISHED" => r.status = "PUBLISHED"

\* What is proposed follows what is announced: this is what the form checks when
\* the draft is saved, and what must still be so when it is published.
ProposalFollows ==
  phase.live =>
    /\ announced.loose = 0
    /\ phase.unpublished => proposed.frozen = announced.frozen
    /\ LogMatches(proposed)
    /\ StatusFollows(proposed)

CalendarInv == CalendarTypeOK /\ ProposalFollows

LEMMA CalendarInitially ==
  ASSUME CalendarInit
  PROVE  CalendarInv
  BY DEF CalendarInit, CalendarInv, CalendarTypeOK, ProposalFollows, Release, Status, NoSheet

LEMMA ReleasesFreeze ==
  ASSUME NEW r \in Release
  PROVE  /\ FrozenChanges(r) \in Release
         /\ FrozenChanges(r).loose = 0
         /\ Entries(FrozenChanges(r)) = Entries(r)
         /\ FrozenChanges(r).status = r.status
         /\ FrozenChanges(r).date = r.date
         /\ Entries(r) \in Nat
  <1>1. Entries(r) \in Nat
    BY DEF Entries, Release
  <1>2. FrozenChanges(r) = [status |-> r.status, date |-> r.date, frozen |-> Entries(r), loose |-> 0]
    BY DEF FrozenChanges
  <1>3. r.status \in Status /\ r.date \in ReleaseDate
    BY DEF Release
  <1>4. FrozenChanges(r) \in Release
    BY <1>1, <1>2, <1>3 DEF Release
  <1>5. Entries(FrozenChanges(r)) = Entries(r) + 0
    BY <1>2 DEF Entries
  <1>6. QED
    BY <1>1, <1>2, <1>4, <1>5

LEMMA SaveKeeps ==
  ASSUME CalendarInv, NEW e \in Editor, NEW r \in Release, SaveSheet(e, r)
  PROVE  CalendarInv'
  <1> USE DEF CalendarInv
  <1>1. CalendarTypeOK'
    <2>1. sheet[e] \in [open : {TRUE}, release : Release]
      <3>1. sheet[e] \in {NoSheet} \cup [open : {TRUE}, release : Release]
        BY DEF CalendarTypeOK
      <3>2. sheet[e] # NoSheet
        BY DEF SaveSheet, NoSheet
      <3>3. QED
        BY <3>1, <3>2
    <2>2. [sheet[e] EXCEPT !.release = r] \in [open : {TRUE}, release : Release]
      BY <2>1
    <2>3. sheet' = [sheet EXCEPT ![e] = [sheet[e] EXCEPT !.release = r]]
      BY DEF SaveSheet
    <2>4. sheet' \in [Editor -> {NoSheet} \cup [open : {TRUE}, release : Release]]
      BY <2>2, <2>3 DEF CalendarTypeOK
    <2>5. announced' \in Release /\ proposed' = r
      BY DEF SaveSheet, CalendarTypeOK
    <2>6. phase' \in [live : BOOLEAN, unpublished : BOOLEAN, ready : BOOLEAN] /\ bundling' = bundling
      BY DEF SaveSheet, CalendarTypeOK
    <2>7. QED
      BY <2>4, <2>5, <2>6 DEF CalendarTypeOK
  <1>2. ASSUME phase.live
        PROVE  /\ r.frozen = announced.frozen
               /\ LogMatches(r)
               /\ StatusFollows(r)
    <2>1. r.frozen = announced.frozen
      BY <1>2 DEF SaveSheet, FrozenChangesKept, Edited, ProposalFollows
    <2>2. Entries(announced) = announced.frozen /\ Entries(r) = r.frozen + r.loose
      BY <1>2 DEF ProposalFollows, Entries, CalendarTypeOK, Release
    <2>3. LogMatches(r)
      BY <1>2, <2>1, <2>2
      DEF SaveSheet, ChangesLogged, LogMatches, CalendarTypeOK, Release, ProposalFollows
    <2>4. StatusFollows(Edited)
      BY <1>2 DEF ProposalFollows, Edited, StatusFollows
    <2>5. StatusFollows(r)
      BY <1>2, <2>4
      DEF SaveSheet, StatusChoices, StatusDisabled, LOCKED_STATUS_STATUSES,
          NON_PROVISIONAL_STATUSES, StatusFollows
    <2>6. QED
      BY <2>1, <2>3, <2>5
  <1>3. ProposalFollows'
    BY <1>2 DEF SaveSheet, ProposalFollows, LogMatches, StatusFollows, CalendarTypeOK, Release
  <1>4. QED
    BY <1>1, <1>3

LEMMA PublicationKeeps ==
  ASSUME CalendarInv, NEW r \in Release, PublishCalendar(r), proposed' = r, UNCHANGED sheet,
         bundling' \in {"no", "chosen", "linked", "approved"}
  PROVE  CalendarInv'
  <1>1. announced' = FrozenChanges(r)
    BY DEF PublishCalendar
  <1>2. CalendarTypeOK'
    BY <1>1, ReleasesFreeze DEF CalendarInv, CalendarTypeOK, PublishCalendar
  <1>3. LogMatches(r)' /\ StatusFollows(r)' /\ announced'.loose = 0
    BY <1>1, ReleasesFreeze DEF LogMatches, StatusFollows, Entries
  <1>4. ProposalFollows'
    BY <1>3 DEF ProposalFollows, PublishCalendar, LogMatches, StatusFollows
  <1>5. QED
    BY <1>2, <1>4 DEF CalendarInv

LEMMA AsReleasedIsRelease ==
  ASSUME CalendarTypeOK
  PROVE  /\ AsReleased \in Release
         /\ Entries(AsReleased) = Entries(announced)
         /\ AsReleased.status = "PUBLISHED"
         /\ AsReleased.date = announced.date
  BY DEF CalendarTypeOK, AsReleased, Release, Entries, Status

\* The steps that leave what is announced and proposed as they are.
CalendarRest(bundle) ==
  /\ UNCHANGED <<announced, proposed>>
  /\ phase' \in [live : BOOLEAN, unpublished : BOOLEAN, ready : BOOLEAN]
  /\ phase'.live => phase.live /\ phase'.unpublished = phase.unpublished
  /\ sheet' \in [Editor -> {NoSheet} \cup [open : {TRUE}, release : Release]]
  /\ bundle \in {"no", "chosen", "linked", "approved"}

LEMMA RestKeeps ==
  ASSUME CalendarInv, CalendarRest(bundling')
  PROVE  CalendarInv'
  BY DEF CalendarInv, CalendarTypeOK, ProposalFollows, CalendarRest, LogMatches, StatusFollows, Entries

LEMMA OpenRests ==
  ASSUME CalendarTypeOK, NEW e \in Editor, OpenSheet(e)
  PROVE  CalendarRest(bundling')
  <1>1. Edited \in Release
    BY DEF CalendarTypeOK, Edited
  <1>2. QED
    BY <1>1 DEF OpenSheet, CalendarRest, CalendarTypeOK

LEMMA OthersRest ==
  ASSUME CalendarTypeOK,
         \/ Reviewed \/ UnlockCalendar \/ UnpublishCalendar \/ ChooseForBundle \/ LinkToBundle
         \/ ApproveBundle \/ ReturnBundle \/ Unlink \/ UNCHANGED calendarVars
  PROVE  CalendarRest(bundling')
  BY DEF CalendarTypeOK, Reviewed, UnlockCalendar, UnpublishCalendar, ChooseForBundle,
         LinkToBundle, ApproveBundle, ReturnBundle, Unlink, calendarVars, CalendarRest

LEMMA SheetsAreReleases ==
  ASSUME CalendarTypeOK, NEW e \in Editor, sheet[e].open, NEW s \in Status, NEW d \in ReleaseDate,
         NEW l \in 0 .. MaxEntries
  PROVE  [status |-> s, date |-> d, frozen |-> sheet[e].release.frozen, loose |-> l] \in Release
  <1>1. sheet[e] \in {NoSheet} \cup [open : {TRUE}, release : Release]
    BY DEF CalendarTypeOK
  <1>2. sheet[e] # NoSheet
    BY DEF NoSheet
  <1>3. sheet[e].release.frozen \in Nat
    BY <1>1, <1>2 DEF Release
  <1>4. QED
    BY <1>3, CalendarAssumption DEF Release

LEMMA CalendarKept ==
  ASSUME CalendarInv, [CalendarNext]_calendarVars
  PROVE  CalendarInv'
  <1>1. ASSUME NEW e \in Editor, EditorStep(e)
        PROVE  CalendarInv'
    BY <1>1, OpenRests, RestKeeps, SheetsAreReleases, SaveKeeps DEF EditorStep, CalendarInv
  <1>2. CASE PublishByHand
    BY <1>2, PublicationKeeps DEF PublishByHand, CalendarInv, CalendarTypeOK
  <1>3. CASE update_bundle_linked_release_calendar_page
    BY <1>3, AsReleasedIsRelease, PublicationKeeps
    DEF update_bundle_linked_release_calendar_page, CalendarInv
  <1>4. QED
    BY <1>1, <1>2, <1>3, OthersRest, RestKeeps DEF CalendarNext, BundleStep, CalendarInv

\* What is announced and proposed, and every open form, stays a release with a
\* log of natural length (cms/release_calendar).
THEOREM CalendarTypes == CalendarSpec => []CalendarTypeOK
  <1>1. CalendarInv => CalendarTypeOK
    BY DEF CalendarInv
  <1>2. QED
    BY <1>1, CalendarInitially, CalendarKept, PTL DEF CalendarSpec

\* A step of a live page announces nothing, or what was proposed, or the row.
LEMMA Announcements ==
  ASSUME CalendarInv, [CalendarNext]_calendarVars, phase.live
  PROVE  \/ UNCHANGED announced
         \/ announced' = FrozenChanges(proposed)
         \/ announced' = FrozenChanges(AsReleased)
  <1>1. ASSUME NEW e \in Editor, EditorStep(e)
        PROVE  UNCHANGED announced
    BY <1>1 DEF EditorStep, OpenSheet, SaveSheet
  <1>2. PublishByHand => announced' = FrozenChanges(proposed)
    BY DEF PublishByHand, PublishCalendar
  <1>3. update_bundle_linked_release_calendar_page => announced' = FrozenChanges(AsReleased)
    BY DEF update_bundle_linked_release_calendar_page, PublishCalendar
  <1>4. CalendarRest(bundling') => UNCHANGED announced
    BY DEF CalendarRest
  <1>5. QED
    BY <1>1, <1>2, <1>3, <1>4, OthersRest DEF CalendarInv, CalendarNext, BundleStep

\* A status that readers have seen never goes back, in whatever order drafts are
\* saved, reviewed and published and bundles take the page (cms/release_calendar).
THEOREM StatusesMoveOn == CalendarSpec => StatusMovesOn
  <1> DEFINE Follows == phase.live
                          => /\ announced.status # "PROVISIONAL" => announced'.status # "PROVISIONAL"
                             /\ announced.status = "PUBLISHED" => announced'.status = "PUBLISHED"
  <1>1. ASSUME CalendarInv, [CalendarNext]_calendarVars
        PROVE  [Follows]_calendarVars
    <2>1. proposed \in Release /\ AsReleased \in Release /\ AsReleased.status = "PUBLISHED"
      BY <1>1, AsReleasedIsRelease DEF CalendarInv, CalendarTypeOK
    <2>2. QED
      BY <1>1, <2>1, Announcements, ReleasesFreeze DEF CalendarInv, ProposalFollows, StatusFollows
  <1>2. QED
    BY <1>1, CalendarInitially, CalendarKept, PTL DEF CalendarSpec, StatusMovesOn

\* Every change of a date that readers were promised comes with its entry in the
\* log, and no entry without one (cms/release_calendar).
THEOREM ReschedulesAreLogged == CalendarSpec => RescheduleIsLogged
  <1> DEFINE Logged == phase.live /\ announced.status \in DatedStatus /\ announced'.status \in DatedStatus
                         => Entries(announced') =
                              Entries(announced) + IF announced'.date = announced.date THEN 0 ELSE 1
  <1>1. ASSUME CalendarInv, [CalendarNext]_calendarVars
        PROVE  [Logged]_calendarVars
    <2>1. /\ proposed \in Release /\ AsReleased \in Release
          /\ Entries(AsReleased) = Entries(announced) /\ AsReleased.date = announced.date
          /\ Entries(announced) \in Nat
      BY <1>1, AsReleasedIsRelease, ReleasesFreeze DEF CalendarInv, CalendarTypeOK
    <2>2. CASE UNCHANGED announced
      BY <2>1, <2>2
    <2>3. CASE announced' = FrozenChanges(proposed)
      BY <1>1, <2>1, <2>3, ReleasesFreeze DEF CalendarInv, ProposalFollows, LogMatches
    <2>4. CASE announced' = FrozenChanges(AsReleased)
      BY <2>1, <2>4, ReleasesFreeze
    <2>5. QED
      BY <1>1, <2>2, <2>3, <2>4, Announcements
  <1>2. QED
    BY <1>1, CalendarInitially, CalendarKept, PTL DEF CalendarSpec, RescheduleIsLogged

---------------------------------------------------------------------------
(* The corrections of an article                                           *)

\* As much of the shape of the state as the arguments need: corrections may be
\* anything that has a version and a previous revision.
ArticleShape ==
  /\ \E S : drafts \in Seq(S)
  /\ Len(drafts) \in Nat \ {0}
  /\ article = [row |-> article.row, live |-> article.live, unpublished |-> article.unpublished,
                scheduled |-> article.scheduled, logged |-> article.logged]
  /\ article.live \in BOOLEAN /\ article.unpublished \in BOOLEAN
  /\ form = [w \in Window |-> [open |-> form[w].open, corrections |-> form[w].corrections]]

\* A page that waits for its time waits with its latest revision, for it is
\* locked; a page without changes shows it.
LatestIsNext ==
  /\ PageLocked => article.scheduled = Latest
  /\ article.live /\ ~article.unpublished => Latest \in shown

\* The corrections that readers see are in the revision that would be published
\* next, and among what the form protects.
LatestHasThem ==
  article.live =>
    /\ Versions(article.row) \subseteq Versions(drafts[Latest].corrections)
    /\ Versions(article.row) \subseteq Versions(FrozenIn(Instance))

ArticleInv == ArticleShape /\ LatestIsNext /\ LatestHasThem

LEMMA ArticleInitially ==
  ASSUME ArticleInit
  PROVE  ArticleInv
  <1>1. drafts \in Seq({[corrections |-> {}, dated |-> FALSE]}) /\ Len(drafts) = 1
    BY DEF ArticleInit
  <1>2. ArticleShape
    <2>1. \E S : drafts \in Seq(S)
      BY <1>1
    <2>2. form = [w \in Window |-> [open |-> form[w].open, corrections |-> form[w].corrections]]
      BY DEF ArticleInit, Closed
    <2>3. QED
      BY <1>1, <2>1, <2>2 DEF ArticleInit, ArticleShape
  <1>3. QED
    BY <1>2 DEF ArticleInit, ArticleInv, LatestIsNext, LatestHasThem, PageLocked, NoRevision

LEMMA FreezingKeepsVersions ==
  ASSUME NEW cs
  PROVE  /\ Versions(Freeze(cs)) = Versions(cs)
         /\ FrozenIn(Freeze(cs)) = Freeze(cs)
  <1>1. ASSUME NEW v
        PROVE  v \in Versions(Freeze(cs)) <=> v \in Versions(cs)
    <2>1. v \in Versions(cs) <=> \E c \in cs : v = c.version
      BY DEF Versions
    <2>2. v \in Versions(Freeze(cs)) <=> \E f \in Freeze(cs) : v = f.version
      BY DEF Versions
    <2>3. \A c \in cs : [version |-> c.version, previous |-> c.previous, frozen |-> TRUE].version = c.version
      OBVIOUS
    <2>4. QED
      BY <2>1, <2>2, <2>3 DEF Freeze
  <1>2. \A f \in Freeze(cs) : f.frozen
    BY DEF Freeze
  <1>3. QED
    BY <1>1, <1>2 DEF FrozenIn

LEMMA DraftsGrow ==
  ASSUME ArticleShape, NEW d, drafts' = Append(drafts, d)
  PROVE  /\ \E S : drafts' \in Seq(S)
         /\ Len(drafts') = Len(drafts) + 1
         /\ Len(drafts') \in Nat \ {0}
         /\ drafts'[Len(drafts')] = d
         /\ \A i \in 1 .. Len(drafts) : drafts'[i] = drafts[i]
  <1>1. PICK S : drafts \in Seq(S)
    BY DEF ArticleShape
  <1>2. drafts \in Seq(S \cup {d})
    BY <1>1
  <1>3. drafts' \in Seq(S \cup {d}) /\ Len(drafts') = Len(drafts) + 1
    BY <1>2
  <1>4. drafts'[Len(drafts')] = d /\ \A i \in 1 .. Len(drafts) : drafts'[i] = drafts[i]
    BY <1>2, <1>3
  <1>5. QED
    BY <1>3, <1>4 DEF ArticleShape

\* What a submission saves, whatever it adds.
SavesIn(w, saved, kept) ==
  /\ kept \subseteq form[w].corrections
  /\ kept \subseteq saved
  /\ ~PageLocked
  /\ FrozenAreThere(kept)
  /\ \E dated : drafts' = Append(drafts, [corrections |-> saved, dated |-> dated])
  /\ article' = [article EXCEPT !.unpublished = TRUE,
                                !.row = IF article.live THEN @ ELSE saved]
  /\ form' = [form EXCEPT ![w].corrections = saved]
  /\ UNCHANGED shown

LEMMA SubmissionsSave ==
  ASSUME NEW w \in Window, NEW lost, NEW adding \in BOOLEAN, NEW dated, SaveForm(w, lost, adding, dated)
  PROVE  \E saved, kept :
           /\ SavesIn(w, saved, kept)
           /\ \A c \in saved \ kept : c.previous = article.logged /\ article.logged # NoRevision
  <1> DEFINE kept == form[w].corrections \ lost
             new == [version |-> NextVersion(kept), previous |-> Superseded, frozen |-> FALSE]
             saved == IF adding THEN kept \cup {new} ELSE kept
  <1>1. Valid(kept, adding)
    BY DEF SaveForm
  <1>2. FrozenAreThere(kept) /\ (adding => article.logged # NoRevision)
    BY <1>1 DEF Valid
  <1>3. SavesIn(w, saved, kept)
    BY <1>2 DEF SaveForm, SavesIn
  <1>4. \A c \in saved \ kept : adding /\ c.previous = article.logged
    BY DEF Superseded
  <1>5. QED
    BY <1>2, <1>3, <1>4

LEMMA SavedRow ==
  ASSUME ArticleShape, NEW w, NEW saved, NEW kept, SavesIn(w, saved, kept)
  PROVE  /\ article' = [row |-> IF article.live THEN article.row ELSE saved, live |-> article.live,
                        unpublished |-> TRUE, scheduled |-> article.scheduled,
                        logged |-> article.logged]
         /\ form' = [v \in Window |-> [open |-> form[v].open,
                                       corrections |-> IF v = w THEN saved ELSE form[v].corrections]]
  <1>1. article' = [row |-> IF article.live THEN article.row ELSE saved, live |-> article.live,
                    unpublished |-> TRUE, scheduled |-> article.scheduled, logged |-> article.logged]
    <2>1. article' = [article EXCEPT !.unpublished = TRUE,
                                     !.row = IF article.live THEN @ ELSE saved]
      BY DEF SavesIn
    <2>2. QED
      BY <2>1 DEF ArticleShape
  <1>2. ASSUME NEW v \in Window
        PROVE  form'[v] = [open |-> form[v].open,
                           corrections |-> IF v = w THEN saved ELSE form[v].corrections]
    <2>1. form[v] = [open |-> form[v].open, corrections |-> form[v].corrections]
      BY DEF ArticleShape
    <2>2. form'[v] = IF v = w THEN [form[v] EXCEPT !.corrections = saved] ELSE form[v]
      BY DEF ArticleShape, SavesIn
    <2>3. QED
      BY <2>1, <2>2
  <1>3. DOMAIN form' = Window /\ form' = [v \in DOMAIN form' |-> form'[v]]
    BY DEF ArticleShape, SavesIn
  <1>4. QED
    BY <1>1, <1>2, <1>3

LEMMA SaveKeepsCorrections ==
  ASSUME ArticleInv, NEW w \in Window, NEW saved, NEW kept, SavesIn(w, saved, kept)
  PROVE  ArticleInv'
  <1>1. ArticleShape
    BY DEF ArticleInv
  <1>2. PICK dated : drafts' = Append(drafts, [corrections |-> saved, dated |-> dated])
    BY DEF SavesIn
  <1>3. Len(drafts') \in Nat \ {0} /\ drafts'[Len(drafts')].corrections = saved
    BY <1>1, <1>2, DraftsGrow
  <1>4. ArticleShape'
    <2>1. \E S : drafts' \in Seq(S)
      BY <1>1, <1>2, DraftsGrow
    <2>2. form' = [v \in Window |-> [open |-> form'[v].open, corrections |-> form'[v].corrections]]
      BY <1>1, SavedRow
    <2>3. PICK row : article' = [row |-> row, live |-> article.live, unpublished |-> TRUE,
                                 scheduled |-> article.scheduled, logged |-> article.logged]
      BY <1>1, SavedRow
    <2>4. /\ article' = [row |-> article'.row, live |-> article'.live, unpublished |-> article'.unpublished,
                         scheduled |-> article'.scheduled, logged |-> article'.logged]
          /\ article'.live = article.live /\ article'.unpublished = TRUE
      BY <2>3
    <2>5. QED
      BY <1>1, <1>3, <2>1, <2>2, <2>4 DEF ArticleShape
  <1>5. LatestIsNext'
    <2>1. article'.scheduled = article.scheduled /\ article'.unpublished = TRUE
      BY <1>1, SavedRow
    <2>2. QED
      BY <2>1 DEF SavesIn, LatestIsNext, PageLocked
  <1>6. ASSUME article.live
        PROVE  /\ Versions(article.row) \subseteq Versions(saved)
               /\ Versions(article.row) \subseteq Versions(FrozenIn(saved))
    <2>1. Versions(article.row) \subseteq Versions(FrozenIn(kept))
      BY <1>6 DEF ArticleInv, LatestHasThem, SavesIn, FrozenAreThere
    <2>2. Versions(FrozenIn(kept)) \subseteq Versions(FrozenIn(saved))
      BY DEF SavesIn, Versions, FrozenIn
    <2>3. Versions(FrozenIn(saved)) \subseteq Versions(saved)
      BY DEF Versions, FrozenIn
    <2>4. QED
      BY <2>1, <2>2, <2>3
  <1>7. LatestHasThem'
    BY <1>1, <1>3, <1>6, SavedRow DEF LatestHasThem, Instance, Latest
  <1>8. QED
    BY <1>4, <1>5, <1>7 DEF ArticleInv

\* Publication of a revision, under whatever name it is logged.
GoesPublic(r) ==
  /\ \E log : article' = [row |-> Freeze(drafts[r].corrections), live |-> TRUE,
                          unpublished |-> r # Latest, scheduled |-> NoRevision, logged |-> log]
  /\ shown' = shown \cup {r}
  /\ UNCHANGED <<drafts, form>>

LEMMA LatestGoesPublic ==
  ASSUME ArticleInv, PublishArticle \/ ScheduledGoesLive
  PROVE  GoesPublic(Latest)
  <1>1. CASE PublishArticle
    <2>1. article' = [row |-> Freeze(drafts[Latest].corrections), live |-> TRUE,
                      unpublished |-> Latest # Latest, scheduled |-> NoRevision, logged |-> Latest]
      BY <1>1 DEF PublishArticle, PublicRow, ArticleInv, ArticleShape
    <2>2. QED
      BY <1>1, <2>1 DEF PublishArticle, Seen, GoesPublic
  <1>2. CASE ScheduledGoesLive
    <2>1. article.scheduled = Latest
      BY <1>2 DEF ScheduledGoesLive, ArticleInv, LatestIsNext
    <2>2. article' = [row |-> Freeze(drafts[Latest].corrections), live |-> TRUE,
                      unpublished |-> Latest # Latest, scheduled |-> NoRevision,
                      logged |-> article.logged]
      BY <1>2, <2>1 DEF ScheduledGoesLive, PublicRow, ArticleInv, ArticleShape
    <2>3. QED
      BY <1>2, <2>1, <2>2 DEF ScheduledGoesLive, Seen, GoesPublic
  <1>3. QED
    BY <1>1, <1>2

LEMMA PublicationKeepsCorrections ==
  ASSUME ArticleInv, GoesPublic(Latest)
  PROVE  ArticleInv' /\ (article.live => Versions(article.row) \subseteq Versions(article'.row))
  <1>1. PICK log : article' = [row |-> Freeze(drafts[Latest].corrections), live |-> TRUE,
                               unpublished |-> Latest # Latest, scheduled |-> NoRevision, logged |-> log]
    BY DEF GoesPublic
  <1>2. ArticleShape'
    BY <1>1 DEF GoesPublic, ArticleInv, ArticleShape
  <1>3. LatestIsNext'
    BY <1>1 DEF GoesPublic, LatestIsNext, PageLocked, Latest
  <1>4. Versions(article'.row) = Versions(drafts[Latest].corrections) /\ FrozenIn(article'.row) = article'.row
    BY <1>1, FreezingKeepsVersions
  <1>5. Instance' = article'.row
    BY <1>1 DEF Instance
  <1>6. LatestHasThem'
    BY <1>4, <1>5 DEF LatestHasThem, GoesPublic, Latest
  <1>7. QED
    BY <1>2, <1>3, <1>4, <1>6 DEF ArticleInv, LatestHasThem

LEMMA OtherStepsKeep ==
  ASSUME ArticleInv,
         \/ \E w \in Window : OpenForm(w) \/ CloseForm(w)
         \/ ScheduleArticle
         \/ UnscheduleArticle
         \/ UnpublishArticle
         \/ UNCHANGED articleVars
  PROVE  ArticleInv' /\ (article.live => article'.row = article.row)
  <1> USE DEF ArticleInv
  <1>1. CASE UNCHANGED <<drafts, article, shown>> /\ form' = [w \in Window |-> [open |-> form'[w].open, corrections |-> form'[w].corrections]]
    BY <1>1 DEF ArticleShape, LatestIsNext, LatestHasThem, PageLocked, Latest, Instance
  <1>2. ASSUME NEW w \in Window, OpenForm(w) \/ CloseForm(w)
        PROVE  form' = [v \in Window |-> [open |-> form'[v].open, corrections |-> form'[v].corrections]]
    BY <1>2 DEF OpenForm, CloseForm, Closed, ArticleShape
  <1>3. CASE ScheduleArticle
    <2>1. article' = [row |-> IF article.live THEN article.row ELSE Freeze(drafts[Latest].corrections),
                      live |-> article.live, unpublished |-> TRUE, scheduled |-> Latest,
                      logged |-> article.logged]
      BY <1>3 DEF ScheduleArticle, ArticleShape
    <2>2. article.live => article.unpublished
      BY <1>3 DEF ScheduleArticle, LatestIsNext, ArticleShape
    <2>3. QED
      BY <1>3, <2>1, <2>2
      DEF ScheduleArticle, ArticleShape, LatestIsNext, LatestHasThem, PageLocked, Latest, Instance
  <1>4. CASE UnscheduleArticle
    <2>1. article' = [row |-> article.row, live |-> article.live, unpublished |-> article.unpublished,
                      scheduled |-> NoRevision, logged |-> article.logged]
      BY <1>4 DEF UnscheduleArticle, ArticleShape
    <2>2. QED
      BY <1>4, <2>1
      DEF UnscheduleArticle, ArticleShape, LatestIsNext, LatestHasThem, PageLocked, Latest, Instance
  <1>5. CASE UnpublishArticle
    <2>1. article' = [row |-> article.row, live |-> FALSE, unpublished |-> TRUE,
                      scheduled |-> NoRevision, logged |-> article.logged]
      BY <1>5 DEF UnpublishArticle, ArticleShape
    <2>2. QED
      BY <1>5, <2>1 DEF UnpublishArticle, ArticleShape, LatestIsNext, LatestHasThem, PageLocked
  <1>6. QED
    BY <1>1, <1>2, <1>3, <1>4, <1>5 DEF OpenForm, CloseForm, articleVars, ArticleShape

LEMMA ArticleKept ==
  ASSUME ArticleInv, [ArticleNext]_articleVars
  PROVE  /\ ArticleInv'
         /\ article.live /\ article'.live => Versions(article.row) \subseteq Versions(article'.row)
  <1>1. ASSUME NEW w \in Window, NEW lost, NEW adding \in BOOLEAN, NEW dated,
               SaveForm(w, lost, adding, dated)
        PROVE  ArticleInv' /\ (article.live => article'.row = article.row)
    BY <1>1, SubmissionsSave, SaveKeepsCorrections, SavedRow DEF ArticleInv
  <1>2. CASE PublishArticle \/ ScheduledGoesLive
    BY <1>2, LatestGoesPublic, PublicationKeepsCorrections
  <1>3. QED
    BY <1>1, <1>2, OtherStepsKeep DEF ArticleNext, FormStep

\* No correction of a page that stays public is ever taken away, whatever old
\* forms are submitted and however the page is published (cms/core/forms.py).
THEOREM CorrectionsAreKept == ArticleSpec => CorrectionsKept
  <1> DEFINE Kept == article.live /\ article'.live => Versions(article.row) \subseteq Versions(article'.row)
  <1>1. ASSUME ArticleInv, [ArticleNext]_articleVars
        PROVE  [Kept]_articleVars
    BY <1>1, ArticleKept
  <1>2. QED
    BY <1>1, ArticleInitially, ArticleKept, PTL DEF ArticleSpec, CorrectionsKept

---------------------------------------------------------------------------
(* What a correction supersedes                                            *)

PreviousSeen(cs) == \A c \in cs : c.previous \in shown

\* Every correction there is, in the row, a revision or an open form, supersedes
\* a revision that has been public.
AllSeen ==
  /\ article.logged # NoRevision => article.logged \in shown
  /\ PreviousSeen(article.row)
  /\ \A w \in Window : PreviousSeen(form[w].corrections)
  /\ \A i \in 1 .. Len(drafts) : PreviousSeen(drafts[i].corrections)

LEMMA FreezingKeepsPrevious ==
  ASSUME NEW cs, PreviousSeen(cs)
  PROVE  PreviousSeen(Freeze(cs))
  BY DEF PreviousSeen, Freeze

LEMMA LatestIsSeen ==
  ASSUME ArticleShape, AllSeen
  PROVE  PreviousSeen(drafts[Latest].corrections) /\ PreviousSeen(Instance)
  <1>1. Latest \in 1 .. Len(drafts)
    BY DEF ArticleShape, Latest
  <1>2. QED
    BY <1>1 DEF AllSeen, Instance

LEMMA SavesAreSeen ==
  ASSUME ArticleInv, AllSeen, NEW w \in Window, NEW saved, NEW kept, SavesIn(w, saved, kept),
         \A c \in saved \ kept : c.previous = article.logged /\ article.logged # NoRevision
  PROVE  AllSeen'
  <1>1. ArticleShape
    BY DEF ArticleInv
  <1>2. PreviousSeen(saved)
    BY DEF AllSeen, PreviousSeen, SavesIn
  <1>3. PICK dated : drafts' = Append(drafts, [corrections |-> saved, dated |-> dated])
    BY DEF SavesIn
  <1>4. \A i \in 1 .. Len(drafts') : PreviousSeen(drafts'[i].corrections)
    <2>1. Len(drafts') = Len(drafts) + 1 /\ drafts'[Len(drafts')].corrections = saved
          /\ \A i \in 1 .. Len(drafts) : drafts'[i] = drafts[i]
      BY <1>1, <1>3, DraftsGrow
    <2>2. ASSUME NEW i \in 1 .. Len(drafts')
          PROVE  i = Len(drafts') \/ i \in 1 .. Len(drafts)
      BY <1>1, <2>1 DEF ArticleShape
    <2>3. QED
      BY <1>2, <2>1, <2>2 DEF AllSeen
  <1>5. PreviousSeen(article'.row) /\ article'.logged = article.logged
    BY <1>1, <1>2, SavedRow DEF AllSeen
  <1>6. \A v \in Window : PreviousSeen(form'[v].corrections)
    BY <1>1, <1>2, SavedRow DEF AllSeen
  <1>7. QED
    BY <1>4, <1>5, <1>6 DEF AllSeen, PreviousSeen, SavesIn

LEMMA PublicationsAreSeen ==
  ASSUME ArticleInv, AllSeen, PublishArticle \/ ScheduledGoesLive
  PROVE  AllSeen'
  <1>1. /\ article'.row = Freeze(drafts[Latest].corrections)
        /\ article'.logged \in {article.logged, Latest}
        /\ shown' = shown \cup {Latest}
        /\ UNCHANGED <<drafts, form>>
    <2>1. ScheduledGoesLive => article.scheduled = Latest
      BY DEF ScheduledGoesLive, ArticleInv, LatestIsNext
    <2>2. PublishArticle => article'.row = Freeze(drafts[Latest].corrections) /\ article'.logged = Latest
      BY DEF PublishArticle, PublicRow, ArticleInv, ArticleShape
    <2>3. ScheduledGoesLive => article'.row = Freeze(drafts[Latest].corrections) /\ article'.logged = article.logged
      BY <2>1 DEF ScheduledGoesLive, PublicRow, ArticleInv, ArticleShape
    <2>4. QED
      BY <2>1, <2>2, <2>3 DEF PublishArticle, ScheduledGoesLive, Seen
  <1>2. PreviousSeen(Freeze(drafts[Latest].corrections))
    BY LatestIsSeen, FreezingKeepsPrevious DEF ArticleInv
  <1>3. QED
    BY <1>1, <1>2 DEF AllSeen, PreviousSeen

LEMMA OthersAreSeen ==
  ASSUME ArticleInv, AllSeen,
         \/ \E w \in Window : OpenForm(w) \/ CloseForm(w)
         \/ ScheduleArticle
         \/ UnscheduleArticle
         \/ UnpublishArticle
         \/ UNCHANGED articleVars
  PROVE  AllSeen'
  <1>1. UNCHANGED <<drafts, shown>>
    BY DEF OpenForm, CloseForm, ScheduleArticle, UnscheduleArticle, UnpublishArticle, articleVars
  <1>2. PreviousSeen(article'.row) /\ article'.logged = article.logged
    <2>1. PreviousSeen(Freeze(drafts[Latest].corrections))
      BY LatestIsSeen, FreezingKeepsPrevious DEF ArticleInv
    <2>2. article'.row \in {article.row, Freeze(drafts[Latest].corrections)} /\ article'.logged = article.logged
      <3>1. CASE UNCHANGED article
        BY <3>1
      <3>2. CASE ScheduleArticle \/ UnscheduleArticle \/ UnpublishArticle
        BY <3>2 DEF ScheduleArticle, UnscheduleArticle, UnpublishArticle, ArticleInv, ArticleShape
      <3>3. QED
        BY <3>1, <3>2 DEF OpenForm, CloseForm, articleVars
    <2>3. QED
      BY <2>1, <2>2 DEF AllSeen
  <1>3. \A v \in Window : PreviousSeen(form'[v].corrections)
    <2>1. ASSUME NEW w \in Window, OpenForm(w) \/ CloseForm(w), NEW v \in Window
          PROVE  form'[v].corrections \in {form[v].corrections, Instance, {}}
      <3>1. DOMAIN form = Window
        BY DEF ArticleInv, ArticleShape
      <3>2. CASE OpenForm(w)
        <4>1. form'[v] = IF v = w THEN [open |-> TRUE, corrections |-> Instance] ELSE form[v]
          BY <3>1, <3>2 DEF OpenForm
        <4>2. QED
          BY <4>1
      <3>3. CASE CloseForm(w)
        <4>1. form'[v] = IF v = w THEN [open |-> FALSE, corrections |-> {}] ELSE form[v]
          BY <3>1, <3>3 DEF CloseForm, Closed
        <4>2. QED
          BY <4>1
      <3>4. QED
        BY <2>1, <3>2, <3>3
    <2>2. PreviousSeen(Instance) /\ PreviousSeen({})
      BY LatestIsSeen DEF ArticleInv, PreviousSeen
    <2>3. CASE \E w \in Window : OpenForm(w) \/ CloseForm(w)
      BY <2>1, <2>2, <2>3 DEF AllSeen
    <2>4. CASE form' = form
      BY <2>4 DEF AllSeen
    <2>5. QED
      BY <2>3, <2>4 DEF ScheduleArticle, UnscheduleArticle, UnpublishArticle, articleVars
  <1>4. QED
    BY <1>1, <1>2, <1>3 DEF AllSeen, PreviousSeen

LEMMA AllSeenKept ==
  ASSUME ArticleInv, AllSeen, [ArticleNext]_articleVars
  PROVE  AllSeen'
  <1>1. ASSUME NEW w \in Window, NEW lost, NEW adding \in BOOLEAN, NEW dated,
               SaveForm(w, lost, adding, dated)
        PROVE  AllSeen'
    BY <1>1, SubmissionsSave, SavesAreSeen
  <1>2. QED
    BY <1>1, PublicationsAreSeen, OthersAreSeen DEF ArticleNext, FormStep

\* The superseded version that a correction links to is one that readers have
\* seen, whichever forms, publications and schedules cross (cms/core/forms.py).
THEOREM SupersededArePublic == ArticleSpec => []SupersededWasPublic
  <1>1. ArticleInit => AllSeen
    BY DEF ArticleInit, AllSeen, PreviousSeen, Closed
  <1>2. AllSeen => SupersededWasPublic
    BY DEF AllSeen, PreviousSeen, SupersededWasPublic
  <1>3. QED
    BY <1>1, <1>2, ArticleInitially, ArticleKept, AllSeenKept, PTL DEF ArticleSpec
---------------------------------------------------------------------------
(* The types of the corrections                                            *)

\* Numbered corrections: there is a highest number, so there is a next one.
Numbered(cs) ==
  /\ cs \in Corrections
  /\ \E n \in Nat : \A c \in cs : c.version <= n

AllNumbered ==
  /\ Numbered(article.row)
  /\ \A w \in Window : Numbered(form[w].corrections)
  /\ \A i \in 1 .. Len(drafts) : Numbered(drafts[i].corrections)

\* A set of numbers with a bound has a highest number: its least bound.
LEMMA HighestIsThere ==
  ASSUME NEW S \in SUBSET Nat, NEW k \in S, NEW n \in Nat, \A x \in S : x <= n
  PROVE  \E top \in S : \A x \in S : top >= x
  <1> DEFINE Bounds == {m \in Nat : \A x \in S : x <= m}
  <1>1. Bounds # {} /\ Bounds \in SUBSET Nat
    OBVIOUS
  <1>2. PICK m \in Bounds : \A b \in Bounds : m <= b
    <2>1. PICK m \in Bounds : \A b \in Bounds : ~ (<<b, m>> \in OpToRel(<, Nat))
      BY <1>1, NatLessThanWellFounded, WFMin, Zenon
    <2>2. \A b \in Bounds : b < m => <<b, m>> \in OpToRel(<, Nat)
      BY Zenon DEF OpToRel
    <2>3. \A b \in Bounds : ~ (b < m)
      BY <2>1, <2>2, Zenon
    <2>4. QED
      BY <2>3
  <1>3. m \in S
    <2>1. SUFFICES ASSUME m \notin S
                   PROVE  FALSE
      OBVIOUS
    <2>2. \A x \in S : x <= m - 1
      BY <2>1
    <2>3. m - 1 \in Nat
      BY <2>1
    <2>4. QED
      BY <1>2, <2>2, <2>3
  <1>4. QED
    BY <1>2, <1>3

LEMMA NextVersionIsAbove ==
  ASSUME NEW cs, Numbered(cs)
  PROVE  NextVersion(cs) \in Nat \ {0} /\ \A c \in cs : c.version <= NextVersion(cs)
  <1> DEFINE S == Versions(cs) \cup {0}
  <1>1. PICK n \in Nat : \A c \in cs : c.version \in Nat \ {0} /\ c.version <= n
    BY DEF Numbered, Corrections, Correction
  <1>2. S \in SUBSET Nat /\ \A x \in S : x <= n
    BY <1>1 DEF Versions
  <1>3. \E top \in S : \A x \in S : top >= x
    BY <1>2, HighestIsThere
  <1>4. NextVersion(cs) = (CHOOSE x \in S : \A y \in S : x >= y) + 1
    BY DEF NextVersion, Max
  <1>5. PICK top \in S : NextVersion(cs) = top + 1 /\ \A x \in S : top >= x
    BY <1>3, <1>4
  <1>6. \A c \in cs : c.version \in S
    BY DEF Versions
  <1>7. QED
    BY <1>2, <1>5, <1>6

LEMMA NumberedStay ==
  ASSUME NEW cs, Numbered(cs)
  PROVE  Numbered(Freeze(cs)) /\ \A sub \in SUBSET cs : Numbered(sub)
  <1>1. PICK n \in Nat : \A c \in cs : c.version <= n
    BY DEF Numbered
  <1>2. \A f \in Freeze(cs) : f \in Correction
    <2>1. \A c \in cs : c.version \in Nat \ {0} /\ c.previous \in RevisionId
      BY DEF Numbered, Corrections, Correction
    <2>2. \A c \in cs : [version |-> c.version, previous |-> c.previous, frozen |-> TRUE] \in Correction
      BY <2>1 DEF Correction
    <2>3. QED
      BY <2>2 DEF Freeze
  <1>3. \A f \in Freeze(cs) : f.version <= n
    BY <1>1 DEF Freeze
  <1>4. Freeze(cs) \in Corrections /\ \A sub \in SUBSET cs : sub \in Corrections
    BY <1>2 DEF Numbered, Corrections
  <1>5. QED
    BY <1>1, <1>3, <1>4 DEF Numbered

LEMMA AddedIsNumbered ==
  ASSUME NEW cs, Numbered(cs), NEW r \in RevisionId
  PROVE  Numbered(cs \cup {[version |-> NextVersion(cs), previous |-> r, frozen |-> FALSE]})
  <1> DEFINE new == [version |-> NextVersion(cs), previous |-> r, frozen |-> FALSE]
  <1>1. new \in Correction
    BY NextVersionIsAbove DEF Correction
  <1>2. \A c \in cs \cup {new} : c.version <= NextVersion(cs)
    BY NextVersionIsAbove
  <1>3. QED
    BY <1>1, <1>2, NextVersionIsAbove DEF Numbered, Corrections

LEMMA LatestIsNumbered ==
  ASSUME ArticleTypeOK, AllNumbered
  PROVE  /\ Latest \in RevisionId
         /\ Numbered(drafts[Latest].corrections)
         /\ Numbered(Instance)
  <1>1. Latest \in 1 .. Len(drafts) /\ Latest \in RevisionId
    BY DEF ArticleTypeOK, Latest, RevisionId
  <1>2. QED
    BY <1>1 DEF AllNumbered, Instance

LEMMA SavesAreTyped ==
  ASSUME ArticleTypeOK, AllNumbered, NEW w \in Window, NEW lost,
         NEW adding \in BOOLEAN, NEW dated \in BOOLEAN, SaveForm(w, lost, adding, dated)
  PROVE  ArticleTypeOK' /\ AllNumbered'
  <1> DEFINE kept == form[w].corrections \ lost
             new == [version |-> NextVersion(kept), previous |-> Superseded, frozen |-> FALSE]
             saved == IF adding THEN kept \cup {new} ELSE kept
  <1>1. Valid(kept, adding)
    BY DEF SaveForm
  <1>2. adding => Superseded \in RevisionId
    BY <1>1 DEF Valid, Superseded, ArticleTypeOK
  <1>3. Numbered(kept)
    BY NumberedStay DEF AllNumbered
  <1>4. Numbered(saved)
    BY <1>2, <1>3, AddedIsNumbered
  <1>5. saved \in Corrections
    BY <1>4 DEF Numbered
  <1> HIDE DEF saved
  <1>6. /\ Latest < MaxRevision
        /\ drafts' = Append(drafts, [corrections |-> saved, dated |-> dated])
        /\ article' = [article EXCEPT !.unpublished = TRUE,
                                      !.row = IF article.live THEN @ ELSE saved]
        /\ form' = [form EXCEPT ![w].corrections = saved]
        /\ shown' = shown
    BY DEF SaveForm, saved
  <1>7. drafts' \in Seq(Content) /\ Len(drafts') = Len(drafts) + 1 /\ Len(drafts') \in RevisionId
    <2>1. [corrections |-> saved, dated |-> dated] \in Content
      BY <1>5 DEF Content
    <2>2. drafts' \in Seq(Content) /\ Len(drafts') = Len(drafts) + 1
      BY <1>6, <2>1 DEF ArticleTypeOK
    <2>3. QED
      BY <1>6, <2>2, CorrectionsAssumption DEF ArticleTypeOK, Latest, RevisionId
  <1>8. ArticleTypeOK'
    <2>1. article' \in [row : Corrections, live : BOOLEAN, unpublished : BOOLEAN,
                        scheduled : RevisionId \cup {NoRevision},
                        logged : RevisionId \cup {NoRevision}]
      BY <1>5, <1>6 DEF ArticleTypeOK
    <2>2. form' \in [Window -> [open : BOOLEAN, corrections : Corrections]]
      BY <1>5, <1>6 DEF ArticleTypeOK
    <2>3. QED
      BY <1>6, <1>7, <2>1, <2>2 DEF ArticleTypeOK
  <1>9. Numbered(article'.row)
    <2>1. article'.row = IF article.live THEN article.row ELSE saved
      BY <1>6 DEF ArticleTypeOK
    <2>2. QED
      BY <1>4, <2>1 DEF AllNumbered
  <1>10. ASSUME NEW v \in Window
         PROVE  Numbered(form'[v].corrections)
    <2>1. form'[v].corrections = IF v = w THEN saved ELSE form[v].corrections
      BY <1>6 DEF ArticleTypeOK
    <2>2. QED
      BY <1>4, <2>1 DEF AllNumbered
  <1>11. ASSUME NEW i \in 1 .. Len(drafts')
         PROVE  Numbered(drafts'[i].corrections)
    <2>1. CASE i = Len(drafts')
      <3>1. drafts'[i] = [corrections |-> saved, dated |-> dated]
        BY <1>6, <2>1 DEF ArticleTypeOK
      <3>2. QED
        BY <1>4, <3>1
    <2>2. CASE i # Len(drafts')
      <3>1. i \in 1 .. Len(drafts)
        BY <1>7, <2>2 DEF ArticleTypeOK
      <3>2. drafts'[i] = drafts[i]
        BY <1>6, <3>1 DEF ArticleTypeOK
      <3>3. QED
        BY <3>1, <3>2 DEF AllNumbered
    <2>3. QED
      BY <2>1, <2>2
  <1>12. QED
    BY <1>8, <1>9, <1>10, <1>11 DEF AllNumbered

LEMMA OthersAreTyped ==
  ASSUME ArticleInv, ArticleTypeOK, AllNumbered,
         \/ \E w \in Window : OpenForm(w) \/ CloseForm(w)
         \/ PublishArticle
         \/ ScheduleArticle
         \/ UnscheduleArticle
         \/ ScheduledGoesLive
         \/ UnpublishArticle
         \/ UNCHANGED articleVars
  PROVE  ArticleTypeOK' /\ AllNumbered'
  <1>1. ASSUME NEW w \in Window, OpenForm(w) \/ CloseForm(w)
        PROVE  ArticleTypeOK' /\ AllNumbered'
    <2>1. Numbered(Instance) /\ Numbered({})
      BY LatestIsNumbered DEF Numbered, Corrections
    <2>2. PICK open \in BOOLEAN, cs \in {Instance, {}} :
            form' = [form EXCEPT ![w] = [open |-> open, corrections |-> cs]]
      <3>1. CASE OpenForm(w)
        BY <3>1 DEF OpenForm
      <3>2. CASE CloseForm(w)
        BY <3>2 DEF CloseForm, Closed
      <3>3. QED
        BY <1>1, <3>1, <3>2
    <2>3. form' \in [Window -> [open : BOOLEAN, corrections : Corrections]]
      BY <2>1, <2>2 DEF ArticleTypeOK, Numbered
    <2>4. \A v \in Window : form'[v].corrections = IF v = w THEN cs ELSE form[v].corrections
      BY <2>2 DEF ArticleTypeOK
    <2>5. UNCHANGED <<drafts, article, shown>>
      BY <1>1 DEF OpenForm, CloseForm
    <2>6. ArticleTypeOK'
      BY <2>3, <2>5 DEF ArticleTypeOK
    <2>7. QED
      BY <2>1, <2>2, <2>4, <2>5, <2>6 DEF AllNumbered
  <1>2. CASE PublishArticle \/ ScheduledGoesLive \/ ScheduleArticle \/ UnscheduleArticle \/ UnpublishArticle
    <2>1. Numbered(Freeze(drafts[Latest].corrections)) /\ Latest \in RevisionId
      BY LatestIsNumbered, NumberedStay
    <2>2. ScheduledGoesLive => article.scheduled = Latest
      BY DEF ScheduledGoesLive, ArticleInv, LatestIsNext
    <2>3. /\ article' = [row |-> article'.row, live |-> article'.live, unpublished |-> article'.unpublished,
                         scheduled |-> article'.scheduled, logged |-> article'.logged]
          /\ article'.row \in {article.row, Freeze(drafts[Latest].corrections)}
          /\ article'.live \in BOOLEAN /\ article'.unpublished \in BOOLEAN
          /\ article'.scheduled \in RevisionId \cup {NoRevision}
          /\ article'.logged \in RevisionId \cup {NoRevision}
      <3>1. CASE PublishArticle
        BY <2>1, <3>1 DEF PublishArticle, PublicRow, ArticleTypeOK
      <3>2. CASE ScheduledGoesLive
        BY <2>1, <2>2, <3>2 DEF ScheduledGoesLive, PublicRow, ArticleTypeOK
      <3>3. CASE ScheduleArticle
        BY <2>1, <3>3 DEF ScheduleArticle, ArticleTypeOK
      <3>4. CASE UnscheduleArticle
        BY <3>4 DEF UnscheduleArticle, ArticleTypeOK
      <3>5. CASE UnpublishArticle
        BY <3>5 DEF UnpublishArticle, ArticleTypeOK
      <3>6. QED
        BY <1>2, <3>1, <3>2, <3>3, <3>4, <3>5
    <2>4. Numbered(article'.row)
      BY <2>1, <2>3 DEF AllNumbered
    <2>5. UNCHANGED <<drafts, form>> /\ shown' \subseteq RevisionId
      BY <1>2, <2>1, <2>2
      DEF PublishArticle, ScheduledGoesLive, ScheduleArticle, UnscheduleArticle, UnpublishArticle, Seen,
          ArticleTypeOK
    <2>6. ArticleTypeOK'
      BY <2>3, <2>4, <2>5 DEF ArticleTypeOK, Numbered
    <2>7. QED
      BY <2>3, <2>4, <2>5, <2>6 DEF AllNumbered
  <1>3. CASE UNCHANGED articleVars
    BY <1>3 DEF articleVars, ArticleTypeOK, AllNumbered
  <1>4. QED
    BY <1>1, <1>2, <1>3

\* Forms, revisions and the row of the article have the shapes the model declares:
\* a correction that is added always has a next number to take and a revision to
\* supersede, since a page never published is refused one (clean_corrections).
THEOREM ArticleTypes == ArticleSpec => []ArticleTypeOK
  <1> DEFINE Typed == ArticleInv /\ ArticleTypeOK /\ AllNumbered
  <1>1. ArticleInit => Typed
    <2>1. ASSUME ArticleInit
          PROVE  ArticleTypeOK /\ AllNumbered
      <3>1. drafts \in Seq(Content) /\ Len(drafts) = 1 /\ drafts[1].corrections = {}
        <4>1. [corrections |-> {}, dated |-> FALSE] \in Content
          BY DEF Content, Corrections
        <4>2. QED
          BY <2>1, <4>1 DEF ArticleInit
      <3>2. 1 \in RevisionId
        BY CorrectionsAssumption DEF RevisionId
      <3>3. Numbered({})
        BY DEF Numbered, Corrections
      <3>4. ArticleTypeOK
        BY <2>1, <3>1, <3>2 DEF ArticleInit, ArticleTypeOK, Closed, Corrections
      <3>5. \A i \in 1 .. Len(drafts) : i = 1
        BY <3>1
      <3>6. QED
        BY <2>1, <3>1, <3>3, <3>4, <3>5 DEF ArticleInit, AllNumbered, Closed
    <2>2. QED
      BY <2>1, ArticleInitially
  <1>2. Typed /\ [ArticleNext]_articleVars => Typed'
    <2>1. SUFFICES ASSUME Typed, [ArticleNext]_articleVars
                   PROVE  Typed'
      OBVIOUS
    <2>2. ArticleInv'
      BY <2>1, ArticleKept
    <2>3. ArticleTypeOK' /\ AllNumbered'
      BY <2>1, SavesAreTyped, OthersAreTyped DEF ArticleNext, FormStep
    <2>4. QED
      BY <2>2, <2>3
  <1>3. Typed => ArticleTypeOK
    OBVIOUS
  <1>4. QED
    BY <1>1, <1>2, <1>3, PTL DEF ArticleSpec
=============================================================================
