--------------------------- MODULE ArticleCorrections ---------------------------
(***************************************************************************)
(* The corrections of a statistical article. An editor adds a correction   *)
(* in the page's form, which numbers it and notes which revision it        *)
(* supersedes; publication freezes the corrections of the page's row.      *)
(* Forms stay open in browsers while the page is saved, published,         *)
(* scheduled and unpublished, and are then submitted as they were loaded.  *)
(***************************************************************************)
EXTENDS Naturals, Sequences, FiniteSets

LOCAL INSTANCE FiniteSetsExt

CONSTANTS
  Window,          \* forms that may be open at once
  MaxRevision      \* bound: revisions of the page

ASSUME CorrectionsAssumption == MaxRevision \in Nat \ {0}

VARIABLES
  drafts,      \* the revisions of the page, the latest last
  article,     \* its row, and the last revision logged as published
  form,        \* the corrections in each open form
  shown        \* history: the revisions that have been public

articleVars == <<drafts, article, form, shown>>

---------------------------------------------------------------------------

RevisionId == 1 .. MaxRevision
NoRevision == 0

\* Corrections are known by their version; their text and date are left out.
Correction == [version : Nat \ {0}, previous : RevisionId, frozen : BOOLEAN]
Corrections == SUBSET Correction
Content == [corrections : Corrections, dated : BOOLEAN]
Closed == [open |-> FALSE, corrections |-> {}]

ArticleTypeOK ==
  /\ drafts \in Seq(Content) /\ Len(drafts) \in RevisionId
  /\ article \in [row : Corrections, live : BOOLEAN, unpublished : BOOLEAN,
                  scheduled : RevisionId \cup {NoRevision},
                  logged : RevisionId \cup {NoRevision}]
  /\ form \in [Window -> [open : BOOLEAN, corrections : Corrections]]
  /\ shown \subseteq RevisionId

Latest == Len(drafts)
Versions(corrections) == {c.version : c \in corrections}
FrozenIn(corrections) == {c \in corrections : c.frozen}
Unfrozen(corrections) == corrections \ FrozenIn(corrections)

\* Mutant: publication leaves the corrections as they are.
Freeze_Not(corrections) == corrections

Freeze(corrections) ==
  {[version |-> c.version, previous |-> c.previous, frozen |-> TRUE] : c \in corrections}

\* What a request edits: the row, unless there are unpublished changes.
Instance == IF article.unpublished THEN drafts[Latest].corrections ELSE article.row

\* A page that waits for its time is locked.
PageLocked == article.scheduled # NoRevision

---------------------------------------------------------------------------
(* The form                                                                *)

OpenForm(w) ==
  /\ ~form[w].open
  /\ ~PageLocked
  /\ form' = [form EXCEPT ![w] = [open |-> TRUE, corrections |-> Instance]]
  /\ UNCHANGED <<drafts, article, shown>>

\* Mutant: the frozen corrections are not compared with those of the page.
FrozenAreThere_Unchecked(corrections) == TRUE

\* What clean_corrections refuses: to lose a frozen correction, a correction of
\* a page never published, more than one that is new.
FrozenAreThere(corrections) ==
  Versions(FrozenIn(Instance)) = Versions(FrozenIn(corrections))

Valid(corrections, adding) ==
  /\ FrozenAreThere(corrections)
  /\ corrections # {} \/ adding => article.logged # NoRevision
  /\ Cardinality(Unfrozen(corrections)) + (IF adding THEN 1 ELSE 0) <= 1

NextVersion(corrections) == Max(Versions(corrections) \cup {0}) + 1

\* Mutant: a correction supersedes the latest revision, published or not.
Superseded_Latest == Latest

\* The last revision with a log entry "wagtail.publish".
Superseded == article.logged

\* The check and the save are one request. A form has lost the corrections the editor took away, and may have a new one.
SaveForm(w, lost, adding, dated) ==
  LET kept == form[w].corrections \ lost
      saved == IF adding
                 THEN kept \cup {[version |-> NextVersion(kept), previous |-> Superseded,
                                  frozen |-> FALSE]}
                 ELSE kept
  IN /\ form[w].open
     /\ lost \subseteq Unfrozen(form[w].corrections)
     /\ ~PageLocked
     /\ Valid(kept, adding)
     /\ Latest < MaxRevision
     /\ drafts' = Append(drafts, [corrections |-> saved, dated |-> dated])
     /\ article' = [article EXCEPT !.unpublished = TRUE,
                                   !.row = IF article.live THEN @ ELSE saved]
     /\ form' = [form EXCEPT ![w].corrections = saved]
     /\ UNCHANGED shown

CloseForm(w) ==
  /\ form[w].open
  /\ form' = [form EXCEPT ![w] = Closed]
  /\ UNCHANGED <<drafts, article, shown>>

---------------------------------------------------------------------------
(* Publication                                                             *)

\* The row of the page once a revision is public.
PublicRow(r) ==
  [article EXCEPT !.row = Freeze(drafts[r].corrections), !.live = TRUE,
                  !.unpublished = r # Latest, !.scheduled = NoRevision]

Seen(r) == shown' = shown \cup {r}

\* At the end of the workflow, when its date is not set or has passed.
PublishArticle ==
  /\ ~PageLocked
  /\ article' = [PublicRow(Latest) EXCEPT !.logged = Latest]
  /\ Seen(Latest)
  /\ UNCHANGED <<drafts, form>>

\* At the end of the workflow, when its date is yet to come. The signal of a
\* publication is sent at once unless the page is live.
ScheduleArticle ==
  /\ ~PageLocked
  /\ drafts[Latest].dated
  /\ Latest \notin shown
  /\ article' = [article EXCEPT
                   !.scheduled = Latest, !.unpublished = TRUE,
                   !.row = IF article.live THEN @ ELSE Freeze(drafts[Latest].corrections)]
  /\ UNCHANGED <<drafts, form, shown>>

UnscheduleArticle ==
  /\ PageLocked
  /\ article' = [article EXCEPT !.scheduled = NoRevision]
  /\ UNCHANGED <<drafts, form, shown>>

\* publish_scheduled_without_bundles: logged under another name.
ScheduledGoesLive ==
  /\ PageLocked
  /\ article' = PublicRow(article.scheduled)
  /\ Seen(article.scheduled)
  /\ UNCHANGED <<drafts, form>>

UnpublishArticle ==
  /\ article.live
  /\ article' = [article EXCEPT !.live = FALSE, !.unpublished = TRUE,
                                !.scheduled = NoRevision]
  /\ UNCHANGED <<drafts, form, shown>>

---------------------------------------------------------------------------

ArticleInit ==
  /\ drafts = <<[corrections |-> {}, dated |-> FALSE]>>
  /\ article = [row |-> {}, live |-> FALSE, unpublished |-> TRUE,
                scheduled |-> NoRevision, logged |-> NoRevision]
  /\ form = [w \in Window |-> Closed]
  /\ shown = {}

FormStep(w) ==
  \/ OpenForm(w)
  \/ CloseForm(w)
  \/ \E lost \in SUBSET form[w].corrections, adding, dated \in BOOLEAN :
       SaveForm(w, lost, adding, dated)

ArticleNext ==
  \/ \E w \in Window : FormStep(w)
  \/ PublishArticle
  \/ ScheduleArticle
  \/ UnscheduleArticle
  \/ ScheduledGoesLive
  \/ UnpublishArticle

ArticleSpec == ArticleInit /\ [][ArticleNext]_articleVars

---------------------------------------------------------------------------
(* Properties                                                              *)

\* What readers were told was corrected they can go on reading about: while the
\* page stays public, no publication takes a correction away, whatever old form
\* it came from (on_statistical_article_page_published, clean_corrections).
CorrectionsKept ==
  [][article.live /\ article'.live
       => Versions(article.row) \subseteq Versions(article'.row)]_articleVars

\* The link "View superseded version" of a correction that readers see leads to
\* a revision that readers have seen, never to a draft (previous_version).
SupersededWasPublic ==
  article.live => \A c \in article.row : c.previous \in shown
=============================================================================
