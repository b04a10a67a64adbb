------------------------------ MODULE PageWorkflow ------------------------------
(***************************************************************************)
(* The workflow "Release review" of a page: a review by somebody else than *)
(* the last editor, then a step in which the page is locked and waits to   *)
(* be published, by hand or by its bundle. A request of the edit view      *)
(* saves the form before it acts on the workflow.                          *)
(***************************************************************************)
EXTENDS Naturals, Sequences

CONSTANTS
  Person,      \* members of the groups that edit, review and publish
  MaxDrafts    \* bound: revisions of the page

Nobody == "nobody"

ASSUME WorkflowAssumption == MaxDrafts \in Nat /\ Nobody \notin Person

VARIABLES
  editors,     \* who saved each revision of the page
  task,        \* the current step of its workflow
  member,      \* the bundle it is in, if that is active
  submitter,   \* who asked for the review
  reviewer     \* history: who approved the review last, nobody if a bundle did

workflowVars == <<editors, task, member, submitter, reviewer>>

---------------------------------------------------------------------------

WorkflowTypeOK ==
  /\ editors \in Seq(Person)
  /\ task \in {"none", "review", "changes", "ready"}
  /\ member \in {"no", "editable", "approved"}
  /\ submitter \in Person \cup {Nobody}
  /\ reviewer \in Person \cup {Nobody}

LastEditor == IF editors = <<>> THEN Nobody ELSE editors[Len(editors)]

in_active_bundle == member # "no"
in_bundle_ready_to_be_published == member = "approved"

\* PageReadyToBePublishedLock: regardless of user, or bundle.
EditingLocked == task = "ready"

Saved(u) == Len(editors) < MaxDrafts /\ editors' = Append(editors, u)

---------------------------------------------------------------------------
(* The edit view                                                           *)

EditDraft(u) ==
  /\ ~EditingLocked
  /\ Saved(u)
  /\ UNCHANGED <<task, member, submitter, reviewer>>

\* Submitting saves a revision; one sent back for changes is resubmitted.
SubmitDraft(u) ==
  /\ task \in {"none", "changes"}
  /\ Saved(u)
  /\ task' = "review"
  /\ submitter' = u
  /\ UNCHANGED <<member, reviewer>>

\* Mutant: the one who may not review is the one who asked for it.
SelfApprover_Submitter(u) == u = submitter

SelfApprover(u) == u = LastEditor

\* Looked at before the form is saved, by the hook and by the task's actions.
MayReview(u) == task = "review" /\ ~SelfApprover(u)

\* The form is saved if it holds changes, then the task acts.
FormSaved(u) == UNCHANGED editors \/ Saved(u)

ApproveDraft(u) ==
  /\ MayReview(u)
  /\ FormSaved(u)
  /\ task' = "ready"
  /\ reviewer' = u
  /\ UNCHANGED <<member, submitter>>

RequestChanges(u) ==
  /\ MayReview(u)
  /\ FormSaved(u)
  /\ task' = "changes"
  /\ UNCHANGED <<member, submitter, reviewer>>

\* In an approved bundle the menu does not offer it; a form that was open before
\* still can.
CancelWorkflow ==
  /\ task # "none"
  /\ task' = "none"
  /\ UNCHANGED <<editors, member, submitter, reviewer>>

\* "Unlock editing": back to the first step that is not this one.
Unlock ==
  /\ task = "ready"
  /\ ~in_bundle_ready_to_be_published
  /\ task' = "review"
  /\ UNCHANGED <<editors, member, submitter, reviewer>>

\* "locked-approve": the form is not saved.
LockedApprove ==
  /\ task = "ready"
  /\ ~in_active_bundle
  /\ task' = "none"
  /\ UNCHANGED <<editors, member, submitter, reviewer>>

---------------------------------------------------------------------------
(* The bundle                                                              *)

\* In and out of a bundle, whose approval asks for a page that is ready.
BundleChanges(from, to) ==
  /\ member = from
  /\ member' = to
  /\ to = "approved" => task = "ready"
  /\ UNCHANGED <<editors, task, submitter, reviewer>>

\* publish_bundle approves the current step, for no user: the last one ends the
\* workflow; a page that has been cancelled and submitted again moves on to it.
\* One sent back for changes cannot be approved.
BundlePublishes ==
  /\ in_bundle_ready_to_be_published
  /\ member' = "no"
  /\ task' = CASE task = "ready"  -> "none"
               [] task = "review" -> "ready"
               [] OTHER           -> task
  /\ reviewer' = IF task = "review" THEN Nobody ELSE reviewer
  /\ UNCHANGED <<editors, submitter>>

---------------------------------------------------------------------------

WorkflowInit ==
  /\ editors = <<>>
  /\ task = "none"
  /\ member = "no"
  /\ submitter = Nobody
  /\ reviewer = Nobody

PersonStep(u) == EditDraft(u) \/ SubmitDraft(u) \/ ApproveDraft(u) \/ RequestChanges(u)

WorkflowNext ==
  \/ \E u \in Person : PersonStep(u)
  \/ CancelWorkflow
  \/ Unlock
  \/ LockedApprove
  \/ \E m \in {<<"no", "editable">>, <<"editable", "no">>, <<"editable", "approved">>,
               <<"approved", "editable">>} : BundleChanges(m[1], m[2])
  \/ BundlePublishes

WorkflowSpec == WorkflowInit /\ [][WorkflowNext]_workflowVars

---------------------------------------------------------------------------
(* Properties                                                              *)

\* Nobody approves what they wrote: of the page that is ready to be published
\* the one who approved it saved at most the last revision, the changes that came
\* with the approval, and somebody else the one before (GroupReviewTask,
\* before_edit_page). A bundle that approves a review does so for no user.
ReadyWasReviewed ==
  task = "ready" =>
    \/ reviewer # LastEditor
    \/ Len(editors) > 1 /\ reviewer # editors[Len(editors) - 1]
=============================================================================
