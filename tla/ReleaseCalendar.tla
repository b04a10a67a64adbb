---------------------------- MODULE ReleaseCalendar ----------------------------
(***************************************************************************)
(* A release calendar page: what is announced, the draft that may replace  *)
(* it, and the bundle that will publish the release. The form compares a   *)
(* draft with what is announced when it is saved; the draft goes out       *)
(* later, after a review, unless the bundle announces the release first.   *)
(***************************************************************************)
EXTENDS Naturals

CONSTANTS
  Editor,       \* people with a form of the page open
  ReleaseDate,  \* dates of the release
  MaxEntries    \* bound: entries of the log of changes to the date

ASSUME CalendarAssumption == ReleaseDate # {} /\ MaxEntries \in Nat

VARIABLES
  announced,   \* the row of the page
  proposed,    \* its latest revision
  phase,       \* where the page is: its workflow and what it was last saved as
  sheet,       \* what each open form was loaded with
  bundling     \* the bundle the page is chosen for or linked to

calendarVars == <<announced, proposed, phase, sheet, bundling>>

---------------------------------------------------------------------------

Status == {"PROVISIONAL", "CONFIRMED", "CANCELLED", "PUBLISHED"}
NON_PROVISIONAL_STATUSES == Status \ {"PROVISIONAL"}
LOCKED_STATUS_STATUSES == {"CANCELLED", "PUBLISHED"}
DatedStatus == {"CONFIRMED", "PUBLISHED"}

\* Entries of the log are frozen, or loose as long as they are not published.
Release == [status : Status, date : ReleaseDate, frozen : Nat, loose : Nat]
Entries(r) == r.frozen + r.loose

NoSheet == [open |-> FALSE]

CalendarTypeOK ==
  /\ announced \in Release
  /\ proposed \in Release
  /\ phase \in [live : BOOLEAN, unpublished : BOOLEAN, ready : BOOLEAN]
  /\ sheet \in [Editor -> {NoSheet} \cup [open : {TRUE}, release : Release]]
  /\ bundling \in {"no", "chosen", "linked", "approved"}

\* What a request edits: the row, unless there are unpublished changes.
Edited == IF phase.unpublished THEN proposed ELSE announced

InActiveBundle == bundling \in {"linked", "approved"}

\* Ready to be published, by its workflow or by its bundle.
CalendarLocked == phase.ready \/ bundling = "approved"

---------------------------------------------------------------------------
(* The form                                                                *)

OpenSheet(e) ==
  /\ ~CalendarLocked
  /\ sheet' = [sheet EXCEPT ![e] = [open |-> TRUE, release |-> Edited]]
  /\ UNCHANGED <<announced, proposed, phase, bundling>>

StatusDisabled ==
  \/ Edited.status = "PUBLISHED"
  \/ phase.live /\ announced.status \in LOCKED_STATUS_STATUSES

\* Mutant: all choices but PUBLISHED stay.
StatusChoices_Any == Status \ {"PUBLISHED"}

StatusChoices ==
  IF StatusDisabled THEN {Edited.status}
  ELSE (IF Edited.status = "PROVISIONAL" THEN Status ELSE NON_PROVISIONAL_STATUSES)
         \ {"PUBLISHED"}

DateChoices == IF Edited.status = "PUBLISHED" THEN {Edited.date} ELSE ReleaseDate

\* Mutant: the draft is compared with the draft before it.
ChangesLogged_WithDraft(r) ==
  LET before == IF phase.live THEN Entries(Edited) ELSE 0
      moved == phase.live /\ Edited.date # r.date
  IN /\ r.status \in DatedStatus /\ phase.live /\ Edited.status \in DatedStatus
          => (moved <=> Entries(r) > before)
     /\ Entries(r) <= before + 1

\* A date that was announced is only moved with an entry, and entries are only
\* made for that, one at a time.
ChangesLogged(r) ==
  LET before == IF phase.live THEN Entries(announced) ELSE 0
      moved == phase.live /\ announced.date # r.date
  IN /\ r.status \in DatedStatus /\ phase.live /\ announced.status \in DatedStatus
          => (moved <=> Entries(r) > before)
     /\ Entries(r) <= before + 1

FrozenChangesKept(r) == r.frozen = Edited.frozen

\* A release is not cancelled while a bundle counts on it.
MayBeCancelled(r) == r.status = "CANCELLED" => ~InActiveBundle

SaveSheet(e, r) ==
  /\ sheet[e].open
  /\ ~CalendarLocked
  /\ r.frozen = sheet[e].release.frozen
  /\ r.status \in StatusChoices
  /\ r.date \in DateChoices
  /\ MayBeCancelled(r)
  /\ ChangesLogged(r)
  /\ FrozenChangesKept(r)
  /\ Entries(r) <= MaxEntries
  /\ proposed' = r
  /\ announced' = IF phase.live THEN announced ELSE r
  /\ phase' = [phase EXCEPT !.unpublished = TRUE]
  /\ sheet' = [sheet EXCEPT ![e].release = r]
  /\ UNCHANGED bundling

---------------------------------------------------------------------------
(* The workflow                                                            *)

Reviewed ==
  /\ ~CalendarLocked
  /\ phase' = [phase EXCEPT !.ready = TRUE]
  /\ UNCHANGED <<announced, proposed, sheet, bundling>>

UnlockCalendar ==
  /\ phase.ready
  /\ bundling # "approved"
  /\ phase' = [phase EXCEPT !.ready = FALSE]
  /\ UNCHANGED <<announced, proposed, sheet, bundling>>

FrozenChanges(r) ==
  [status |-> r.status, date |-> r.date, frozen |-> Entries(r), loose |-> 0]

\* The latest revision becomes the row; publishing ends the workflow.
PublishCalendar(r) ==
  /\ announced' = FrozenChanges(r)
  /\ phase' = [live |-> TRUE, unpublished |-> FALSE, ready |-> FALSE]

PublishByHand ==
  /\ phase.ready
  /\ ~InActiveBundle
  /\ PublishCalendar(proposed)
  /\ UNCHANGED <<proposed, sheet, bundling>>

\* By the date the page expires; the admin does not offer it.
UnpublishCalendar ==
  /\ phase.live
  /\ ~CalendarLocked
  /\ phase' = [phase EXCEPT !.live = FALSE, !.unpublished = TRUE]
  /\ UNCHANGED <<announced, proposed, sheet, bundling>>

---------------------------------------------------------------------------
(* The bundle                                                              *)

\* The chooser of the bundle's form leaves out what is cancelled or published
\* and what is in an active bundle; the form is saved later.
ChooseForBundle ==
  /\ bundling = "no"
  /\ announced.status \notin LOCKED_STATUS_STATUSES
  /\ bundling' = "chosen"
  /\ UNCHANGED <<announced, proposed, phase, sheet>>

LinkToBundle ==
  /\ bundling = "chosen"
  /\ bundling' = "linked"
  /\ UNCHANGED <<announced, proposed, phase, sheet>>

ApproveBundle ==
  /\ bundling = "linked"
  /\ (phase.live /\ ~phase.unpublished) \/ phase.ready
  /\ bundling' = "approved"
  /\ UNCHANGED <<announced, proposed, phase, sheet>>

ReturnBundle ==
  /\ bundling = "approved"
  /\ bundling' = "linked"
  /\ UNCHANGED <<announced, proposed, phase, sheet>>

Unlink ==
  /\ bundling \in {"chosen", "linked"}
  /\ bundling' = "no"
  /\ UNCHANGED <<announced, proposed, phase, sheet>>

\* The row, not the latest revision, is saved as a new revision and published.
AsReleased == [announced EXCEPT !.status = "PUBLISHED"]

update_bundle_linked_release_calendar_page ==
  /\ bundling = "approved"
  /\ proposed' = AsReleased
  /\ PublishCalendar(AsReleased)
  /\ bundling' = "no"
  /\ UNCHANGED sheet

---------------------------------------------------------------------------

CalendarInit ==
  /\ announced \in {[status |-> "PROVISIONAL", date |-> d, frozen |-> 0, loose |-> 0] :
                      d \in ReleaseDate}
  /\ proposed = announced
  /\ phase = [live |-> FALSE, unpublished |-> TRUE, ready |-> FALSE]
  /\ sheet = [e \in Editor |-> NoSheet]
  /\ bundling = "no"

EditorStep(e) ==
  \/ OpenSheet(e)
  \/ \E s \in Status, d \in ReleaseDate, l \in 0 .. MaxEntries :
       /\ sheet[e].open
       /\ SaveSheet(e, [status |-> s, date |-> d, frozen |-> sheet[e].release.frozen,
                        loose |-> l])

BundleStep ==
  \/ ChooseForBundle
  \/ LinkToBundle
  \/ ApproveBundle
  \/ ReturnBundle
  \/ Unlink
  \/ update_bundle_linked_release_calendar_page

CalendarNext ==
  \/ \E e \in Editor : EditorStep(e)
  \/ Reviewed
  \/ UnlockCalendar
  \/ PublishByHand
  \/ UnpublishCalendar
  \/ BundleStep

CalendarSpec == CalendarInit /\ [][CalendarNext]_calendarVars

---------------------------------------------------------------------------
(* Properties                                                              *)

\* Readers who were promised a date learn of every change of it: between two
\* announcements that are confirmed or published, the log of changes grows by one
\* entry if the date moved and not at all otherwise, whatever drafts lay in
\* between (_validate_change_logs).
RescheduleIsLogged ==
  [][phase.live /\ announced.status \in DatedStatus /\ announced'.status \in DatedStatus
       => Entries(announced') =
            Entries(announced) + IF announced'.date = announced.date THEN 0 ELSE 1]_calendarVars

\* "Once a release calendar page is confirmed, it cannot go back to provisional",
\* nor does a published release become anything else (release_calendar/forms.py).
StatusMovesOn ==
  [][phase.live
       => /\ announced.status # "PROVISIONAL" => announced'.status # "PROVISIONAL"
          /\ announced.status = "PUBLISHED" => announced'.status = "PUBLISHED"]_calendarVars
=============================================================================
