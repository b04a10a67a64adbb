---------------------------- MODULE BundleAPISync ----------------------------
(***************************************************************************)
(* A bundle with datasets has a counterpart in the Bundle API. Saving the  *)
(* bundle's form brings the counterpart into line, call by call, inside    *)
(* the transaction that saves the row: a call that fails rolls the row     *)
(* back, and leaves the counterpart as the calls before it made it. A call *)
(* may take effect and still fail, the process may die between two, and    *)
(* others may change the counterpart. The ETag tells whether anybody has.  *)
(* The mail that a bundle is ready for review waits for the commit of the  *)
(* same transaction, and is sent after it: the send may fail, or the       *)
(* process may die first. One form is saved at a time.                     *)
(***************************************************************************)
EXTENDS Naturals, FiniteSets

CONSTANTS
  Dataset,      \* datasets
  PreviewTeam,  \* the preview teams of the bundle
  RemoteId,     \* ids the Bundle API may give
  NoId,         \* no counterpart
  Title,        \* what else is kept in line: title, preview teams, schedule
  MaxSaves,     \* bound: requests and changes made by others
  Outsiders     \* others change the counterpart, too

ASSUME SyncAssumption ==
  /\ NoId \notin RemoteId
  /\ MaxSaves \in Nat
  /\ Outsiders \in BOOLEAN

VARIABLES
  saved,     \* the committed row
  draft,     \* the row as the transaction sees it
  remote,    \* the Bundle API's bundles
  sync,      \* where the request is and what it has read
  saves,     \* requests and outside changes so far
  outbox,    \* the review mails the commit has released, by team, not sent yet
  mailed,    \* review mails the mail server has taken, by team
  lost,      \* history: mails whose send failed, or was never reached
  succeeded, \* history: the last request succeeded
  missed,    \* history: there was a change of the counterpart no sync can notice
  unsure     \* history: ids whose creation or deletion was not heard of

syncVars == <<saved, draft, remote, sync, saves, outbox, mailed, lost,
              succeeded, missed, unsure>>

---------------------------------------------------------------------------
(* Rows and counterparts                                                   *)

SyncStatus == {"DRAFT", "IN_REVIEW", "APPROVED", "PUBLISHED"}

\* linked: datasets with a content id; fresh: the ETag is the counterpart's;
\* noted: teams with preview_notification_sent.
RowOfBundle ==
  [status : SyncStatus \cup {"NEW", "DELETED"}, title : Title, datasets : SUBSET Dataset,
   linked : SUBSET Dataset, id : RemoteId \cup {NoId}, fresh : BOOLEAN,
   noted : SUBSET PreviewTeam]

Counterpart == [state : SyncStatus, title : Title, contents : SUBSET Dataset]
Unborn == [state |-> "unborn"]
Gone   == [state |-> "gone"]
Born(i) == i # NoId /\ remote[i] \notin {Unborn, Gone}

\* seen: the cached answer of get_bundle; adding, removing: what is to be done.
SyncSteps == {"idle", "create", "get", "state", "contents", "change",
              "metadata", "drop", "cleanup", "commit", "delete"}
FormRequest == [step : SyncSteps, created : BOOLEAN,
            seen : Counterpart \cup {Unborn}, adding : SUBSET Dataset,
            removing : SUBSET Dataset, telling : SUBSET PreviewTeam]
NoRequest == [step |-> "idle", created |-> FALSE, seen |-> Unborn,
              adding |-> {}, removing |-> {}, telling |-> {}]

FormTypeOK ==
  /\ saved \in RowOfBundle
  /\ draft \in RowOfBundle
  /\ remote \in [RemoteId -> Counterpart \cup {Unborn, Gone}]
  /\ sync \in FormRequest
  /\ saves \in 0 .. MaxSaves
  /\ outbox \subseteq PreviewTeam
  /\ succeeded \in BOOLEAN
  /\ missed \in BOOLEAN
  /\ unsure \subseteq RemoteId

SyncTypeOK ==
  /\ FormTypeOK
  /\ mailed \in [PreviewTeam -> Nat]
  /\ lost \subseteq PreviewTeam

---------------------------------------------------------------------------
(* The end of a request                                                    *)

\* Mutant: the mail goes out as the row is saved, whatever becomes of it.
Released_AtOnce(committed) == sync.telling

\* on_commit: the callbacks are run after a commit, and dropped otherwise.
Released(committed) == IF committed THEN sync.telling ELSE {}

Finish(committed) ==
  /\ sync' = NoRequest
  /\ outbox' = outbox \cup Released(committed)

\* Mutant: what was created stays.
AfterFailure_Stays == "rollback"

\* A step after the creation of the counterpart failed: it is deleted again.
AfterFailure == IF sync.created THEN "cleanup" ELSE "rollback"

\* The transaction is rolled back to the row, after the cleanup if there is one.
Failed(row) ==
  /\ succeeded' = FALSE
  /\ IF AfterFailure = "cleanup"
     THEN sync' = [sync EXCEPT !.step = "cleanup"] /\ UNCHANGED <<draft, outbox>>
     ELSE Finish(FALSE) /\ draft' = row

\* A call that makes the counterpart c: it succeeds and gives the new ETag, or
\* takes effect and is not heard of, or fails; always so if there is none.
Change(c, row, next) ==
  \/ /\ Born(draft.id)
     /\ remote' = [remote EXCEPT ![draft.id] = c]
     /\ saved' = [saved EXCEPT !.fresh = FALSE]
     /\ draft' = [row EXCEPT !.fresh = TRUE]
     /\ sync' = next
     /\ UNCHANGED <<outbox, succeeded>>
  \/ /\ Born(draft.id)
     /\ remote' = [remote EXCEPT ![draft.id] = c]
     /\ saved' = [saved EXCEPT !.fresh = FALSE]
     /\ Failed([saved EXCEPT !.fresh = FALSE])
  \/ Failed(saved) /\ UNCHANGED <<remote, saved>>

Refused == Failed(saved) /\ UNCHANGED <<remote, saved>>

---------------------------------------------------------------------------
(* The form                                                                *)

\* The statuses the edit view offers.
StatusesFrom(s) ==
  CASE s = "NEW"       -> {"DRAFT"}
    [] s = "DRAFT"     -> {"DRAFT", "IN_REVIEW"}
    [] s = "IN_REVIEW" -> {"IN_REVIEW", "DRAFT", "APPROVED"}
    [] s = "APPROVED"  -> {"DRAFT", "IN_REVIEW", "PUBLISHED"}
    [] OTHER           -> {}

\* Only a draft or a bundle in review is edited, and not while it is approved.
MayEdit(s) == {saved.status, s} \subseteq {"NEW", "DRAFT", "IN_REVIEW"}

\* super().save: the row and its signals; then sync.
Save(s, title, datasets) ==
  LET told == IF s = "IN_REVIEW" THEN PreviewTeam \ saved.noted ELSE {}
      row == [saved EXCEPT !.status = s, !.title = title,
                           !.datasets = datasets, !.linked = @ \cap datasets,
                           !.noted = @ \cup told] IN
  /\ sync.step = "idle"
  /\ saves < MaxSaves
  /\ saves' = saves + 1
  /\ s \in StatusesFrom(saved.status)
  /\ ~MayEdit(s) => title = saved.title /\ datasets = saved.datasets
  /\ draft' = row
  /\ sync' = [NoRequest EXCEPT !.telling = told,
                !.step = IF row.id # NoId THEN "get"
                         ELSE IF datasets # {} THEN "create" ELSE "commit"]
  /\ UNCHANGED <<saved, remote, outbox, succeeded, missed, unsure>>

\* Only metadata as a DRAFT: the status follows with the metadata.
Create(i) ==
  /\ sync.step = "create"
  /\ remote[i] = Unborn
  /\ remote' = [remote EXCEPT ![i] =
                  [state |-> "DRAFT", title |-> draft.title, contents |-> {}]]
  /\ \/ /\ draft' = [draft EXCEPT !.id = i, !.fresh = TRUE]
        /\ sync' = [sync EXCEPT !.step = "get", !.created = TRUE]
        /\ UNCHANGED <<outbox, succeeded, unsure>>
     \/ /\ Failed(saved)      \* the answer was lost
        /\ unsure' = unsure \cup {i}
  /\ UNCHANGED <<saved, saves, missed>>

CreateFails ==
  /\ sync.step = "create"
  /\ Refused
  /\ UNCHANGED <<saves, missed, unsure>>

---------------------------------------------------------------------------
(* BundleAPISyncService.sync                                               *)

\* A removed dataset, or one with no content id.
Drifted ==
  saved.datasets \ draft.datasets # {} \/ draft.datasets \ draft.linked # {}

\* Mutant: a stale ETag does not force a reconciliation.
Reconciles_DriftOnly(stale) == Drifted

Reconciles(stale) == stale \/ Drifted

\* Mutant: a bundle that loses its datasets in review keeps its counterpart.
Emptied_DraftOnly == draft.datasets = {} /\ draft.status = "DRAFT"

Emptied == draft.datasets = {}

\* Of such a bundle only the state is sent.
Locked == draft.status \in {"APPROVED", "PUBLISHED"}

\* get_bundle, and the ETag if it is stale: who takes up a newer ETag and
\* compares nothing will not look at what has changed again.
Get ==
  /\ sync.step = "get"
  /\ Born(draft.id)
  /\ draft' = [draft EXCEPT !.fresh = TRUE]
  /\ sync' = [sync EXCEPT
       !.seen = remote[draft.id],
       !.step =
         IF Locked
         THEN IF draft.status = remote[draft.id].state THEN "commit" ELSE "state"
         ELSE IF Emptied THEN "drop"
         ELSE IF Reconciles(~draft.fresh) THEN "contents" ELSE "metadata"]
  /\ missed' = (missed \/ (Locked /\ ~draft.fresh))
  /\ UNCHANGED <<saved, remote, saves, outbox, succeeded, unsure>>

\* It fails, always so when there is no such bundle.
GetFails ==
  /\ sync.step \in {"get", "contents"}
  /\ Refused
  /\ UNCHANGED <<saves, missed, unsure>>

\* An If-Match that is out of date is refused.
Matching(c, row, next) ==
  IF draft.fresh THEN Change(c, row, next) ELSE Refused

PutState ==
  /\ sync.step = "state"
  /\ Matching([remote[draft.id] EXCEPT !.state = draft.status], draft,
              [sync EXCEPT !.step = "commit"])
  /\ UNCHANGED <<saves, missed, unsure>>

\* get_bundle_contents: what to add, to remove and to link.
GetContents ==
  /\ sync.step = "contents"
  /\ Born(draft.id)
  /\ LET there == remote[draft.id].contents IN
       /\ draft' = [draft EXCEPT !.linked = @ \cup (draft.datasets \cap there)]
       /\ sync' = [sync EXCEPT !.adding = draft.datasets \ there,
                               !.removing = there \ draft.datasets, !.step = "change"]
  /\ UNCHANGED <<saved, remote, saves, outbox, succeeded, missed, unsure>>

\* No If-Match: whatever else has happened to the counterpart.
AddContent(d) ==
  /\ sync.step = "change"
  /\ d \in sync.adding
  /\ Change([remote[draft.id] EXCEPT !.contents = @ \cup {d}],
            [draft EXCEPT !.linked = @ \cup {d}], [sync EXCEPT !.adding = @ \ {d}])
  /\ UNCHANGED <<saves, missed, unsure>>

RemoveContent(d) ==
  /\ sync.step = "change"
  /\ sync.adding = {}
  /\ d \in sync.removing
  /\ Change([remote[draft.id] EXCEPT !.contents = @ \ {d}],
            draft, [sync EXCEPT !.removing = @ \ {d}])
  /\ UNCHANGED <<saves, missed, unsure>>

ContentsDone ==
  /\ sync.step = "change"
  /\ sync.adding = {} /\ sync.removing = {}
  /\ sync' = [sync EXCEPT !.step = "metadata"]
  /\ UNCHANGED <<saved, draft, remote, saves, outbox, succeeded, missed, unsure>>

\* Compared with what get_bundle said before the contents were changed.
PutMetadata ==
  /\ sync.step = "metadata"
  /\ IF sync.seen.state = draft.status /\ sync.seen.title = draft.title
     THEN /\ sync' = [sync EXCEPT !.step = "commit"]
          /\ UNCHANGED <<saved, draft, remote, outbox, succeeded>>
     ELSE Matching([remote[draft.id] EXCEPT !.state = draft.status, !.title = draft.title],
                   draft, [sync EXCEPT !.step = "commit"])
  /\ UNCHANGED <<saves, missed, unsure>>

---------------------------------------------------------------------------
(* _delete_api_bundle                                                      *)

\* A draft left with no datasets; "not found" is as good as deleted.
Drop ==
  /\ sync.step = "drop"
  /\ remote' = [remote EXCEPT ![draft.id] = Gone]
  /\ \/ /\ draft' = [draft EXCEPT !.id = NoId, !.fresh = FALSE]
        /\ sync' = [sync EXCEPT !.step = "commit"]
        /\ UNCHANGED <<outbox, succeeded, unsure>>
     \/ /\ Failed(saved)
        /\ unsure' = unsure \cup {draft.id}
  /\ UNCHANGED <<saved, saves, missed>>

\* Best effort: the outcome is not looked at. The row is rolled back in any case.
Cleanup ==
  /\ sync.step = "cleanup"
  /\ \/ remote' = [remote EXCEPT ![draft.id] = Gone] /\ UNCHANGED unsure
     \/ unsure' = unsure \cup {draft.id} /\ UNCHANGED remote
  /\ Finish(FALSE)
  /\ draft' = saved
  /\ UNCHANGED <<saved, saves, succeeded, missed>>

\* BundleDeleteView.delete_action: the row first, in the same transaction.
BeginDelete ==
  /\ sync.step = "idle"
  /\ saved.status \in {"DRAFT", "IN_REVIEW"}
  /\ draft' = [saved EXCEPT !.status = "DELETED"]
  /\ sync' = [NoRequest EXCEPT !.step = IF saved.id = NoId THEN "commit" ELSE "delete"]
  /\ UNCHANGED <<saved, remote, saves, outbox, succeeded, missed, unsure>>

DeleteRemote ==
  /\ sync.step = "delete"
  /\ remote' = [remote EXCEPT ![draft.id] = Gone]
  /\ \/ /\ draft' = [draft EXCEPT !.id = NoId]
        /\ sync' = [sync EXCEPT !.step = "commit"]
        /\ UNCHANGED <<outbox, succeeded, unsure>>
     \/ /\ Failed(saved)
        /\ unsure' = unsure \cup {draft.id}
  /\ UNCHANGED <<saved, saves, missed>>

RemoteDeleteFails ==
  /\ sync.step \in {"drop", "delete"}
  /\ Refused
  /\ UNCHANGED <<saves, missed, unsure>>

---------------------------------------------------------------------------

Commit ==
  /\ sync.step = "commit"
  /\ saved' = draft
  /\ Finish(TRUE)
  /\ succeeded' = TRUE
  /\ UNCHANGED <<draft, remote, saves, missed, unsure>>

\* The process dies, or another part of the request fails, and the database
\* rolls back whatever the Bundle API has been told.
Abort ==
  /\ sync.step # "idle"
  /\ Finish(FALSE)
  /\ draft' = saved
  /\ succeeded' = FALSE
  /\ unsure' = unsure \cup ({saved.id, draft.id} \ {NoId})
  /\ UNCHANGED <<saved, remote, saves, missed>>

\* Somebody else changes the counterpart.
Meddle(c) ==
  /\ Outsiders
  /\ saves < MaxSaves
  /\ saves' = saves + 1
  /\ Born(draft.id)
  /\ c # remote[draft.id]
  /\ remote' = [remote EXCEPT ![draft.id] = c]
  /\ saved' = [saved EXCEPT !.fresh = FALSE]
  /\ draft' = [draft EXCEPT !.fresh = FALSE]
  /\ succeeded' = FALSE
  /\ missed' = (missed \/ sync.step # "idle")
  /\ UNCHANGED <<sync, outbox, unsure>>

---------------------------------------------------------------------------
(* After the commit                                                        *)

\* _send_bundle_email, as the callback of the transaction.
SendMail(t) ==
  /\ t \in outbox
  /\ outbox' = outbox \ {t}
  /\ mailed' = [mailed EXCEPT ![t] = @ + 1]
  /\ UNCHANGED lost

\* The send fails, which is only logged, or the process dies before it; the
\* server may have taken the mail and the answer be lost.
MailFails(t) ==
  /\ t \in outbox
  /\ outbox' = outbox \ {t}
  /\ lost' = lost \cup {t}
  /\ mailed' \in {mailed, [mailed EXCEPT ![t] = @ + 1]}

---------------------------------------------------------------------------

SyncInit ==
  /\ saved \in {[status |-> "NEW", title |-> t, datasets |-> {},
                 linked |-> {}, id |-> NoId, fresh |-> FALSE, noted |-> {}] : t \in Title}
  /\ draft = saved
  /\ remote = [i \in RemoteId |-> Unborn]
  /\ sync = NoRequest
  /\ saves = 0
  /\ outbox = {}
  /\ mailed = [t \in PreviewTeam |-> 0]
  /\ lost = {}
  /\ succeeded = TRUE
  /\ missed = FALSE
  /\ unsure = {}

FormNext ==
  \/ \E s \in SyncStatus, title \in Title, datasets \in SUBSET Dataset : Save(s, title, datasets)
  \/ \E i \in RemoteId : Create(i)
  \/ \E d \in Dataset : AddContent(d) \/ RemoveContent(d)
  \/ CreateFails \/ Get \/ GetFails \/ PutState \/ GetContents \/ ContentsDone \/ PutMetadata
  \/ Drop \/ Cleanup \/ BeginDelete \/ DeleteRemote \/ RemoteDeleteFails \/ Commit \/ Abort
  \/ \E c \in Counterpart : Meddle(c)

MailNext == \E t \in PreviewTeam : SendMail(t) \/ MailFails(t)

\* The mails of one request may still be sent while another is handled.
SyncNext ==
  \/ FormNext /\ UNCHANGED <<mailed, lost>>
  \/ MailNext /\ UNCHANGED <<saved, draft, remote, sync, saves, succeeded, missed, unsure>>

SyncSpec == SyncInit /\ [][SyncNext]_syncVars

---------------------------------------------------------------------------
(* Properties                                                              *)

\* What the Bundle API is to hold for the committed row.
Image == [state |-> saved.status, title |-> saved.title, contents |-> saved.datasets]

\* After a request that succeeded the counterpart is what the row says, however
\* many earlier ones failed half-way: the ETag of each change that was not heard
\* of forces a reconciliation - unless others change the counterpart during a
\* sync, or one that sends the state only takes up the new ETag first
\* (BundleAPISyncService.sync, _refresh_local_etag_if_stale, _sync_contents).
InLockstep ==
  succeeded /\ ~missed /\ sync.step = "idle" /\ saved.id # NoId
  => /\ remote[saved.id] = Image
     /\ saved.linked = saved.datasets

\* "If a bundle needs reconciliation, its status can still be moved back from
\* 'approved' to allow normal reconciliation on save", says the form's
\* _validate_bundled_datasets_status: once a bundle that may be edited has been
\* saved, where nobody else changes the counterpart, the two agree.
ReconciledWhenMovedBack ==
  succeeded /\ sync.step = "idle" /\ saved.id # NoId /\ saved.status \in {"DRAFT", "IN_REVIEW"}
  => remote[saved.id] = Image

\* A row with datasets has a counterpart, one without has none, whichever request
\* failed where (BundleAPISyncService.sync, in the transaction of the row).
CounterpartWhenNeeded ==
  saved.status \in SyncStatus => (saved.id = NoId <=> saved.datasets = {})

\* The only bundles at the Bundle API are those of rows, and the row's is there:
\* what fails after a creation is cleaned up, and a deletion that fails keeps the
\* row (unless the API's own answer was lost or the process died).
NoOrphans ==
  sync.step = "idle" =>
    \A i \in RemoteId \ unsure : Born(i) <=> i = saved.id

\* The review mail of a preview team leaves only for a row that is committed, and
\* once; where the row notes a mail that was not sent, it is still due or its send
\* failed after the commit - a save that is rolled back neither mails nor notes
\* (send_bundle_in_review_email, _send_bundle_email_on_commit, _send_bundle_email).
MailAccounted ==
  \A t \in PreviewTeam :
    /\ mailed[t] <= 1
    /\ t \in saved.noted <=> mailed[t] = 1 \/ t \in outbox \cup lost
=============================================================================
