------------------------- MODULE BundleAPISyncProofs -------------------------
(* Proofs about BundleAPISync, for any number of datasets, teams, requests   *)
(* and ids: types, mails, orphans, and that a sync that succeeds leaves the  *)
(* counterpart in lockstep.                                                  *)
EXTENDS BundleAPISync, TLAPS

---------------------------------------------------------------------------
(* Types                                                                   *)

Calling == {"get", "state", "contents", "change", "metadata", "drop", "cleanup", "delete"}
Forming == {"create", "get", "state", "contents", "change", "metadata", "drop"}

\* The row, the row as the transaction sees it, and the request agree on whether
\* there is a counterpart and whose it is.
Shape ==
  /\ sync.step = "idle" => draft = saved /\ sync = NoRequest
  /\ sync.step = "create" => draft.id = NoId /\ ~sync.created
  /\ sync.step \in Calling => draft.id # NoId
  /\ sync.step = "cleanup" => sync.created
  /\ sync.created => saved.id = NoId
  /\ sync.step # "commit" /\ ~sync.created => draft.id = saved.id
  /\ sync.step \in Forming => draft.status \in SyncStatus

BaseInv == FormTypeOK /\ Shape

LEMMA RowFields ==
  ASSUME NEW r \in RowOfBundle
  PROVE  /\ r.status \in SyncStatus \cup {"NEW", "DELETED"} /\ r.title \in Title
         /\ r.datasets \in SUBSET Dataset /\ r.linked \in SUBSET Dataset
         /\ r.id \in RemoteId \cup {NoId} /\ r.fresh \in BOOLEAN /\ r.noted \in SUBSET PreviewTeam
  BY DEF RowOfBundle

LEMMA FreshType ==
  ASSUME NEW r \in RowOfBundle, NEW f \in BOOLEAN
  PROVE  /\ [r EXCEPT !.fresh = f] \in RowOfBundle
         /\ [r EXCEPT !.fresh = f].id = r.id
         /\ [r EXCEPT !.fresh = f].status = r.status
         /\ [r EXCEPT !.fresh = f].title = r.title
         /\ [r EXCEPT !.fresh = f].datasets = r.datasets
         /\ [r EXCEPT !.fresh = f].linked = r.linked
         /\ [r EXCEPT !.fresh = f].noted = r.noted
         /\ [r EXCEPT !.fresh = f].fresh = f
  BY DEF RowOfBundle

LEMMA NoRequestType == NoRequest \in FormRequest /\ NoRequest.step = "idle" /\ ~NoRequest.created
                       /\ NoRequest.telling = {}
  BY DEF NoRequest, FormRequest, SyncSteps

LEMMA StepType ==
  ASSUME NEW r \in FormRequest, NEW step \in SyncSteps
  PROVE  /\ [r EXCEPT !.step = step] \in FormRequest
         /\ [r EXCEPT !.step = step].step = step
         /\ [r EXCEPT !.step = step].created = r.created
         /\ [r EXCEPT !.step = step].telling = r.telling
         /\ [r EXCEPT !.step = step].seen = r.seen
         /\ [r EXCEPT !.step = step].adding = r.adding
         /\ [r EXCEPT !.step = step].removing = r.removing
  BY DEF FormRequest

LEMMA BornType ==
  ASSUME FormTypeOK, NEW i, Born(i)
  PROVE  i \in RemoteId \cup {NoId} => i \in RemoteId /\ remote[i] \in Counterpart
  BY DEF Born, FormTypeOK

\* What a failure does: there is a cleanup if and only if something was created.
LEMMA FailedCases ==
  ASSUME FormTypeOK, NEW row, Failed(row)
  PROVE  /\ succeeded' = FALSE
         /\ outbox' = outbox
         /\ IF sync.created
            THEN sync' = [sync EXCEPT !.step = "cleanup"] /\ draft' = draft
            ELSE sync' = NoRequest /\ draft' = row
  <1>2. CASE sync.created
    BY <1>2 DEF Failed, AfterFailure
  <1>3. CASE ~sync.created
    <2>1. Finish(FALSE) /\ draft' = row /\ succeeded' = FALSE
      BY <1>3 DEF Failed, AfterFailure
    <2>2. outbox' = outbox \cup {}
      BY <2>1 DEF Finish, Released
    <2>3. QED
      BY <1>3, <2>1, <2>2 DEF Finish
  <1>4. QED
    BY <1>2, <1>3

\* After a failure of a call: the base invariant, however the remote bundles and
\* the freshness of the row have changed.
LEMMA FailedBase ==
  ASSUME BaseInv, sync.step \in Calling \cup {"create"}, NEW row \in RowOfBundle,
         Failed(row), saved' = row, row.id = saved.id,
         remote' \in [RemoteId -> Counterpart \cup {Unborn, Gone}],
         unsure' \subseteq RemoteId, saves' = saves, missed' = missed
  PROVE  BaseInv'
  <1>1. sync \in FormRequest /\ draft \in RowOfBundle /\ "cleanup" \in SyncSteps
        /\ saves \in 0 .. MaxSaves /\ missed \in BOOLEAN /\ outbox \in SUBSET PreviewTeam
    BY DEF BaseInv, FormTypeOK, SyncSteps
  <1>2. succeeded' = FALSE /\ outbox' = outbox
    BY FailedCases DEF BaseInv
  <1>3. CASE sync.created
    <2>1. sync' = [sync EXCEPT !.step = "cleanup"] /\ draft' = draft
      BY <1>3, FailedCases DEF BaseInv
    <2>2. sync' \in FormRequest /\ sync'.step = "cleanup" /\ sync'.created
      BY <1>1, <1>3, <2>1, StepType
    <2>3. draft.id # NoId /\ saved.id = NoId
      BY <1>3 DEF BaseInv, Shape, Calling, Forming
    <2>4. FormTypeOK'
      BY <1>1, <1>2, <2>1, <2>2 DEF FormTypeOK
    <2>5. Shape'
      BY <2>1, <2>2, <2>3 DEF Shape, Calling, Forming
    <2>6. QED
      BY <2>4, <2>5 DEF BaseInv
  <1>4. CASE ~sync.created
    <2>1. sync' = NoRequest /\ draft' = row
      BY <1>4, FailedCases DEF BaseInv
    <2>2. FormTypeOK'
      BY <1>1, <1>2, <2>1, NoRequestType DEF FormTypeOK
    <2>3. Shape'
      BY <2>1, NoRequestType DEF Shape, Calling, Forming
    <2>4. QED
      BY <2>2, <2>3 DEF BaseInv
  <1>5. QED
    BY <1>3, <1>4

LEMMA RefusedBase ==
  ASSUME BaseInv, sync.step \in Calling \cup {"create"}, Refused,
         saves' = saves, missed' = missed, unsure' = unsure
  PROVE  BaseInv'
  <1>1. Failed(saved) /\ remote' = remote /\ saved' = saved
    BY DEF Refused
  <1>2. saved \in RowOfBundle /\ remote \in [RemoteId -> Counterpart \cup {Unborn, Gone}]
        /\ unsure \subseteq RemoteId
    BY DEF BaseInv, FormTypeOK
  <1>3. QED
    BY <1>1, <1>2, FailedBase

\* A call that changes the counterpart, heard of, not heard of, or failing.
LEMMA ChangeBase ==
  ASSUME BaseInv, sync.step \in {"state", "change", "metadata"}, NEW c, Born(draft.id) => c \in Counterpart,
         NEW row \in RowOfBundle, row.id = draft.id, row.status = draft.status, NEW next \in FormRequest,
         next.created = sync.created, next.step \in {"change", "commit"},
         Change(c, row, next), saves' = saves, missed' = missed, unsure' = unsure
  PROVE  BaseInv'
  <1> DEFINE stale == [saved EXCEPT !.fresh = FALSE]
             taken == [row EXCEPT !.fresh = TRUE]
             there == [remote EXCEPT ![draft.id] = c]
  <1>1. /\ saved \in RowOfBundle /\ draft \in RowOfBundle /\ unsure \subseteq RemoteId
        /\ remote \in [RemoteId -> Counterpart \cup {Unborn, Gone}]
        /\ saves \in 0 .. MaxSaves /\ missed \in BOOLEAN /\ succeeded \in BOOLEAN
        /\ outbox \in SUBSET PreviewTeam
    BY DEF BaseInv, FormTypeOK
  <1>2. Born(draft.id) => there \in [RemoteId -> Counterpart \cup {Unborn, Gone}]
    BY <1>1
  <1>3. stale \in RowOfBundle /\ stale.id = saved.id
    BY <1>1, FreshType
  <1>4. taken \in RowOfBundle /\ taken.id = draft.id /\ taken.status = draft.status
    BY FreshType
  <1>5. sync.step \in Calling
    BY DEF Calling
  <1>6. CASE /\ Born(draft.id) /\ remote' = there /\ saved' = stale /\ draft' = taken
             /\ sync' = next /\ UNCHANGED <<outbox, succeeded>>
    <2> HIDE DEF stale, taken, there
    <2>1. FormTypeOK'
      BY <1>1, <1>2, <1>3, <1>4, <1>6 DEF FormTypeOK
    <2>2. draft.id # NoId /\ (sync.created => saved.id = NoId)
          /\ (~sync.created => draft.id = saved.id) /\ draft.status \in SyncStatus
      BY <1>5 DEF BaseInv, Shape, Calling, Forming
    <2>3. Shape'
      BY <1>3, <1>4, <1>6, <2>2 DEF Shape, Calling, Forming
    <2>4. QED
      BY <2>1, <2>3 DEF BaseInv
  <1>7. CASE Born(draft.id) /\ remote' = there /\ saved' = stale /\ Failed(stale)
    <2> HIDE DEF stale, taken, there
    <2>1. QED
      BY <1>1, <1>2, <1>3, <1>5, <1>7, FailedBase
  <1>8. CASE Failed(saved) /\ UNCHANGED <<remote, saved>>
    BY <1>1, <1>5, <1>8, FailedBase
  <1>9. QED
    BY <1>6, <1>7, <1>8 DEF Change

---------------------------------------------------------------------------
(* The base invariant, action by action                                    *)

\* What the types say of one state, for the proofs to cite.
LEMMA BaseFacts ==
  ASSUME BaseInv
  PROVE  /\ saved \in RowOfBundle /\ draft \in RowOfBundle /\ sync \in FormRequest
         /\ unsure \subseteq RemoteId
         /\ remote \in [RemoteId -> Counterpart \cup {Unborn, Gone}]
         /\ saves \in 0 .. MaxSaves /\ missed \in BOOLEAN /\ succeeded \in BOOLEAN
         /\ outbox \in SUBSET PreviewTeam
  BY DEF BaseInv, FormTypeOK

\* The new row and where the request goes first.
LEMMA SaveFacts ==
  ASSUME BaseInv, NEW s \in SyncStatus, NEW title \in Title, NEW datasets \in SUBSET Dataset,
         Save(s, title, datasets)
  PROVE  /\ draft' \in RowOfBundle /\ draft'.id = saved.id /\ draft'.fresh = saved.fresh
         /\ draft'.status = s /\ draft'.title = title /\ draft'.datasets = datasets
         /\ draft'.linked = saved.linked \cap datasets
         /\ draft'.noted = saved.noted \cup sync'.telling
         /\ sync' \in FormRequest /\ ~sync'.created
         /\ sync'.telling \cap saved.noted = {}
         /\ sync'.step = IF saved.id # NoId THEN "get"
                         ELSE IF datasets # {} THEN "create" ELSE "commit"
         /\ saves' \in 0 .. MaxSaves
  <1> DEFINE told == IF s = "IN_REVIEW" THEN PreviewTeam \ saved.noted ELSE {}
             row == [saved EXCEPT !.status = s, !.title = title,
                       !.datasets = datasets, !.linked = @ \cap datasets,
                       !.noted = @ \cup told]
             step == IF saved.id # NoId THEN "get"
                     ELSE IF datasets # {} THEN "create" ELSE "commit"
  <1>1. saved \in RowOfBundle /\ saves \in 0 .. MaxSaves
    BY BaseFacts
  <1>2. told \in SUBSET PreviewTeam /\ told \cap saved.noted = {}
    OBVIOUS
  <1>3. /\ row \in RowOfBundle /\ row.id = saved.id /\ row.fresh = saved.fresh
        /\ row.status = s /\ row.title = title /\ row.datasets = datasets
        /\ row.linked = saved.linked \cap datasets
        /\ row.noted = saved.noted \cup told
    <2> HIDE DEF told
    <2> QED
      BY <1>1, <1>2 DEF RowOfBundle
  <1>4. step \in SyncSteps
    BY DEF SyncSteps
  <1>5. draft' = row
    BY DEF Save
  <1>6. sync' = [NoRequest EXCEPT !.telling = told,
                   !.step = IF row.id # NoId THEN "get"
                            ELSE IF datasets # {} THEN "create" ELSE "commit"]
    BY DEF Save
  <1>7. sync' = [NoRequest EXCEPT !.telling = told, !.step = step]
    <2> HIDE DEF row, told
    <2> QED
      BY <1>3, <1>6
  <1>8. sync' \in FormRequest /\ sync'.telling = told /\ sync'.step = step /\ ~sync'.created
    <2> HIDE DEF row, told, step
    <2> QED
      BY <1>2, <1>4, <1>7 DEF NoRequest, FormRequest
  <1>9. saves' \in 0 .. MaxSaves
    BY <1>1, SyncAssumption DEF Save
  <1>10. QED
    <2> HIDE DEF row, told
    <2> QED
      BY <1>2, <1>3, <1>5, <1>8, <1>9

LEMMA SaveBase ==
  ASSUME BaseInv, NEW s \in SyncStatus, NEW title \in Title, NEW datasets \in SUBSET Dataset,
         Save(s, title, datasets)
  PROVE  BaseInv'
  <1>1. UNCHANGED <<saved, remote, outbox, succeeded, missed, unsure>>
    BY DEF Save
  <1>2. FormTypeOK'
    BY <1>1, BaseFacts, SaveFacts DEF FormTypeOK
  <1>3. Shape'
    BY <1>1, SaveFacts DEF Shape, Calling, Forming
  <1>4. QED
    BY <1>2, <1>3 DEF BaseInv

LEMMA CreateFacts ==
  ASSUME BaseInv, NEW i \in RemoteId
  PROVE  LET c == [state |-> "DRAFT", title |-> draft.title, contents |-> {}]
             row == [draft EXCEPT !.id = i, !.fresh = TRUE]
             next == [sync EXCEPT !.step = "get", !.created = TRUE] IN
         /\ c \in Counterpart
         /\ row \in RowOfBundle /\ row.id = i /\ row.noted = draft.noted
         /\ row.status = draft.status /\ row.datasets = draft.datasets
         /\ row.linked = draft.linked /\ row.title = draft.title
         /\ next \in FormRequest /\ next.step = "get" /\ next.created
         /\ next.telling = sync.telling
  <1>1. saved \in RowOfBundle /\ draft \in RowOfBundle /\ sync \in FormRequest
    BY BaseFacts
  <1>2. draft.title \in Title
    BY <1>1, RowFields
  <1>3. "DRAFT" \in SyncStatus /\ "get" \in SyncSteps
    BY DEF SyncStatus, SyncSteps
  <1>4. QED
    BY <1>1, <1>2, <1>3 DEF Counterpart, RowOfBundle, FormRequest

LEMMA CreateBase ==
  ASSUME BaseInv, NEW i \in RemoteId, Create(i)
  PROVE  BaseInv'
  <1> DEFINE c == [state |-> "DRAFT", title |-> draft.title, contents |-> {}]
             row == [draft EXCEPT !.id = i, !.fresh = TRUE]
             next == [sync EXCEPT !.step = "get", !.created = TRUE]
             there == [remote EXCEPT ![i] = c]
  <1>1. /\ c \in Counterpart /\ row \in RowOfBundle /\ row.id = i
        /\ next \in FormRequest /\ next.step = "get" /\ next.created
    BY CreateFacts
  <1>2. sync.step = "create" /\ remote' = there /\ UNCHANGED <<saved, saves, missed>>
    BY DEF Create
  <1>3. there \in [RemoteId -> Counterpart \cup {Unborn, Gone}]
    BY <1>1, BaseFacts
  <1>4. saved.id = NoId /\ i # NoId /\ row.status \in SyncStatus
    BY <1>2, CreateFacts, SyncAssumption DEF BaseInv, Shape, Forming
  <1>5. CASE draft' = row /\ sync' = next /\ UNCHANGED <<outbox, succeeded, unsure>>
    <2> HIDE DEF c, row, next, there
    <2>1. FormTypeOK'
      BY <1>1, <1>2, <1>3, <1>5, BaseFacts DEF FormTypeOK
    <2>2. Shape'
      BY <1>1, <1>2, <1>4, <1>5 DEF Shape, Calling, Forming
    <2>3. QED
      BY <2>1, <2>2 DEF BaseInv
  <1>6. CASE Failed(saved) /\ unsure' = unsure \cup {i}
    <2> HIDE DEF c, row, next, there
    <2> QED
      BY <1>1, <1>2, <1>3, <1>6, BaseFacts, FailedBase
  <1>7. QED
    BY <1>5, <1>6 DEF Create

LEMMA GetFacts ==
  ASSUME BaseInv, Get
  PROVE  /\ draft.id \in RemoteId /\ Born(draft.id) /\ remote[draft.id] \in Counterpart
         /\ draft' \in RowOfBundle /\ draft'.fresh
         /\ draft'.id = draft.id /\ draft'.status = draft.status /\ draft'.title = draft.title
         /\ draft'.datasets = draft.datasets /\ draft'.linked = draft.linked
         /\ draft'.noted = draft.noted
         /\ sync' \in FormRequest /\ sync'.created = sync.created
         /\ sync'.telling = sync.telling /\ sync'.seen = remote[draft.id]
         /\ sync'.step \in {"commit", "state", "drop", "contents", "metadata"}
         /\ sync'.step = IF Locked
                         THEN IF draft.status = remote[draft.id].state THEN "commit" ELSE "state"
                         ELSE IF Emptied THEN "drop"
                         ELSE IF Reconciles(~draft.fresh) THEN "contents" ELSE "metadata"
  <1> DEFINE step == IF Locked
                     THEN IF draft.status = remote[draft.id].state THEN "commit" ELSE "state"
                     ELSE IF Emptied THEN "drop"
                     ELSE IF Reconciles(~draft.fresh) THEN "contents" ELSE "metadata"
  <1>1. Born(draft.id) /\ draft' = [draft EXCEPT !.fresh = TRUE]
        /\ sync' = [sync EXCEPT !.seen = remote[draft.id], !.step = step]
    BY DEF Get
  <1>2. step \in {"commit", "state", "drop", "contents", "metadata"}
    OBVIOUS
  <1>3. draft.id \in RemoteId /\ remote[draft.id] \in Counterpart
    <2>1. draft.id \in RemoteId \cup {NoId}
      BY BaseFacts, RowFields
    <2> QED
      BY <1>1, <2>1, BornType DEF BaseInv
  <1>4. /\ sync' \in FormRequest /\ sync'.step = step /\ sync'.created = sync.created
        /\ sync'.telling = sync.telling /\ sync'.seen = remote[draft.id]
    <2> HIDE DEF step
    <2>1. step \in SyncSteps
      BY <1>2 DEF SyncSteps
    <2>2. sync \in FormRequest
      BY BaseFacts
    <2> QED
      BY <1>1, <1>3, <2>1, <2>2 DEF FormRequest
  <1>5. QED
    <2>1. draft \in RowOfBundle
      BY BaseFacts
    <2> HIDE DEF step
    <2>2. /\ draft' \in RowOfBundle /\ draft'.fresh
          /\ draft'.id = draft.id /\ draft'.status = draft.status /\ draft'.title = draft.title
          /\ draft'.datasets = draft.datasets /\ draft'.linked = draft.linked
          /\ draft'.noted = draft.noted
      BY <1>1, <2>1, FreshType
    <2>3. QED
      BY <1>1, <1>2, <1>3, <1>4, <2>2 DEF step

LEMMA GetBase ==
  ASSUME BaseInv, Get
  PROVE  BaseInv'
  <1>1. sync.step = "get" /\ UNCHANGED <<saved, remote, saves, outbox, succeeded, unsure>>
        /\ missed' \in BOOLEAN
    BY BaseFacts DEF Get
  <1>2. FormTypeOK'
    BY <1>1, BaseFacts, GetFacts DEF FormTypeOK
  <1>3. Shape'
    <2>1. draft.id # NoId /\ (sync.created => saved.id = NoId)
          /\ (~sync.created => draft.id = saved.id) /\ draft.status \in SyncStatus
      BY <1>1 DEF BaseInv, Shape, Calling, Forming
    <2>2. sync'.step \notin {"idle", "create"}
      BY GetFacts
    <2> QED
      BY <1>1, <2>1, <2>2, GetFacts DEF Shape, Calling, Forming
  <1>4. QED
    BY <1>2, <1>3 DEF BaseInv

LEMMA GetContentsFacts ==
  ASSUME BaseInv, GetContents
  PROVE  /\ draft.id \in RemoteId /\ Born(draft.id) /\ remote[draft.id] \in Counterpart
         /\ draft' \in RowOfBundle /\ draft'.fresh = draft.fresh
         /\ draft'.id = draft.id /\ draft'.status = draft.status /\ draft'.title = draft.title
         /\ draft'.datasets = draft.datasets /\ draft'.noted = draft.noted
         /\ draft'.linked = draft.linked \cup (draft.datasets \cap remote[draft.id].contents)
         /\ sync' \in FormRequest /\ sync'.created = sync.created
         /\ sync'.telling = sync.telling /\ sync'.seen = sync.seen /\ sync'.step = "change"
         /\ sync'.adding = draft.datasets \ remote[draft.id].contents
         /\ sync'.removing = remote[draft.id].contents \ draft.datasets
  <1>1. draft \in RowOfBundle /\ sync \in FormRequest
    BY BaseFacts
  <1>2. draft.id \in RemoteId \cup {NoId} /\ draft.datasets \in SUBSET Dataset
        /\ draft.linked \in SUBSET Dataset
    BY <1>1, RowFields
  <1>3. Born(draft.id)
    BY DEF GetContents
  <1>4. draft.id \in RemoteId /\ remote[draft.id] \in Counterpart
    BY <1>2, <1>3, BornType DEF BaseInv
  <1> DEFINE there == remote[draft.id].contents
             linked == draft.linked \cup (draft.datasets \cap there)
             adding == draft.datasets \ there
             removing == there \ draft.datasets
  <1>5. there \in SUBSET Dataset
    BY <1>4 DEF Counterpart
  <1>6. linked \in SUBSET Dataset /\ adding \in SUBSET Dataset /\ removing \in SUBSET Dataset
    BY <1>2, <1>5
  <1>7. draft' = [draft EXCEPT !.linked = linked]
        /\ sync' = [sync EXCEPT !.adding = adding, !.removing = removing, !.step = "change"]
    BY DEF GetContents
  <1>8. "change" \in SyncSteps
    BY DEF SyncSteps
  <1>9. QED
    <2> HIDE DEF linked, adding, removing
    <2>1. /\ draft' \in RowOfBundle /\ draft'.fresh = draft.fresh
          /\ draft'.id = draft.id /\ draft'.status = draft.status /\ draft'.title = draft.title
          /\ draft'.datasets = draft.datasets /\ draft'.noted = draft.noted
          /\ draft'.linked = linked
      BY <1>1, <1>6, <1>7 DEF RowOfBundle
    <2>2. /\ sync' \in FormRequest /\ sync'.created = sync.created
          /\ sync'.telling = sync.telling /\ sync'.seen = sync.seen /\ sync'.step = "change"
          /\ sync'.adding = adding /\ sync'.removing = removing
      BY <1>1, <1>6, <1>7, <1>8 DEF FormRequest
    <2>3. QED
      BY <1>3, <1>4, <2>1, <2>2 DEF linked, adding, removing

LEMMA GetContentsBase ==
  ASSUME BaseInv, GetContents
  PROVE  BaseInv'
  <1>1. sync.step = "contents"
        /\ UNCHANGED <<saved, remote, saves, outbox, succeeded, missed, unsure>>
    BY DEF GetContents
  <1>2. FormTypeOK'
    BY <1>1, BaseFacts, GetContentsFacts DEF FormTypeOK
  <1>3. Shape'
    <2>1. draft.id # NoId /\ (sync.created => saved.id = NoId)
          /\ (~sync.created => draft.id = saved.id) /\ draft.status \in SyncStatus
      BY <1>1 DEF BaseInv, Shape, Calling, Forming
    <2> QED
      BY <1>1, <2>1, GetContentsFacts DEF Shape, Calling, Forming
  <1>4. QED
    BY <1>2, <1>3 DEF BaseInv

\* What each of the calls that change the counterpart asks of Change.
LEMMA ThereIsOne ==
  ASSUME BaseInv, Born(draft.id)
  PROVE  draft.id \in RemoteId /\ remote[draft.id] \in Counterpart
  <1>1. draft.id \in RemoteId \cup {NoId}
    BY BaseFacts, RowFields
  <1> QED
    BY <1>1, BornType DEF BaseInv

LEMMA StateCall ==
  ASSUME BaseInv, sync.step \in Forming, Born(draft.id)
  PROVE  LET c == [remote[draft.id] EXCEPT !.state = draft.status] IN
         /\ c \in Counterpart /\ c.state = draft.status
         /\ c.title = remote[draft.id].title /\ c.contents = remote[draft.id].contents
  <1>1. draft.status \in SyncStatus /\ remote[draft.id] \in Counterpart
    BY ThereIsOne DEF BaseInv, Shape
  <1>2. QED
    BY <1>1 DEF Counterpart

LEMMA MetadataCall ==
  ASSUME BaseInv, sync.step \in Forming, Born(draft.id)
  PROVE  LET c == [remote[draft.id] EXCEPT !.state = draft.status, !.title = draft.title] IN
         /\ c \in Counterpart /\ c.state = draft.status
         /\ c.title = draft.title /\ c.contents = remote[draft.id].contents
  <1>1. draft.status \in SyncStatus /\ remote[draft.id] \in Counterpart
    BY ThereIsOne DEF BaseInv, Shape
  <1>2. draft.title \in Title
    BY BaseFacts, RowFields
  <1>3. QED
    BY <1>1, <1>2 DEF Counterpart

LEMMA ContentsCall ==
  ASSUME BaseInv, Born(draft.id), NEW contents \in SUBSET Dataset
  PROVE  LET c == [remote[draft.id] EXCEPT !.contents = contents] IN
         /\ c \in Counterpart /\ c.state = remote[draft.id].state
         /\ c.title = remote[draft.id].title /\ c.contents = contents
  <1>1. remote[draft.id] \in Counterpart
    BY ThereIsOne
  <1>2. QED
    BY <1>1 DEF Counterpart

\* The row with a dataset that has got its content id.
LEMMA LinkedRow ==
  ASSUME NEW r \in RowOfBundle, NEW d \in Dataset
  PROVE  LET row == [r EXCEPT !.linked = @ \cup {d}] IN
         /\ row \in RowOfBundle /\ row.id = r.id /\ row.status = r.status /\ row.title = r.title
         /\ row.datasets = r.datasets /\ row.noted = r.noted /\ row.fresh = r.fresh
         /\ row.linked = r.linked \cup {d}
  <1>1. r.linked \cup {d} \in SUBSET Dataset
    BY RowFields
  <1>2. QED
    BY <1>1 DEF RowOfBundle

LEMMA Done ==
  ASSUME NEW r \in FormRequest, NEW d
  PROVE  LET added == [r EXCEPT !.adding = @ \ {d}]
             removed == [r EXCEPT !.removing = @ \ {d}] IN
         /\ added \in FormRequest /\ added.step = r.step /\ added.created = r.created
         /\ added.telling = r.telling /\ added.seen = r.seen /\ added.removing = r.removing
         /\ added.adding = r.adding \ {d}
         /\ removed \in FormRequest /\ removed.step = r.step /\ removed.created = r.created
         /\ removed.telling = r.telling /\ removed.seen = r.seen /\ removed.adding = r.adding
         /\ removed.removing = r.removing \ {d}
  BY DEF FormRequest

LEMMA PutStateBase ==
  ASSUME BaseInv, PutState
  PROVE  BaseInv'
  <1> DEFINE c == [remote[draft.id] EXCEPT !.state = draft.status]
             next == [sync EXCEPT !.step = "commit"]
  <1>1. sync.step = "state" /\ UNCHANGED <<saves, missed, unsure>>
    BY DEF PutState
  <1>2. next \in FormRequest /\ next.created = sync.created /\ next.step = "commit"
    BY BaseFacts, StepType DEF SyncSteps
  <1>3. Born(draft.id) => c \in Counterpart
    BY <1>1, StateCall DEF Forming
  <1>4. CASE draft.fresh
    <2>1. Change(c, draft, next)
      BY <1>4 DEF PutState, Matching
    <2> HIDE DEF c, next
    <2>2. QED
      BY <1>1, <1>2, <1>3, <2>1, BaseFacts, ChangeBase
  <1>5. CASE ~draft.fresh
    <2>1. Refused
      BY <1>5 DEF PutState, Matching
    <2>2. QED
      BY <1>1, <2>1, RefusedBase DEF Calling
  <1>6. QED
    BY <1>4, <1>5

LEMMA AddContentBase ==
  ASSUME BaseInv, NEW d \in Dataset, AddContent(d)
  PROVE  BaseInv'
  <1> DEFINE contents == remote[draft.id].contents \cup {d}
             c == [remote[draft.id] EXCEPT !.contents = contents]
             row == [draft EXCEPT !.linked = @ \cup {d}]
             next == [sync EXCEPT !.adding = @ \ {d}]
  <1>1. sync.step = "change" /\ UNCHANGED <<saves, missed, unsure>> /\ Change(c, row, next)
    BY DEF AddContent
  <1>2. next \in FormRequest /\ next.created = sync.created /\ next.step = sync.step
    BY BaseFacts, Done
  <1>3. Born(draft.id) => c \in Counterpart
    <2>1. Born(draft.id) => contents \in SUBSET Dataset
      BY ThereIsOne DEF Counterpart
    <2> HIDE DEF contents
    <2> QED
      BY <2>1, ContentsCall
  <1>4. row \in RowOfBundle /\ row.id = draft.id /\ row.status = draft.status
    BY BaseFacts, LinkedRow
  <1> HIDE DEF c, row, next
  <1>5. QED
    BY <1>1, <1>2, <1>3, <1>4, ChangeBase

LEMMA RemoveContentBase ==
  ASSUME BaseInv, NEW d \in Dataset, RemoveContent(d)
  PROVE  BaseInv'
  <1> DEFINE contents == remote[draft.id].contents \ {d}
             c == [remote[draft.id] EXCEPT !.contents = contents]
             next == [sync EXCEPT !.removing = @ \ {d}]
  <1>1. sync.step = "change" /\ UNCHANGED <<saves, missed, unsure>> /\ Change(c, draft, next)
    BY DEF RemoveContent
  <1>2. next \in FormRequest /\ next.created = sync.created /\ next.step = sync.step
    BY BaseFacts, Done
  <1>3. Born(draft.id) => c \in Counterpart
    <2>1. Born(draft.id) => contents \in SUBSET Dataset
      BY ThereIsOne DEF Counterpart
    <2> HIDE DEF contents
    <2> QED
      BY <2>1, ContentsCall
  <1> HIDE DEF c, next
  <1>4. QED
    BY <1>1, <1>2, <1>3, BaseFacts, ChangeBase

LEMMA PutMetadataBase ==
  ASSUME BaseInv, PutMetadata
  PROVE  BaseInv'
  <1> DEFINE c == [remote[draft.id] EXCEPT !.state = draft.status, !.title = draft.title]
             next == [sync EXCEPT !.step = "commit"]
  <1>1. sync.step = "metadata" /\ UNCHANGED <<saves, missed, unsure>>
    BY DEF PutMetadata
  <1>2. next \in FormRequest /\ next.created = sync.created /\ next.step = "commit"
    BY BaseFacts, StepType DEF SyncSteps
  <1>3. Born(draft.id) => c \in Counterpart
    BY <1>1, MetadataCall DEF Forming
  <1>4. CASE sync' = next /\ UNCHANGED <<saved, draft, remote, outbox, succeeded>>
    <2> HIDE DEF c, next
    <2>1. FormTypeOK'
      BY <1>1, <1>2, <1>4, BaseFacts DEF FormTypeOK
    <2>2. Shape'
      BY <1>1, <1>2, <1>4 DEF BaseInv, Shape, Calling, Forming
    <2>3. QED
      BY <2>1, <2>2 DEF BaseInv
  <1>5. CASE draft.fresh /\ Change(c, draft, next)
    <2> HIDE DEF c, next
    <2>1. QED
      BY <1>1, <1>2, <1>3, <1>5, BaseFacts, ChangeBase
  <1>6. CASE Refused
    BY <1>1, <1>6, RefusedBase DEF Calling
  <1>7. QED
    BY <1>4, <1>5, <1>6 DEF PutMetadata, Matching

LEMMA ContentsDoneFacts ==
  ASSUME BaseInv, ContentsDone
  PROVE  /\ sync' \in FormRequest /\ sync'.step = "metadata" /\ sync'.created = sync.created
         /\ sync'.telling = sync.telling /\ sync'.seen = sync.seen
         /\ sync.adding = {} /\ sync.removing = {} /\ sync.step = "change"
         /\ UNCHANGED <<saved, draft, remote, saves, outbox, succeeded, missed, unsure>>
  <1>1. sync \in FormRequest /\ "metadata" \in SyncSteps
    BY BaseFacts DEF SyncSteps
  <1>2. sync' = [sync EXCEPT !.step = "metadata"]
    BY DEF ContentsDone
  <1>3. QED
    BY <1>1, <1>2, StepType DEF ContentsDone

LEMMA ContentsDoneBase ==
  ASSUME BaseInv, ContentsDone
  PROVE  BaseInv'
  <1>1. sync.step = "change" /\ UNCHANGED <<saved, draft, remote, saves, outbox, succeeded, missed, unsure>>
    BY DEF ContentsDone
  <1>2. sync' \in FormRequest /\ sync'.created = sync.created /\ sync'.step = "metadata"
    BY BaseFacts, StepType DEF ContentsDone, SyncSteps
  <1>3. FormTypeOK'
    BY <1>1, <1>2, BaseFacts DEF FormTypeOK
  <1>4. Shape'
    BY <1>1, <1>2 DEF BaseInv, Shape, Calling, Forming
  <1>5. QED
    BY <1>3, <1>4 DEF BaseInv

\* The row without its counterpart.
LEMMA UnlinkedRow ==
  ASSUME NEW r \in RowOfBundle
  PROVE  LET dropped == [r EXCEPT !.id = NoId, !.fresh = FALSE]
             deleted == [r EXCEPT !.id = NoId]
             ending == [r EXCEPT !.status = "DELETED"] IN
         /\ dropped \in RowOfBundle /\ dropped.id = NoId /\ dropped.noted = r.noted
         /\ dropped.datasets = r.datasets /\ dropped.status = r.status
         /\ dropped.linked = r.linked
         /\ deleted \in RowOfBundle /\ deleted.id = NoId /\ deleted.noted = r.noted
         /\ deleted.status = r.status /\ deleted.linked = r.linked /\ deleted.datasets = r.datasets
         /\ ending \in RowOfBundle /\ ending.id = r.id /\ ending.noted = r.noted
         /\ ending.status = "DELETED" /\ ending.datasets = r.datasets /\ ending.linked = r.linked
  BY DEF RowOfBundle

LEMMA DropBase ==
  ASSUME BaseInv, Drop \/ DeleteRemote
  PROVE  BaseInv'
  <1> DEFINE there == [remote EXCEPT ![draft.id] = Gone]
             next == [sync EXCEPT !.step = "commit"]
  <1>1. sync.step \in {"drop", "delete"} /\ UNCHANGED <<saved, saves, missed>> /\ remote' = there
    BY DEF Drop, DeleteRemote
  <1>2. next \in FormRequest /\ next.created = sync.created /\ next.step = "commit"
    BY BaseFacts, StepType DEF SyncSteps
  <1>3. draft.id # NoId /\ (sync.created => saved.id = NoId)
    BY <1>1 DEF BaseInv, Shape, Calling
  <1>4. there \in [RemoteId -> Counterpart \cup {Unborn, Gone}]
    BY BaseFacts
  <1>5. draft.id \in RemoteId
    BY <1>3, BaseFacts, RowFields
  <1>6. CASE draft' \in RowOfBundle /\ sync' = next /\ UNCHANGED <<outbox, succeeded, unsure>>
    <2> HIDE DEF there, next
    <2>1. FormTypeOK'
      BY <1>1, <1>2, <1>4, <1>6, BaseFacts DEF FormTypeOK
    <2>2. Shape'
      BY <1>1, <1>2, <1>3, <1>6 DEF Shape, Calling, Forming
    <2>3. QED
      BY <2>1, <2>2 DEF BaseInv
  <1>7. CASE Failed(saved) /\ unsure' = unsure \cup {draft.id}
    <2> HIDE DEF there, next
    <2>1. sync.step \in Calling
      BY <1>1 DEF Calling
    <2>2. QED
      BY <1>1, <1>4, <1>5, <1>7, <2>1, BaseFacts, FailedBase
  <1>8. [draft EXCEPT !.id = NoId, !.fresh = FALSE] \in RowOfBundle
        /\ [draft EXCEPT !.id = NoId] \in RowOfBundle
    BY BaseFacts, UnlinkedRow
  <1>9. QED
    BY <1>6, <1>7, <1>8 DEF Drop, DeleteRemote

\* A request that ends, rolled back or committed.
LEMMA FinishFacts ==
  ASSUME BaseInv, NEW committed \in BOOLEAN, Finish(committed)
  PROVE  /\ sync' = NoRequest /\ outbox' \in SUBSET PreviewTeam
         /\ outbox' = outbox \cup (IF committed THEN sync.telling ELSE {})
  <1>1. outbox \in SUBSET PreviewTeam /\ sync.telling \in SUBSET PreviewTeam
    BY BaseFacts DEF FormRequest
  <1>2. QED
    BY <1>1 DEF Finish, Released

LEMMA EndBase ==
  ASSUME BaseInv, Cleanup \/ Abort \/ Commit
  PROVE  BaseInv'
  <1>1. saved' \in RowOfBundle /\ draft' \in RowOfBundle /\ draft' = saved'
    BY BaseFacts DEF Cleanup, Abort, Commit
  <1>2. sync' = NoRequest /\ outbox' \in SUBSET PreviewTeam
    BY FinishFacts DEF Cleanup, Abort, Commit
  <1>3. saves' = saves /\ missed' = missed /\ succeeded' \in BOOLEAN
    BY BaseFacts DEF Cleanup, Abort, Commit
  <1>4. remote' \in [RemoteId -> Counterpart \cup {Unborn, Gone}]
    BY BaseFacts DEF Cleanup, Abort, Commit
  <1>5. unsure' \subseteq RemoteId
    <2>1. saved.id \in RemoteId \cup {NoId} /\ draft.id \in RemoteId \cup {NoId}
          /\ unsure \subseteq RemoteId
      BY BaseFacts, RowFields
    <2>2. sync.step = "cleanup" => draft.id # NoId
      BY DEF BaseInv, Shape, Calling
    <2> QED
      BY <2>1, <2>2 DEF Cleanup, Abort, Commit
  <1>6. FormTypeOK'
    BY <1>1, <1>2, <1>3, <1>4, <1>5, NoRequestType, BaseFacts DEF FormTypeOK
  <1>7. Shape'
    BY <1>1, <1>2, NoRequestType DEF Shape, Calling, Forming
  <1>8. QED
    BY <1>6, <1>7 DEF BaseInv

LEMMA BeginDeleteBase ==
  ASSUME BaseInv, BeginDelete
  PROVE  BaseInv'
  <1> DEFINE step == IF saved.id = NoId THEN "commit" ELSE "delete"
  <1>1. UNCHANGED <<saved, remote, saves, outbox, succeeded, missed, unsure>>
    BY DEF BeginDelete
  <1>2. draft' \in RowOfBundle /\ draft'.id = saved.id
    BY BaseFacts, UnlinkedRow DEF BeginDelete
  <1>3. /\ sync' \in FormRequest /\ sync'.step = step /\ ~sync'.created
        /\ sync'.telling = {}
    <2>1. step \in SyncSteps /\ sync' = [NoRequest EXCEPT !.step = step]
      BY DEF BeginDelete, SyncSteps
    <2> HIDE DEF step
    <2> QED
      BY <2>1, NoRequestType, StepType
  <1>4. FormTypeOK'
    BY <1>1, <1>2, <1>3, BaseFacts DEF FormTypeOK
  <1>5. Shape'
    BY <1>1, <1>2, <1>3 DEF Shape, Calling, Forming
  <1>6. QED
    BY <1>4, <1>5 DEF BaseInv

LEMMA MeddleBase ==
  ASSUME BaseInv, NEW c \in Counterpart, Meddle(c)
  PROVE  BaseInv'
  <1>1. UNCHANGED <<sync, outbox, unsure>> /\ succeeded' = FALSE /\ missed' \in BOOLEAN
    BY BaseFacts DEF Meddle
  <1>2. saves' \in 0 .. MaxSaves
    BY BaseFacts, SyncAssumption DEF Meddle
  <1>3. remote' \in [RemoteId -> Counterpart \cup {Unborn, Gone}]
    BY BaseFacts DEF Meddle
  <1>4. /\ saved' \in RowOfBundle /\ saved'.id = saved.id
        /\ draft' \in RowOfBundle /\ draft'.id = draft.id /\ draft'.status = draft.status
    BY BaseFacts, FreshType DEF Meddle
  <1>5. FormTypeOK'
    BY <1>1, <1>2, <1>3, <1>4, BaseFacts DEF FormTypeOK
  <1>6. sync.step = "idle" => draft' = saved'
    BY DEF Meddle, BaseInv, Shape
  <1>7. Shape'
    BY <1>1, <1>4, <1>6 DEF BaseInv, Shape, Calling, Forming
  <1>8. QED
    BY <1>5, <1>7 DEF BaseInv

LEMMA BaseInit ==
  ASSUME SyncInit
  PROVE  BaseInv
  <1>1. saved \in RowOfBundle /\ saved.id = NoId
    <2>1. PICK t \in Title : saved = [status |-> "NEW", title |-> t, datasets |-> {},
                 linked |-> {}, id |-> NoId, fresh |-> FALSE, noted |-> {}]
      BY DEF SyncInit
    <2> QED
      BY <2>1 DEF RowOfBundle
  <1>2. remote \in [RemoteId -> Counterpart \cup {Unborn, Gone}] /\ outbox \in SUBSET PreviewTeam
        /\ saves \in 0 .. MaxSaves
    BY SyncAssumption DEF SyncInit
  <1>3. FormTypeOK
    BY <1>1, <1>2, NoRequestType DEF SyncInit, FormTypeOK
  <1>4. Shape
    BY NoRequestType DEF SyncInit, Shape, Calling, Forming
  <1>5. QED
    BY <1>3, <1>4 DEF BaseInv

\* Only the mails move.
MailStep == MailNext /\ UNCHANGED <<saved, draft, remote, sync, saves, succeeded, missed, unsure>>

LEMMA MailStepTypes ==
  ASSUME BaseInv, MailStep
  PROVE  outbox' \in SUBSET PreviewTeam
  BY BaseFacts DEF MailStep, MailNext, SendMail, MailFails

LEMMA BaseStep ==
  ASSUME BaseInv, [SyncNext]_syncVars
  PROVE  BaseInv'
  <1>1. ASSUME NEW s \in SyncStatus, NEW title \in Title, NEW datasets \in SUBSET Dataset,
               Save(s, title, datasets)
        PROVE  BaseInv'
    BY <1>1, SaveBase
  <1>2. ASSUME NEW i \in RemoteId, Create(i) PROVE BaseInv'
    BY <1>2, CreateBase
  <1>3. ASSUME NEW d \in Dataset, AddContent(d) \/ RemoveContent(d) PROVE BaseInv'
    BY <1>3, AddContentBase, RemoveContentBase
  <1>4. CASE CreateFails \/ GetFails \/ RemoteDeleteFails
    BY <1>4, RefusedBase DEF CreateFails, GetFails, RemoteDeleteFails, Calling
  <1>5. CASE Get \/ GetContents \/ ContentsDone
    BY <1>5, GetBase, GetContentsBase, ContentsDoneBase
  <1>6. CASE PutState \/ PutMetadata
    BY <1>6, PutStateBase, PutMetadataBase
  <1>7. CASE Drop \/ DeleteRemote \/ BeginDelete
    BY <1>7, DropBase, BeginDeleteBase
  <1>8. CASE Cleanup \/ Abort \/ Commit
    BY <1>8, EndBase
  <1>9. ASSUME NEW c \in Counterpart, Meddle(c) PROVE BaseInv'
    BY <1>9, MeddleBase
  <1>10. CASE UNCHANGED syncVars
    BY <1>10 DEF syncVars, BaseInv, FormTypeOK, Shape
  <1>11. CASE MailStep
    BY <1>11, MailStepTypes DEF MailStep, BaseInv, FormTypeOK, Shape
  <1>12. QED
    BY <1>1, <1>2, <1>3, <1>4, <1>5, <1>6, <1>7, <1>8, <1>9, <1>10, <1>11
    DEF SyncNext, FormNext, MailStep

---------------------------------------------------------------------------
(* What a call that fails leaves behind                                    *)

\* The request is dropped, or goes on to clean up.
Dropped ==
  /\ succeeded' = FALSE /\ outbox' = outbox
  /\ \/ sync.created /\ sync' = [sync EXCEPT !.step = "cleanup"] /\ draft' = draft
     \/ ~sync.created /\ sync' = NoRequest /\ draft' = saved'

\* The row, except that its ETag may have become out of date.
RowStays ==
  /\ saved'.id = saved.id /\ saved'.status = saved.status /\ saved'.title = saved.title
  /\ saved'.datasets = saved.datasets /\ saved'.linked = saved.linked
  /\ saved'.noted = saved.noted
  /\ saved' = saved \/ ~saved'.fresh

\* The counterpart is changed, and that makes the ETag stale, or it is not.
Struck(c) ==
  \/ remote' = remote /\ saved' = saved
  \/ Born(draft.id) /\ c \in Counterpart /\ remote' = [remote EXCEPT ![draft.id] = c] /\ ~saved'.fresh

LEMMA RefusedFacts ==
  ASSUME BaseInv, Refused
  PROVE  Dropped /\ RowStays /\ remote' = remote /\ saved' = saved
  <1>1. Failed(saved) /\ remote' = remote /\ saved' = saved
    BY DEF Refused
  <1>2. Dropped
    BY <1>1, FailedCases DEF Dropped, BaseInv
  <1>3. QED
    BY <1>1, <1>2 DEF RowStays

LEMMA ChangeFacts ==
  ASSUME BaseInv, NEW c, Born(draft.id) => c \in Counterpart,
         NEW row \in RowOfBundle, NEW next, Change(c, row, next)
  PROVE  \/ Dropped /\ RowStays /\ Struck(c)
         \/ /\ Born(draft.id) /\ remote' = [remote EXCEPT ![draft.id] = c]
            /\ RowStays /\ ~saved'.fresh
            /\ draft' \in RowOfBundle /\ draft'.fresh /\ draft'.id = row.id
            /\ draft'.status = row.status /\ draft'.title = row.title
            /\ draft'.datasets = row.datasets /\ draft'.linked = row.linked
            /\ draft'.noted = row.noted
            /\ sync' = next /\ UNCHANGED <<outbox, succeeded>>
  <1> DEFINE stale == [saved EXCEPT !.fresh = FALSE]
             taken == [row EXCEPT !.fresh = TRUE]
             there == [remote EXCEPT ![draft.id] = c]
  <1>1. /\ stale.id = saved.id /\ stale.status = saved.status /\ stale.title = saved.title
        /\ stale.datasets = saved.datasets /\ stale.linked = saved.linked
        /\ stale.noted = saved.noted /\ ~stale.fresh
    BY BaseFacts, FreshType
  <1>2. /\ taken \in RowOfBundle /\ taken.id = row.id /\ taken.status = row.status
        /\ taken.title = row.title /\ taken.datasets = row.datasets
        /\ taken.linked = row.linked /\ taken.noted = row.noted /\ taken.fresh
    BY FreshType
  <1>3. CASE /\ Born(draft.id) /\ remote' = there /\ saved' = stale /\ draft' = taken
             /\ sync' = next /\ UNCHANGED <<outbox, succeeded>>
    <2> HIDE DEF stale, taken
    <2> QED
      BY <1>1, <1>2, <1>3 DEF RowStays
  <1>4. CASE Born(draft.id) /\ remote' = there /\ saved' = stale /\ Failed(stale)
    <2> HIDE DEF stale, taken
    <2>1. Dropped
      BY <1>4, FailedCases DEF Dropped, BaseInv
    <2> QED
      BY <1>1, <1>4, <2>1 DEF RowStays, Struck
  <1>5. CASE Failed(saved) /\ UNCHANGED <<remote, saved>>
    <2>1. Dropped
      BY <1>5, FailedCases DEF Dropped, BaseInv
    <2> QED
      BY <1>5, <2>1 DEF RowStays, Struck
  <1>6. QED
    BY <1>3, <1>4, <1>5 DEF Change

---------------------------------------------------------------------------
(* Mails, orphans, and who has a counterpart                               *)

MailInv ==
  /\ mailed \in [PreviewTeam -> Nat] /\ lost \in SUBSET PreviewTeam
  /\ MailAccounted
  /\ \A t \in PreviewTeam : t \in outbox => mailed[t] = 0
  /\ sync.telling \cap saved.noted = {}
  /\ draft.noted = saved.noted \cup sync.telling

BornInv == \A i \in RemoteId : i \notin unsure => (Born(i) <=> i = draft.id)

NeedInv ==
  /\ saved.status # "DELETED" => (saved.id = NoId <=> saved.datasets = {})
  /\ sync.step = "create" \/ sync.created =>
       saved.datasets = {} /\ draft.datasets # {} /\ ~Locked
  /\ sync.step = "get" /\ Locked => draft.datasets # {}
  /\ sync.step \in {"state", "contents", "change", "metadata"} => draft.datasets # {}
  /\ sync.step = "drop" => draft.datasets = {}
  /\ sync.step = "delete" => draft.status = "DELETED"
  /\ sync.step = "commit" /\ draft.status # "DELETED" =>
       (draft.id = NoId <=> draft.datasets = {})

RowsInv == BaseInv /\ MailInv /\ BornInv /\ NeedInv

\* A step of the form sends nothing itself.
MailRests == UNCHANGED <<mailed, lost>>

\* The counterparts that are known to be there, or not, stay so.
BornStays == \A i \in RemoteId : i \notin unsure' => i \notin unsure /\ (Born(i)' <=> Born(i))

LEMMA DroppedRows ==
  ASSUME RowsInv, MailRests, sync.step \in Calling \cup {"create"}, Dropped, RowStays, BornStays
  PROVE  MailInv' /\ BornInv' /\ NeedInv'
  <1>1. sync \in FormRequest /\ "cleanup" \in SyncSteps
    BY BaseFacts DEF RowsInv, SyncSteps
  <1>2. \/ /\ sync.created /\ draft' = draft /\ sync'.step = "cleanup" /\ sync'.created
           /\ sync'.telling = sync.telling
        \/ /\ ~sync.created /\ draft' = saved' /\ sync'.step = "idle" /\ ~sync'.created
           /\ sync'.telling = {}
    <2>1. CASE sync.created /\ sync' = [sync EXCEPT !.step = "cleanup"] /\ draft' = draft
      BY <1>1, <2>1, StepType
    <2>2. CASE ~sync.created /\ sync' = NoRequest /\ draft' = saved'
      BY <2>2, NoRequestType
    <2> QED
      BY <2>1, <2>2 DEF Dropped
  <1>3. MailInv'
    BY <1>2 DEF RowsInv, MailInv, MailAccounted, MailRests, Dropped, RowStays
  <1>4. draft'.id = draft.id
    BY <1>2 DEF RowsInv, BaseInv, Shape, Calling, RowStays
  <1>5. BornInv'
    BY <1>4 DEF RowsInv, BornInv, BornStays
  <1>6. NeedInv'
    BY <1>2 DEF RowsInv, NeedInv, RowStays, Locked
  <1>7. QED
    BY <1>3, <1>5, <1>6

LEMMA RefusedRows ==
  ASSUME RowsInv, MailRests, sync.step \in Calling \cup {"create"}, Refused, unsure' = unsure
  PROVE  MailInv' /\ BornInv' /\ NeedInv'
  <1>1. Dropped /\ RowStays /\ remote' = remote
    BY RefusedFacts DEF RowsInv
  <1>2. BornStays
    BY <1>1 DEF BornStays, Born
  <1>3. QED
    BY <1>1, <1>2, DroppedRows

\* A call that changes the counterpart of a row and is followed by another, or
\* by the commit.
LEMMA ChangeRows ==
  ASSUME RowsInv, MailRests, sync.step \in {"state", "change", "metadata"}, unsure' = unsure,
         NEW c, Born(draft.id) => c \in Counterpart,
         NEW row \in RowOfBundle, row.id = draft.id, row.status = draft.status,
         row.datasets = draft.datasets, row.noted = draft.noted,
         NEW next \in FormRequest, next.created = sync.created, next.telling = sync.telling,
         next.step \in {"change", "commit"}, Change(c, row, next)
  PROVE  MailInv' /\ BornInv' /\ NeedInv'
  <1>1. CASE Dropped /\ RowStays /\ Struck(c)
    <2>1. draft.id \in RemoteId \cup {NoId} /\ remote \in [RemoteId -> Counterpart \cup {Unborn, Gone}]
      BY BaseFacts, RowFields DEF RowsInv
    <2>2. Unborn \notin Counterpart /\ Gone \notin Counterpart
      BY DEF Unborn, Gone, Counterpart, SyncStatus
    <2>3. BornStays
      BY <1>1, <2>1, <2>2 DEF BornStays, Born, Struck
    <2>4. sync.step \in Calling
      BY DEF Calling
    <2> QED
      BY <1>1, <2>3, <2>4, DroppedRows
  <1>2. CASE /\ Born(draft.id) /\ remote' = [remote EXCEPT ![draft.id] = c]
             /\ RowStays /\ ~saved'.fresh
             /\ draft' \in RowOfBundle /\ draft'.fresh /\ draft'.id = row.id
             /\ draft'.status = row.status /\ draft'.title = row.title
             /\ draft'.datasets = row.datasets /\ draft'.linked = row.linked
             /\ draft'.noted = row.noted
             /\ sync' = next /\ UNCHANGED <<outbox, succeeded>>
    <2>1. draft.id \in RemoteId /\ remote \in [RemoteId -> Counterpart \cup {Unborn, Gone}]
      BY <1>2, BaseFacts, ThereIsOne DEF RowsInv
    <2>2. c \in Counterpart /\ Unborn \notin Counterpart /\ Gone \notin Counterpart
      BY <1>2 DEF Unborn, Gone, Counterpart, SyncStatus
    <2>3. MailInv'
      BY <1>2 DEF RowsInv, MailInv, MailAccounted, MailRests, RowStays
    <2>4. BornInv'
      BY <1>2, <2>1, <2>2 DEF RowsInv, BornInv, Born
    <2>5. draft.id # NoId /\ draft.datasets # {}
      BY <2>1, SyncAssumption DEF RowsInv, NeedInv
    <2>6. NeedInv'
      BY <1>2, <2>5 DEF RowsInv, NeedInv, RowStays, Locked
    <2> QED
      BY <2>3, <2>4, <2>6
  <1>3. QED
    BY <1>1, <1>2, ChangeFacts DEF RowsInv

LEMMA SaveRows ==
  ASSUME RowsInv, MailRests, NEW s \in SyncStatus, NEW title \in Title, NEW datasets \in SUBSET Dataset,
         Save(s, title, datasets)
  PROVE  MailInv' /\ BornInv' /\ NeedInv'
  <1>1. /\ UNCHANGED <<saved, remote, outbox, succeeded, missed, unsure>> /\ sync.step = "idle"
        /\ s \in StatusesFrom(saved.status)
        /\ ~MayEdit(s) => title = saved.title /\ datasets = saved.datasets
    BY DEF Save
  <1>2. draft = saved /\ sync = NoRequest
    BY <1>1 DEF RowsInv, BaseInv, Shape
  <1>3. saved.status # "DELETED"
    BY <1>1 DEF StatusesFrom
  <1>4. MailInv'
    BY <1>1, SaveFacts DEF RowsInv, MailInv, MailAccounted, MailRests
  <1>5. BornInv'
    BY <1>1, <1>2, SaveFacts DEF RowsInv, BornInv, Born
  <1>6. Locked' => datasets = saved.datasets
    BY <1>1, SaveFacts DEF RowsInv, Locked, MayEdit
  <1>7. saved.id = NoId <=> saved.datasets = {}
    BY <1>3 DEF RowsInv, NeedInv
  <1>8. NeedInv'
    BY <1>1, <1>6, <1>7, SaveFacts DEF RowsInv, NeedInv
  <1>9. QED
    BY <1>4, <1>5, <1>8

LEMMA CreateRows ==
  ASSUME RowsInv, MailRests, NEW i \in RemoteId, Create(i)
  PROVE  MailInv' /\ BornInv' /\ NeedInv'
  <1> DEFINE c == [state |-> "DRAFT", title |-> draft.title, contents |-> {}]
             row == [draft EXCEPT !.id = i, !.fresh = TRUE]
             next == [sync EXCEPT !.step = "get", !.created = TRUE]
             there == [remote EXCEPT ![i] = c]
  <1>1. /\ c \in Counterpart
        /\ row.id = i /\ row.noted = draft.noted /\ row.status = draft.status
        /\ row.datasets = draft.datasets
        /\ next.step = "get" /\ next.created /\ next.telling = sync.telling
    BY CreateFacts DEF RowsInv
  <1>2. sync.step = "create" /\ remote' = there /\ UNCHANGED <<saved, saves, missed>>
    BY DEF Create
  <1>3. remote \in [RemoteId -> Counterpart \cup {Unborn, Gone}] /\ NoId \notin RemoteId
        /\ Unborn \notin Counterpart /\ Gone \notin Counterpart
    BY BaseFacts, SyncAssumption DEF RowsInv, Unborn, Gone, Counterpart, SyncStatus
  <1>4. draft.id = NoId /\ saved.datasets = {} /\ draft.datasets # {} /\ ~Locked
    BY <1>2 DEF RowsInv, NeedInv, BaseInv, Shape
  <1>5. CASE draft' = row /\ sync' = next /\ UNCHANGED <<outbox, succeeded, unsure>>
    <2> HIDE DEF c, row, next
    <2>1. MailInv'
      BY <1>1, <1>2, <1>5 DEF RowsInv, MailInv, MailAccounted, MailRests
    <2>2. BornInv'
      BY <1>1, <1>2, <1>3, <1>4, <1>5 DEF RowsInv, BornInv, Born
    <2>3. NeedInv'
      BY <1>1, <1>2, <1>4, <1>5 DEF RowsInv, NeedInv, Locked
    <2> QED
      BY <2>1, <2>2, <2>3
  <1>6. CASE Failed(saved) /\ unsure' = unsure \cup {i}
    <2>1. Dropped
      BY <1>2, <1>6, FailedCases DEF Dropped, RowsInv, BaseInv
    <2>2. RowStays
      BY <1>2 DEF RowStays
    <2> HIDE DEF c, row, next
    <2>3. BornStays
      BY <1>2, <1>3, <1>6 DEF BornStays, Born
    <2> QED
      BY <1>2, <2>1, <2>2, <2>3, DroppedRows
  <1>7. QED
    BY <1>5, <1>6 DEF Create

LEMMA ReadRows ==
  ASSUME RowsInv, MailRests, Get \/ GetContents \/ ContentsDone
  PROVE  MailInv' /\ BornInv' /\ NeedInv'
  <1>1. /\ UNCHANGED <<saved, remote, outbox, unsure>>
        /\ draft'.id = draft.id /\ draft'.noted = draft.noted
        /\ draft'.status = draft.status /\ draft'.datasets = draft.datasets
        /\ sync'.created = sync.created /\ sync'.telling = sync.telling
    <2>1. CASE Get
      BY <2>1, GetFacts DEF RowsInv, Get
    <2>2. CASE GetContents
      BY <2>2, GetContentsFacts DEF RowsInv, GetContents
    <2>3. CASE ContentsDone
      BY <2>3, ContentsDoneFacts DEF RowsInv
    <2> QED
      BY <2>1, <2>2, <2>3
  <1>2. MailInv'
    BY <1>1 DEF RowsInv, MailInv, MailAccounted, MailRests
  <1>3. BornInv'
    BY <1>1 DEF RowsInv, BornInv, Born
  <1>4. CASE Get
    <2>1. draft.id # NoId /\ sync.step = "get"
      BY <1>4 DEF Get, Born
    <2>2. sync'.step = IF Locked
                       THEN IF draft.status = remote[draft.id].state THEN "commit" ELSE "state"
                       ELSE IF Emptied THEN "drop"
                       ELSE IF Reconciles(~draft.fresh) THEN "contents" ELSE "metadata"
      BY <1>4, GetFacts DEF RowsInv
    <2>3. Locked' <=> Locked
      BY <1>1 DEF Locked
    <2>4. /\ sync'.step \in {"state", "contents", "metadata"} => draft.datasets # {}
          /\ sync'.step = "drop" => draft.datasets = {}
          /\ sync'.step = "commit" => draft.datasets # {}
          /\ sync'.step \in {"state", "contents", "metadata", "drop", "commit"}
      BY <2>1, <2>2 DEF RowsInv, NeedInv, Emptied
    <2> QED
      BY <1>1, <1>2, <1>3, <2>1, <2>3, <2>4 DEF RowsInv, NeedInv
  <1>5. CASE GetContents \/ ContentsDone
    <2>1. sync.step \in {"contents", "change"} /\ sync'.step \in {"change", "metadata"}
      BY <1>5, GetContentsFacts, ContentsDoneFacts DEF GetContents, RowsInv
    <2> QED
      BY <1>1, <1>2, <1>3, <2>1 DEF RowsInv, NeedInv, Locked
  <1>6. QED
    BY <1>4, <1>5

LEMMA StateRows ==
  ASSUME RowsInv, MailRests, PutState
  PROVE  MailInv' /\ BornInv' /\ NeedInv'
  <1> DEFINE c == [remote[draft.id] EXCEPT !.state = draft.status]
             next == [sync EXCEPT !.step = "commit"]
  <1>1. sync.step = "state" /\ UNCHANGED <<saves, missed, unsure>>
    BY DEF PutState
  <1>2. /\ next \in FormRequest /\ next.created = sync.created /\ next.step = "commit"
        /\ next.telling = sync.telling
    BY BaseFacts, StepType DEF RowsInv, SyncSteps
  <1>3. Born(draft.id) => c \in Counterpart
    BY <1>1, StateCall DEF Forming, RowsInv
  <1>4. CASE draft.fresh
    <2>1. Change(c, draft, next)
      BY <1>4 DEF PutState, Matching
    <2> HIDE DEF c, next
    <2>2. QED
      BY <1>1, <1>2, <1>3, <2>1, BaseFacts, ChangeRows DEF RowsInv
  <1>5. CASE ~draft.fresh
    <2>1. Refused
      BY <1>5 DEF PutState, Matching
    <2>2. QED
      BY <1>1, <2>1, RefusedRows DEF Calling
  <1>6. QED
    BY <1>4, <1>5

LEMMA ContentsRows ==
  ASSUME RowsInv, MailRests, NEW d \in Dataset, AddContent(d) \/ RemoveContent(d)
  PROVE  MailInv' /\ BornInv' /\ NeedInv'
  <1> DEFINE more == remote[draft.id].contents \cup {d}
             less == remote[draft.id].contents \ {d}
             moreC == [remote[draft.id] EXCEPT !.contents = more]
             lessC == [remote[draft.id] EXCEPT !.contents = less]
             row == [draft EXCEPT !.linked = @ \cup {d}]
             added == [sync EXCEPT !.adding = @ \ {d}]
             removed == [sync EXCEPT !.removing = @ \ {d}]
  <1>1. sync.step = "change" /\ UNCHANGED <<saves, missed, unsure>>
        /\ (Change(moreC, row, added) \/ Change(lessC, draft, removed))
    BY DEF AddContent, RemoveContent
  <1>2. /\ added \in FormRequest /\ added.created = sync.created /\ added.step = sync.step
        /\ added.telling = sync.telling
        /\ removed \in FormRequest /\ removed.created = sync.created /\ removed.step = sync.step
        /\ removed.telling = sync.telling
    BY BaseFacts, Done DEF RowsInv
  <1>3. Born(draft.id) => moreC \in Counterpart /\ lessC \in Counterpart
    <2>1. Born(draft.id) => more \in SUBSET Dataset /\ less \in SUBSET Dataset
      BY ThereIsOne DEF Counterpart, RowsInv
    <2> HIDE DEF more, less
    <2> QED
      BY <2>1, ContentsCall DEF RowsInv
  <1>4. /\ row \in RowOfBundle /\ row.id = draft.id /\ row.status = draft.status
        /\ row.datasets = draft.datasets /\ row.noted = draft.noted
    BY BaseFacts, LinkedRow DEF RowsInv
  <1>5. draft \in RowOfBundle
    BY BaseFacts DEF RowsInv
  <1> HIDE DEF moreC, lessC, row, added, removed
  <1>6. CASE Change(moreC, row, added)
    BY <1>1, <1>2, <1>3, <1>4, <1>6, ChangeRows
  <1>7. CASE Change(lessC, draft, removed)
    BY <1>1, <1>2, <1>3, <1>5, <1>7, ChangeRows
  <1>8. QED
    BY <1>1, <1>6, <1>7

LEMMA MetadataRows ==
  ASSUME RowsInv, MailRests, PutMetadata
  PROVE  MailInv' /\ BornInv' /\ NeedInv'
  <1> DEFINE c == [remote[draft.id] EXCEPT !.state = draft.status, !.title = draft.title]
             next == [sync EXCEPT !.step = "commit"]
  <1>1. sync.step = "metadata" /\ UNCHANGED <<saves, missed, unsure>>
    BY DEF PutMetadata
  <1>2. /\ next \in FormRequest /\ next.created = sync.created /\ next.step = "commit"
        /\ next.telling = sync.telling
    BY BaseFacts, StepType DEF RowsInv, SyncSteps
  <1>3. Born(draft.id) => c \in Counterpart
    BY <1>1, MetadataCall DEF Forming, RowsInv
  <1>4. CASE sync' = next /\ UNCHANGED <<saved, draft, remote, outbox, succeeded>>
    <2> HIDE DEF c, next
    <2>1. draft.id # NoId
      BY <1>1 DEF RowsInv, BaseInv, Shape, Calling
    <2>2. MailInv'
      BY <1>1, <1>2, <1>4 DEF RowsInv, MailInv, MailAccounted, MailRests
    <2>3. BornInv'
      BY <1>1, <1>2, <1>4 DEF RowsInv, BornInv, Born
    <2>4. NeedInv'
      BY <1>1, <1>2, <1>4, <2>1 DEF RowsInv, NeedInv, Locked
    <2> QED
      BY <2>2, <2>3, <2>4
  <1>5. CASE draft.fresh /\ Change(c, draft, next)
    <2> HIDE DEF c, next
    <2>1. QED
      BY <1>1, <1>2, <1>3, <1>5, BaseFacts, ChangeRows DEF RowsInv
  <1>6. CASE Refused
    BY <1>1, <1>6, RefusedRows DEF Calling
  <1>7. QED
    BY <1>4, <1>5, <1>6 DEF PutMetadata, Matching

LEMMA DropRows ==
  ASSUME RowsInv, MailRests, Drop \/ DeleteRemote
  PROVE  MailInv' /\ BornInv' /\ NeedInv'
  <1> DEFINE there == [remote EXCEPT ![draft.id] = Gone]
             next == [sync EXCEPT !.step = "commit"]
  <1>1. sync.step \in {"drop", "delete"} /\ UNCHANGED <<saved, saves, missed>> /\ remote' = there
    BY DEF Drop, DeleteRemote
  <1>2. next.created = sync.created /\ next.step = "commit" /\ next.telling = sync.telling
    BY BaseFacts, StepType DEF SyncSteps, RowsInv
  <1>3. /\ draft.id \in RemoteId \cup {NoId} /\ NoId \notin RemoteId
        /\ remote \in [RemoteId -> Counterpart \cup {Unborn, Gone}]
    BY BaseFacts, RowFields, SyncAssumption DEF RowsInv
  <1>4. CASE /\ draft'.id = NoId /\ draft'.noted = draft.noted /\ draft'.status = draft.status
             /\ draft'.datasets = draft.datasets
             /\ sync' = next /\ UNCHANGED <<outbox, succeeded, unsure>>
    <2> HIDE DEF next
    <2>1. MailInv'
      BY <1>1, <1>2, <1>4 DEF RowsInv, MailInv, MailAccounted, MailRests
    <2>2. BornInv'
      BY <1>1, <1>3, <1>4 DEF RowsInv, BornInv, Born
    <2>3. NeedInv'
      BY <1>1, <1>2, <1>4 DEF RowsInv, NeedInv, Locked
    <2> QED
      BY <2>1, <2>2, <2>3
  <1>5. CASE Failed(saved) /\ unsure' = unsure \cup {draft.id}
    <2>1. Dropped
      BY <1>1, <1>5, FailedCases DEF Dropped, RowsInv, BaseInv
    <2>2. RowStays
      BY <1>1 DEF RowStays
    <2>3. BornStays
      BY <1>1, <1>3, <1>5 DEF BornStays, Born
    <2> QED
      BY <1>1, <2>1, <2>2, <2>3, DroppedRows DEF Calling
  <1>6. QED
    <2> DEFINE dropped == [draft EXCEPT !.id = NoId, !.fresh = FALSE]
               deleted == [draft EXCEPT !.id = NoId]
    <2>1. \/ draft' \in {dropped, deleted} /\ sync' = next /\ UNCHANGED <<outbox, succeeded, unsure>>
          \/ Failed(saved) /\ unsure' = unsure \cup {draft.id}
      BY DEF Drop, DeleteRemote
    <2>2. /\ dropped.id = NoId /\ dropped.noted = draft.noted /\ dropped.status = draft.status
          /\ dropped.datasets = draft.datasets
          /\ deleted.id = NoId /\ deleted.noted = draft.noted /\ deleted.status = draft.status
          /\ deleted.datasets = draft.datasets
      BY BaseFacts, UnlinkedRow DEF RowsInv
    <2> HIDE DEF dropped, deleted, next
    <2> QED
      BY <1>4, <1>5, <2>1, <2>2

LEMMA BeginDeleteRows ==
  ASSUME RowsInv, MailRests, BeginDelete
  PROVE  MailInv' /\ BornInv' /\ NeedInv'
  <1> DEFINE step == IF saved.id = NoId THEN "commit" ELSE "delete"
  <1>1. UNCHANGED <<saved, remote, outbox, unsure>> /\ sync.step = "idle"
    BY DEF BeginDelete
  <1>2. /\ draft'.id = saved.id /\ draft'.noted = saved.noted /\ draft'.status = "DELETED"
    BY BaseFacts, UnlinkedRow DEF BeginDelete, RowsInv
  <1>3. sync'.step \in {"commit", "delete"} /\ ~sync'.created /\ sync'.telling = {}
    <2>1. step \in SyncSteps /\ sync' = [NoRequest EXCEPT !.step = step]
          /\ step \in {"commit", "delete"}
      BY DEF BeginDelete, SyncSteps
    <2> HIDE DEF step
    <2> QED
      BY <2>1, NoRequestType, StepType
  <1>4. draft = saved
    BY <1>1 DEF RowsInv, BaseInv, Shape
  <1>5. MailInv'
    BY <1>1, <1>2, <1>3 DEF RowsInv, MailInv, MailAccounted, MailRests
  <1>6. BornInv'
    BY <1>1, <1>2, <1>4 DEF RowsInv, BornInv, Born
  <1>7. NeedInv'
    BY <1>1, <1>2, <1>3 DEF RowsInv, NeedInv
  <1>8. QED
    BY <1>5, <1>6, <1>7

LEMMA EndRows ==
  ASSUME RowsInv, MailRests, Cleanup \/ Abort
  PROVE  MailInv' /\ BornInv' /\ NeedInv'
  <1>1. /\ saved' = saved /\ draft' = saved /\ sync' = NoRequest
        /\ outbox' = outbox
    BY FinishFacts DEF Cleanup, Abort, RowsInv
  <1>2. MailInv'
    BY <1>1, NoRequestType DEF RowsInv, MailInv, MailAccounted, MailRests
  <1>3. NeedInv'
    BY <1>1, NoRequestType DEF RowsInv, NeedInv
  <1>4. remote \in [RemoteId -> Counterpart \cup {Unborn, Gone}] /\ NoId \notin RemoteId
    BY BaseFacts, SyncAssumption DEF RowsInv
  <1>5. CASE Cleanup
    <2>1. sync.step = "cleanup" /\ draft.id # NoId
      BY <1>5 DEF Cleanup, RowsInv, BaseInv, Shape, Calling
    <2>2. saved.id = NoId
      BY <2>1 DEF RowsInv, BaseInv, Shape
    <2>3. BornInv'
      BY <1>1, <1>4, <1>5, <2>1, <2>2 DEF Cleanup, RowsInv, BornInv, Born
    <2> QED
      BY <1>2, <1>3, <2>3
  <1>6. CASE Abort
    <2>1. BornInv'
      BY <1>1, <1>4, <1>6 DEF Abort, RowsInv, BornInv, Born
    <2> QED
      BY <1>2, <1>3, <2>1
  <1>7. QED
    BY <1>5, <1>6

LEMMA CommitRows ==
  ASSUME RowsInv, MailRests, Commit
  PROVE  MailInv' /\ BornInv' /\ NeedInv'
  <1>1. /\ saved' = draft /\ draft' = draft /\ sync' = NoRequest /\ sync.step = "commit"
        /\ outbox' = outbox \cup sync.telling /\ remote' = remote /\ unsure' = unsure
    BY FinishFacts DEF Commit, RowsInv
  <1>2. MailInv'
    BY <1>1, NoRequestType DEF RowsInv, MailInv, MailAccounted, MailRests
  <1>3. BornInv'
    BY <1>1 DEF RowsInv, BornInv, Born
  <1>4. NeedInv'
    BY <1>1, NoRequestType DEF RowsInv, NeedInv
  <1>5. QED
    BY <1>2, <1>3, <1>4

LEMMA MeddleRows ==
  ASSUME RowsInv, MailRests, NEW c \in Counterpart, Meddle(c)
  PROVE  MailInv' /\ BornInv' /\ NeedInv'
  <1>1. /\ UNCHANGED <<sync, outbox, unsure>> /\ Born(draft.id)
        /\ remote' = [remote EXCEPT ![draft.id] = c]
    BY DEF Meddle
  <1>2. /\ saved'.id = saved.id /\ saved'.noted = saved.noted /\ saved'.status = saved.status
        /\ saved'.datasets = saved.datasets
        /\ draft'.id = draft.id /\ draft'.status = draft.status /\ draft'.noted = draft.noted
        /\ draft'.datasets = draft.datasets
    BY BaseFacts, FreshType DEF Meddle, RowsInv
  <1>3. remote \in [RemoteId -> Counterpart \cup {Unborn, Gone}] /\ draft.id \in RemoteId
        /\ Unborn \notin Counterpart /\ Gone \notin Counterpart
    BY <1>1, BaseFacts, ThereIsOne DEF RowsInv, Unborn, Gone, Counterpart, SyncStatus
  <1>4. MailInv'
    BY <1>1, <1>2 DEF RowsInv, MailInv, MailAccounted, MailRests
  <1>5. BornInv'
    BY <1>1, <1>2, <1>3 DEF RowsInv, BornInv, Born
  <1>6. NeedInv'
    BY <1>1, <1>2 DEF RowsInv, NeedInv, Locked
  <1>7. QED
    BY <1>4, <1>5, <1>6

\* A mail leaves the outbox once, for the server or lost.
LEMMA MailStepRows ==
  ASSUME RowsInv, MailStep
  PROVE  MailInv' /\ BornInv' /\ NeedInv'
  <1>1. UNCHANGED <<saved, draft, remote, sync, saves, succeeded, missed, unsure>>
    BY DEF MailStep
  <1>2. PICK t \in PreviewTeam : SendMail(t) \/ MailFails(t)
    BY DEF MailStep, MailNext
  <1>3. /\ mailed \in [PreviewTeam -> Nat] /\ lost \in SUBSET PreviewTeam
        /\ t \in outbox /\ mailed[t] = 0 /\ MailAccounted
    BY <1>2 DEF RowsInv, MailInv, SendMail, MailFails
  <1>4. /\ outbox' = outbox \ {t}
        /\ mailed' \in [PreviewTeam -> Nat] /\ lost' \in SUBSET PreviewTeam
        /\ \A u \in PreviewTeam \ {t} : mailed'[u] = mailed[u] /\ (u \in lost' <=> u \in lost)
        /\ mailed'[t] \in {0, 1} /\ (mailed'[t] = 1 \/ t \in lost')
    BY <1>2, <1>3 DEF SendMail, MailFails
  <1>5. MailAccounted'
    BY <1>1, <1>3, <1>4 DEF MailAccounted
  <1>6. MailInv'
    BY <1>1, <1>4, <1>5 DEF RowsInv, MailInv
  <1>7. BornInv' /\ NeedInv'
    BY <1>1 DEF RowsInv, BornInv, Born, NeedInv, Locked
  <1>8. QED
    BY <1>6, <1>7

LEMMA RowsStep ==
  ASSUME RowsInv, [SyncNext]_syncVars
  PROVE  RowsInv'
  <1> SUFFICES MailInv' /\ BornInv' /\ NeedInv'
    BY BaseStep DEF RowsInv
  <1>1. ASSUME NEW s \in SyncStatus, NEW title \in Title, NEW datasets \in SUBSET Dataset,
               MailRests, Save(s, title, datasets)
        PROVE  MailInv' /\ BornInv' /\ NeedInv'
    BY <1>1, SaveRows
  <1>2. ASSUME NEW i \in RemoteId, MailRests, Create(i) PROVE MailInv' /\ BornInv' /\ NeedInv'
    BY <1>2, CreateRows
  <1>3. ASSUME NEW d \in Dataset, MailRests, AddContent(d) \/ RemoveContent(d)
        PROVE  MailInv' /\ BornInv' /\ NeedInv'
    BY <1>3, ContentsRows
  <1>4. CASE MailRests /\ (CreateFails \/ GetFails \/ RemoteDeleteFails)
    BY <1>4, RefusedRows DEF CreateFails, GetFails, RemoteDeleteFails, Calling
  <1>5. CASE MailRests /\ (Get \/ GetContents \/ ContentsDone)
    BY <1>5, ReadRows
  <1>6. CASE MailRests /\ (PutState \/ PutMetadata)
    BY <1>6, StateRows, MetadataRows
  <1>7. CASE MailRests /\ (Drop \/ DeleteRemote \/ BeginDelete)
    BY <1>7, DropRows, BeginDeleteRows
  <1>8. CASE MailRests /\ (Cleanup \/ Abort \/ Commit)
    BY <1>8, EndRows, CommitRows
  <1>9. ASSUME NEW c \in Counterpart, MailRests, Meddle(c)
        PROVE  MailInv' /\ BornInv' /\ NeedInv'
    BY <1>9, MeddleRows
  <1>10. CASE UNCHANGED syncVars
    BY <1>10 DEF syncVars, RowsInv, MailInv, MailAccounted, BornInv, Born, NeedInv, Locked
  <1>11. CASE MailStep
    BY <1>11, MailStepRows
  <1>12. QED
    BY <1>1, <1>2, <1>3, <1>4, <1>5, <1>6, <1>7, <1>8, <1>9, <1>10, <1>11
    DEF SyncNext, FormNext, MailStep, MailRests

LEMMA RowsInit ==
  ASSUME SyncInit
  PROVE  RowsInv
  <1>1. BaseInv
    BY BaseInit
  <1>2. PICK t \in Title : saved = [status |-> "NEW", title |-> t, datasets |-> {},
                 linked |-> {}, id |-> NoId, fresh |-> FALSE, noted |-> {}]
    BY DEF SyncInit
  <1>3. /\ saved.status = "NEW" /\ saved.id = NoId /\ saved.datasets = {} /\ saved.noted = {}
        /\ draft = saved /\ sync = NoRequest
    BY <1>2 DEF SyncInit
  <1>4. MailInv
    BY <1>3, NoRequestType DEF SyncInit, MailInv, MailAccounted
  <1>5. BornInv
    BY <1>3, SyncAssumption DEF SyncInit, BornInv, Born
  <1>6. NeedInv
    BY <1>3, NoRequestType DEF NeedInv
  <1>7. QED
    BY <1>1, <1>4, <1>5, <1>6 DEF RowsInv

\* Whatever fails where, the row, the request, the counterparts and the mails keep
\* their types (BundleAPISyncService, and the rows it updates).
THEOREM SyncTypes ==
  ASSUME SyncAssumption
  PROVE  SyncSpec => []SyncTypeOK
  <1>1. RowsInv => SyncTypeOK
    BY DEF RowsInv, BaseInv, MailInv, SyncTypeOK
  <1>2. QED
    BY <1>1, RowsInit, RowsStep, PTL DEF SyncSpec

\* Rolled back, killed, or failing to send: no preview team is sent a second review
\* mail or one for a row that is not committed, and a note without a mail means
\* that the mail is due or that its send failed after the commit.
THEOREM MailsAreAccounted ==
  ASSUME SyncAssumption
  PROVE  SyncSpec => []MailAccounted
  <1>1. RowsInv => MailAccounted
    BY DEF RowsInv, MailInv
  <1>2. QED
    BY <1>1, RowsInit, RowsStep, PTL DEF SyncSpec

\* However requests fail, the bundles at the Bundle API whose creation and
\* deletion were heard of are those of the rows.
THEOREM NothingOrphaned ==
  ASSUME SyncAssumption
  PROVE  SyncSpec => []NoOrphans
  <1>1. RowsInv => NoOrphans
    BY DEF RowsInv, BornInv, NoOrphans, BaseInv, Shape
  <1>2. QED
    BY <1>1, RowsInit, RowsStep, PTL DEF SyncSpec

\* However requests fail, a row has a counterpart just when it has datasets.
THEOREM CounterpartsNeeded ==
  ASSUME SyncAssumption
  PROVE  SyncSpec => []CounterpartWhenNeeded
  <1>1. RowsInv => CounterpartWhenNeeded
    BY DEF RowsInv, NeedInv, CounterpartWhenNeeded, SyncStatus
  <1>2. QED
    BY <1>1, RowsInit, RowsStep, PTL DEF SyncSpec

---------------------------------------------------------------------------
(* The counterpart in lockstep                                             *)

LinkInv ==
  /\ saved.linked \subseteq saved.datasets
  /\ draft.linked \subseteq draft.datasets
  /\ sync.step = "change" => sync.adding \subseteq draft.datasets
  /\ sync.step \in {"create", "get"} => draft.linked = saved.linked \cap draft.datasets
  /\ sync.step \in {"get", "state"} /\ Locked =>
       draft.title = saved.title /\ draft.datasets = saved.datasets
  /\ sync.step = "state" => Locked

\* The counterpart is what the row r says.
Like(r) ==
  /\ remote[r.id].state = r.status /\ remote[r.id].title = r.title
  /\ remote[r.id].contents = r.datasets /\ r.linked = r.datasets

\* An ETag that is up to date says that nothing has changed since the last
\* commit, and on the way to the next one each call brings the counterpart
\* nearer to the row of the transaction.
AgreeInv ==
  ~missed =>
    /\ saved.fresh /\ Born(saved.id) => Like(saved)
    /\ sync.step = "idle" /\ succeeded /\ saved.id # NoId => saved.fresh /\ Born(saved.id)
    /\ sync.step = "commit" /\ draft.id # NoId => draft.fresh /\ Born(draft.id) /\ Like(draft)
    /\ sync.step = "get" /\ ~sync.created => draft.fresh = saved.fresh
    /\ sync.step = "state" =>
         /\ remote[draft.id].title = draft.title /\ remote[draft.id].contents = draft.datasets
         /\ draft.linked = draft.datasets
    /\ sync.step \in {"contents", "change", "metadata"} =>
         /\ draft.fresh /\ Born(draft.id)
         /\ sync.seen.state = remote[draft.id].state /\ sync.seen.title = remote[draft.id].title
    /\ sync.step = "change" =>
         /\ remote[draft.id].contents = (draft.datasets \ sync.adding) \cup sync.removing
         /\ draft.datasets = draft.linked \cup sync.adding
         /\ sync.removing \cap draft.datasets = {}
    /\ sync.step = "metadata" =>
         remote[draft.id].contents = draft.datasets /\ draft.linked = draft.datasets

LockstepInv == RowsInv /\ LinkInv /\ AgreeInv

LEMMA DroppedLock ==
  ASSUME LockstepInv, sync.step \in Calling \cup {"create"}, Dropped, RowStays, missed' = missed,
         saved'.fresh /\ Born(saved.id)' =>
           saved' = saved /\ Born(saved.id) /\ remote'[saved.id] = remote[saved.id]
  PROVE  LinkInv' /\ AgreeInv'
  <1>1. sync \in FormRequest /\ "cleanup" \in SyncSteps
    BY BaseFacts DEF LockstepInv, RowsInv, SyncSteps
  <1>2. \/ draft' = draft /\ sync'.step = "cleanup"
        \/ draft' = saved' /\ sync'.step = "idle"
    <2>1. CASE sync.created /\ sync' = [sync EXCEPT !.step = "cleanup"] /\ draft' = draft
      BY <1>1, <2>1, StepType
    <2>2. CASE ~sync.created /\ sync' = NoRequest /\ draft' = saved'
      BY <2>2, NoRequestType
    <2> QED
      BY <2>1, <2>2 DEF Dropped
  <1>3. LinkInv'
    BY <1>2 DEF LockstepInv, LinkInv, RowStays
  <1>4. ~succeeded' /\ saved'.id = saved.id
    BY DEF Dropped, RowStays
  <1>5. AgreeInv'
    <2> SUFFICES ASSUME ~missed', saved'.fresh, Born(saved.id)'
                 PROVE  Like(saved)'
      BY <1>2, <1>4 DEF AgreeInv
    <2>1. saved' = saved /\ Born(saved.id) /\ remote'[saved.id] = remote[saved.id] /\ saved.fresh
      OBVIOUS
    <2>2. Like(saved)
      BY <2>1 DEF LockstepInv, AgreeInv
    <2> QED
      BY <2>1, <2>2 DEF Like
  <1>6. QED
    BY <1>3, <1>5

LEMMA RefusedLock ==
  ASSUME LockstepInv, sync.step \in Calling \cup {"create"}, Refused, missed' = missed
  PROVE  LinkInv' /\ AgreeInv'
  <1>1. Dropped /\ RowStays /\ remote' = remote /\ saved' = saved
    BY RefusedFacts DEF LockstepInv, RowsInv
  <1>2. QED
    BY <1>1, DroppedLock DEF Born

\* A call of which nothing is heard, or that is refused.
LEMMA StruckLock ==
  ASSUME LockstepInv, sync.step \in {"state", "change", "metadata"}, missed' = missed,
         NEW c, Dropped, RowStays, Struck(c)
  PROVE  LinkInv' /\ AgreeInv'
  <1>1. saved'.fresh => saved' = saved /\ remote' = remote
    BY DEF Struck
  <1>2. QED
    BY <1>1, DroppedLock DEF Born, Calling

LEMMA SaveLock ==
  ASSUME LockstepInv, NEW s \in SyncStatus, NEW title \in Title, NEW datasets \in SUBSET Dataset,
         Save(s, title, datasets)
  PROVE  LinkInv' /\ AgreeInv'
  <1>1. /\ UNCHANGED <<saved, remote, missed, succeeded>> /\ sync.step = "idle"
        /\ ~MayEdit(s) => title = saved.title /\ datasets = saved.datasets
    BY DEF Save
  <1>2. Locked' => title = saved.title /\ datasets = saved.datasets
    BY <1>1, SaveFacts DEF LockstepInv, RowsInv, Locked, MayEdit
  <1>3. LinkInv'
    BY <1>1, <1>2, SaveFacts DEF LockstepInv, RowsInv, LinkInv
  <1>4. sync'.step \in {"get", "create", "commit"} /\ (sync'.step = "commit" => draft'.id = NoId)
        /\ draft'.fresh = saved.fresh
    BY SaveFacts DEF LockstepInv, RowsInv
  <1>5. AgreeInv'
    BY <1>1, <1>4 DEF LockstepInv, AgreeInv, Like, Born
  <1>6. QED
    BY <1>3, <1>5

LEMMA CreateLock ==
  ASSUME LockstepInv, NEW i \in RemoteId, Create(i)
  PROVE  LinkInv' /\ AgreeInv'
  <1> DEFINE row == [draft EXCEPT !.id = i, !.fresh = TRUE]
             next == [sync EXCEPT !.step = "get", !.created = TRUE]
  <1>1. /\ row.status = draft.status /\ row.datasets = draft.datasets
        /\ row.linked = draft.linked /\ row.title = draft.title
        /\ next.step = "get" /\ next.created
    BY CreateFacts DEF LockstepInv, RowsInv
  <1>2. sync.step = "create" /\ UNCHANGED <<saved, saves, missed>>
    BY DEF Create
  <1>3. saved.id = NoId /\ ~Locked /\ ~Born(saved.id) /\ ~Born(saved.id)'
    BY <1>2 DEF LockstepInv, RowsInv, NeedInv, BaseInv, Shape, Born
  <1>4. CASE draft' = row /\ sync' = next
    <2> HIDE DEF row, next
    <2>1. ~Locked'
      BY <1>1, <1>3, <1>4 DEF Locked
    <2>2. LinkInv'
      BY <1>1, <1>2, <1>4, <2>1 DEF LockstepInv, LinkInv
    <2>3. AgreeInv'
      BY <1>1, <1>2, <1>3, <1>4 DEF AgreeInv
    <2> QED
      BY <2>2, <2>3
  <1>5. CASE Failed(saved)
    <2>1. Dropped /\ RowStays
      BY <1>2, <1>5, FailedCases DEF Dropped, RowStays, LockstepInv, RowsInv, BaseInv
    <2> QED
      BY <1>2, <1>3, <2>1, DroppedLock
  <1>6. QED
    BY <1>4, <1>5 DEF Create

LEMMA GetLock ==
  ASSUME LockstepInv, Get
  PROVE  LinkInv' /\ AgreeInv'
  <1>1. /\ sync.step = "get" /\ UNCHANGED <<saved, remote, succeeded>>
        /\ missed' = (missed \/ (Locked /\ ~draft.fresh))
    BY DEF Get
  <1>2. /\ Born(draft.id) /\ draft'.fresh
        /\ draft'.id = draft.id /\ draft'.status = draft.status /\ draft'.title = draft.title
        /\ draft'.datasets = draft.datasets /\ draft'.linked = draft.linked
        /\ sync'.created = sync.created /\ sync'.seen = remote[draft.id]
        /\ sync'.step \in {"commit", "state", "drop", "contents", "metadata"}
        /\ sync'.step = IF Locked
                        THEN IF draft.status = remote[draft.id].state THEN "commit" ELSE "state"
                        ELSE IF Emptied THEN "drop"
                        ELSE IF Reconciles(~draft.fresh) THEN "contents" ELSE "metadata"
    BY GetFacts DEF LockstepInv, RowsInv
  <1>3. /\ ~sync.created => draft.id = saved.id
        /\ sync.created => saved.datasets = {} /\ draft.datasets # {} /\ ~Locked
    BY <1>1 DEF LockstepInv, RowsInv, NeedInv, BaseInv, Shape
  <1>4. Locked' <=> Locked
    BY <1>2 DEF Locked
  <1>5. LinkInv'
    <2>1. sync'.step = "state" => Locked
      BY <1>2
    <2>2. saved.linked \subseteq saved.datasets /\ draft.linked \subseteq draft.datasets
          /\ (Locked => draft.title = saved.title /\ draft.datasets = saved.datasets)
      BY <1>1 DEF LockstepInv, LinkInv
    <2> QED
      BY <1>1, <1>2, <1>4, <2>1, <2>2 DEF LinkInv
  <1>6. AgreeInv'
    <2> SUFFICES ASSUME ~missed' PROVE AgreeInv'
      BY DEF AgreeInv
    <2>1. ~missed /\ (Locked => draft.fresh)
      BY <1>1
    <2>2. ~sync.created /\ draft.fresh => Like(saved)
      BY <1>1, <1>2, <1>3, <2>1 DEF LockstepInv, AgreeInv
    <2>3. draft.linked = saved.linked \cap draft.datasets
      BY <1>1 DEF LockstepInv, LinkInv
    <2>4. CASE Locked
      <3>1. ~sync.created /\ Like(saved) /\ draft.id = saved.id
        BY <1>3, <2>1, <2>2, <2>4
      <3>2. draft.title = saved.title /\ draft.datasets = saved.datasets
        BY <1>1, <2>4 DEF LockstepInv, LinkInv
      <3>3. /\ remote[draft.id].title = draft.title
            /\ remote[draft.id].contents = draft.datasets /\ draft.linked = draft.datasets
        BY <2>3, <3>1, <3>2 DEF Like
      <3>4. \/ sync'.step = "commit" /\ draft.status = remote[draft.id].state
            \/ sync'.step = "state"
        BY <1>2, <2>4
      <3>5. Born(draft.id)' /\ (sync'.step = "commit" => Like(draft)')
        BY <1>1, <1>2, <3>3, <3>4 DEF Like, Born
      <3>6. saved'.fresh /\ Born(saved.id)' => Like(saved)'
        BY <1>1, <3>1 DEF Like
      <3> QED
        BY <1>1, <1>2, <3>3, <3>4, <3>5, <3>6 DEF AgreeInv
    <2>5. CASE ~Locked
      <3>1. sync'.step \in {"drop", "contents", "metadata"}
        BY <1>2, <2>5
      <3>2. saved'.fresh /\ Born(saved.id)' => Like(saved)'
        BY <1>1, <2>1 DEF LockstepInv, AgreeInv, Like, Born
      <3>3. sync'.step = "metadata" =>
              remote[draft.id].contents = draft.datasets /\ draft.linked = draft.datasets
        <4> SUFFICES ASSUME sync'.step = "metadata"
                     PROVE  remote[draft.id].contents = draft.datasets /\ draft.linked = draft.datasets
          OBVIOUS
        <4>1. ~Reconciles(~draft.fresh)
          BY <1>2, <2>5
        <4>2. draft.fresh /\ saved.datasets \ draft.datasets = {}
              /\ draft.datasets \ draft.linked = {}
          BY <4>1 DEF Reconciles, Drifted
        <4>3. saved.linked \subseteq saved.datasets
          BY DEF LockstepInv, LinkInv
        <4>4. ~sync.created
          BY <1>3, <2>3, <4>2, <4>3
        <4>5. Like(saved) /\ draft.id = saved.id
          BY <1>3, <2>2, <4>2, <4>4
        <4> QED
          BY <2>3, <4>2, <4>3, <4>5 DEF Like
      <3> QED
        BY <1>1, <1>2, <3>1, <3>2, <3>3 DEF AgreeInv, Born
    <2>6. QED
      BY <2>4, <2>5
  <1>7. QED
    BY <1>5, <1>6

LEMMA StateLock ==
  ASSUME LockstepInv, PutState
  PROVE  LinkInv' /\ AgreeInv'
  <1> DEFINE c == [remote[draft.id] EXCEPT !.state = draft.status]
             next == [sync EXCEPT !.step = "commit"]
  <1>1. sync.step = "state" /\ UNCHANGED <<saves, missed, unsure>>
    BY DEF PutState
  <1>2. next.step = "commit"
    BY BaseFacts, StepType DEF LockstepInv, RowsInv, SyncSteps
  <1>3. Born(draft.id) => /\ c \in Counterpart /\ c.state = draft.status
                          /\ c.title = remote[draft.id].title
                          /\ c.contents = remote[draft.id].contents
    BY <1>1, StateCall DEF Forming, LockstepInv, RowsInv
  <1>4. CASE Change(c, draft, next)
    <2>1. draft \in RowOfBundle
      BY BaseFacts DEF LockstepInv, RowsInv
    <2>2. remote \in [RemoteId -> Counterpart \cup {Unborn, Gone}]
      BY BaseFacts DEF LockstepInv, RowsInv
    <2> HIDE DEF c, next
    <2>3. CASE Dropped /\ RowStays /\ Struck(c)
      BY <1>1, <2>3, StruckLock
    <2>4. CASE /\ Born(draft.id) /\ remote' = [remote EXCEPT ![draft.id] = c]
               /\ RowStays /\ ~saved'.fresh
               /\ draft' \in RowOfBundle /\ draft'.fresh /\ draft'.id = draft.id
               /\ draft'.status = draft.status /\ draft'.title = draft.title
               /\ draft'.datasets = draft.datasets /\ draft'.linked = draft.linked
               /\ draft'.noted = draft.noted
               /\ sync' = next /\ UNCHANGED <<outbox, succeeded>>
      <3>1. draft.id \in RemoteId
        BY <2>4, ThereIsOne DEF LockstepInv, RowsInv
      <3>2. remote'[draft.id] = c
        BY <2>2, <2>4, <3>1
      <3>3. Born(draft.id)'
        BY <1>3, <2>4, <3>2 DEF Born, Unborn, Gone, Counterpart, SyncStatus
      <3>4. LinkInv'
        BY <1>2, <2>4 DEF LockstepInv, LinkInv, RowStays
      <3>5. AgreeInv'
        BY <1>1, <1>2, <1>3, <2>4, <3>2, <3>3 DEF LockstepInv, AgreeInv, Like
      <3> QED
        BY <3>4, <3>5
    <2>5. QED
      BY <1>3, <1>4, <2>1, <2>3, <2>4, ChangeFacts DEF LockstepInv, RowsInv
  <1>5. CASE Refused
    BY <1>1, <1>5, RefusedLock DEF Calling
  <1>6. QED
    BY <1>4, <1>5 DEF PutState, Matching

LEMMA AddLock ==
  ASSUME LockstepInv, NEW d \in Dataset, AddContent(d)
  PROVE  LinkInv' /\ AgreeInv'
  <1> DEFINE contents == remote[draft.id].contents \cup {d}
             c == [remote[draft.id] EXCEPT !.contents = contents]
             row == [draft EXCEPT !.linked = @ \cup {d}]
             next == [sync EXCEPT !.adding = @ \ {d}]
  <1>1. /\ sync.step = "change" /\ UNCHANGED <<saves, missed, unsure>> /\ Change(c, row, next)
        /\ d \in sync.adding
    BY DEF AddContent
  <1>2. /\ next.step = "change" /\ next.seen = sync.seen /\ next.removing = sync.removing
        /\ next.adding = sync.adding \ {d}
    BY <1>1, BaseFacts, Done DEF LockstepInv, RowsInv
  <1>3. Born(draft.id) => /\ c \in Counterpart /\ c.state = remote[draft.id].state
                          /\ c.title = remote[draft.id].title
                          /\ c.contents = remote[draft.id].contents \cup {d}
    <2>1. Born(draft.id) => contents \in SUBSET Dataset
      BY ThereIsOne DEF Counterpart, LockstepInv, RowsInv
    <2>2. Born(draft.id) => /\ c \in Counterpart /\ c.state = remote[draft.id].state
                            /\ c.title = remote[draft.id].title /\ c.contents = contents
      <3> HIDE DEF contents
      <3> QED
        BY <2>1, ContentsCall DEF LockstepInv, RowsInv
    <2> QED
      BY <2>2
  <1>4. /\ row \in RowOfBundle /\ row.id = draft.id /\ row.status = draft.status
        /\ row.title = draft.title /\ row.datasets = draft.datasets
        /\ row.linked = draft.linked \cup {d}
    BY BaseFacts, LinkedRow DEF LockstepInv, RowsInv
  <1>5. remote \in [RemoteId -> Counterpart \cup {Unborn, Gone}]
    BY BaseFacts DEF LockstepInv, RowsInv
  <1> HIDE DEF c, row, next
  <1>6. CASE Dropped /\ RowStays /\ Struck(c)
    BY <1>1, <1>6, StruckLock
  <1>7. CASE /\ Born(draft.id) /\ remote' = [remote EXCEPT ![draft.id] = c]
             /\ RowStays /\ ~saved'.fresh
             /\ draft' \in RowOfBundle /\ draft'.fresh /\ draft'.id = row.id
             /\ draft'.status = row.status /\ draft'.title = row.title
             /\ draft'.datasets = row.datasets /\ draft'.linked = row.linked
             /\ draft'.noted = row.noted
             /\ sync' = next /\ UNCHANGED <<outbox, succeeded>>
    <2>1. draft.id \in RemoteId
      BY <1>7, ThereIsOne DEF LockstepInv, RowsInv
    <2>2. remote'[draft.id] = c
      BY <1>5, <1>7, <2>1
    <2>3. Born(draft.id)'
      BY <1>3, <1>4, <1>7, <2>2 DEF Born, Unborn, Gone, Counterpart, SyncStatus
    <2>4. LinkInv'
      BY <1>1, <1>2, <1>4, <1>7 DEF LockstepInv, LinkInv, RowStays
    <2>5. d \in draft.datasets
      BY <1>1 DEF LockstepInv, LinkInv
    <2>6. AgreeInv'
      <3> SUFFICES ASSUME ~missed PROVE AgreeInv'
        BY <1>1 DEF AgreeInv
      <3>1. /\ draft.fresh
            /\ sync.seen.state = remote[draft.id].state /\ sync.seen.title = remote[draft.id].title
            /\ remote[draft.id].contents = (draft.datasets \ sync.adding) \cup sync.removing
            /\ draft.datasets = draft.linked \cup sync.adding
            /\ sync.removing \cap draft.datasets = {}
        BY <1>1 DEF LockstepInv, AgreeInv
      <3>2. draft'.id = draft.id /\ draft'.datasets = draft.datasets /\ sync'.step = "change"
        BY <1>2, <1>4, <1>7
      <3>3. remote'[draft'.id].state = sync'.seen.state /\ remote'[draft'.id].title = sync'.seen.title
        BY <1>2, <1>3, <1>7, <2>2, <3>1, <3>2
      <3>4. remote'[draft'.id].contents = (draft.datasets \ sync'.adding) \cup sync'.removing
        BY <1>1, <1>2, <1>3, <1>7, <2>2, <2>5, <3>1, <3>2
      <3>5. draft'.datasets = draft'.linked \cup sync'.adding
            /\ sync'.removing \cap draft'.datasets = {}
        BY <1>1, <1>2, <1>4, <1>7, <2>5, <3>1, <3>2
      <3> QED
        BY <1>7, <2>3, <3>2, <3>3, <3>4, <3>5 DEF AgreeInv
    <2> QED
      BY <2>4, <2>6
  <1>8. QED
    BY <1>1, <1>3, <1>4, <1>6, <1>7, ChangeFacts DEF LockstepInv, RowsInv

LEMMA RemoveLock ==
  ASSUME LockstepInv, NEW d \in Dataset, RemoveContent(d)
  PROVE  LinkInv' /\ AgreeInv'
  <1> DEFINE contents == remote[draft.id].contents \ {d}
             c == [remote[draft.id] EXCEPT !.contents = contents]
             next == [sync EXCEPT !.removing = @ \ {d}]
  <1>1. /\ sync.step = "change" /\ UNCHANGED <<saves, missed, unsure>> /\ Change(c, draft, next)
        /\ d \in sync.removing
    BY DEF RemoveContent
  <1>2. /\ next.step = "change" /\ next.seen = sync.seen /\ next.adding = sync.adding
        /\ next.removing = sync.removing \ {d}
    BY <1>1, BaseFacts, Done DEF LockstepInv, RowsInv
  <1>3. Born(draft.id) => /\ c \in Counterpart /\ c.state = remote[draft.id].state
                          /\ c.title = remote[draft.id].title
                          /\ c.contents = remote[draft.id].contents \ {d}
    <2>1. Born(draft.id) => contents \in SUBSET Dataset
      BY ThereIsOne DEF Counterpart, LockstepInv, RowsInv
    <2>2. Born(draft.id) => /\ c \in Counterpart /\ c.state = remote[draft.id].state
                            /\ c.title = remote[draft.id].title /\ c.contents = contents
      <3> HIDE DEF contents
      <3> QED
        BY <2>1, ContentsCall DEF LockstepInv, RowsInv
    <2> QED
      BY <2>2
  <1>4. draft \in RowOfBundle
    BY BaseFacts DEF LockstepInv, RowsInv
  <1>5. remote \in [RemoteId -> Counterpart \cup {Unborn, Gone}]
    BY BaseFacts DEF LockstepInv, RowsInv
  <1> HIDE DEF c, next
  <1>6. CASE Dropped /\ RowStays /\ Struck(c)
    BY <1>1, <1>6, StruckLock
  <1>7. CASE /\ Born(draft.id) /\ remote' = [remote EXCEPT ![draft.id] = c]
             /\ RowStays /\ ~saved'.fresh
             /\ draft' \in RowOfBundle /\ draft'.fresh /\ draft'.id = draft.id
             /\ draft'.status = draft.status /\ draft'.title = draft.title
             /\ draft'.datasets = draft.datasets /\ draft'.linked = draft.linked
             /\ draft'.noted = draft.noted
             /\ sync' = next /\ UNCHANGED <<outbox, succeeded>>
    <2>1. draft.id \in RemoteId
      BY <1>7, ThereIsOne DEF LockstepInv, RowsInv
    <2>2. remote'[draft.id] = c
      BY <1>5, <1>7, <2>1
    <2>3. Born(draft.id)'
      BY <1>3, <1>7, <2>2 DEF Born, Unborn, Gone, Counterpart, SyncStatus
    <2>4. LinkInv'
      BY <1>1, <1>2, <1>7 DEF LockstepInv, LinkInv, RowStays
    <2>5. ~missed => d \notin draft.datasets
      BY <1>1 DEF LockstepInv, AgreeInv
    <2>6. AgreeInv'
      <3> SUFFICES ASSUME ~missed PROVE AgreeInv'
        BY <1>1 DEF AgreeInv
      <3>1. /\ draft.fresh
            /\ sync.seen.state = remote[draft.id].state /\ sync.seen.title = remote[draft.id].title
            /\ remote[draft.id].contents = (draft.datasets \ sync.adding) \cup sync.removing
            /\ draft.datasets = draft.linked \cup sync.adding
            /\ sync.removing \cap draft.datasets = {}
        BY <1>1 DEF LockstepInv, AgreeInv
      <3>2. draft'.id = draft.id /\ draft'.datasets = draft.datasets /\ sync'.step = "change"
        BY <1>2, <1>7
      <3>3. remote'[draft'.id].state = sync'.seen.state /\ remote'[draft'.id].title = sync'.seen.title
        BY <1>2, <1>3, <1>7, <2>2, <3>1, <3>2
      <3>4. remote'[draft'.id].contents = (draft.datasets \ sync'.adding) \cup sync'.removing
        BY <1>1, <1>2, <1>3, <1>7, <2>2, <2>5, <3>1, <3>2
      <3>5. draft'.datasets = draft'.linked \cup sync'.adding
            /\ sync'.removing \cap draft'.datasets = {}
        BY <1>1, <1>2, <1>7, <2>5, <3>1, <3>2
      <3> QED
        BY <1>7, <2>3, <3>2, <3>3, <3>4, <3>5 DEF AgreeInv
    <2> QED
      BY <2>4, <2>6
  <1>8. QED
    BY <1>1, <1>3, <1>4, <1>6, <1>7, ChangeFacts DEF LockstepInv, RowsInv

LEMMA MetadataLock ==
  ASSUME LockstepInv, PutMetadata
  PROVE  LinkInv' /\ AgreeInv'
  <1> DEFINE c == [remote[draft.id] EXCEPT !.state = draft.status, !.title = draft.title]
             next == [sync EXCEPT !.step = "commit"]
  <1>1. sync.step = "metadata" /\ UNCHANGED <<saves, missed, unsure>>
    BY DEF PutMetadata
  <1>2. next.step = "commit"
    BY BaseFacts, StepType DEF LockstepInv, RowsInv, SyncSteps
  <1>3. Born(draft.id) => /\ c \in Counterpart /\ c.state = draft.status
                          /\ c.title = draft.title
                          /\ c.contents = remote[draft.id].contents
    BY <1>1, MetadataCall DEF Forming, LockstepInv, RowsInv
  <1>4. draft \in RowOfBundle /\ remote \in [RemoteId -> Counterpart \cup {Unborn, Gone}]
    BY BaseFacts DEF LockstepInv, RowsInv
  <1>5. CASE /\ sync.seen.state = draft.status /\ sync.seen.title = draft.title
             /\ sync' = next /\ UNCHANGED <<saved, draft, remote, outbox, succeeded>>
    <2> HIDE DEF c, next
    <2>1. LinkInv'
      BY <1>2, <1>5 DEF LockstepInv, LinkInv
    <2>2. AgreeInv'
      BY <1>1, <1>2, <1>5 DEF LockstepInv, AgreeInv, Like, Born
    <2> QED
      BY <2>1, <2>2
  <1>6. CASE Change(c, draft, next)
    <2> HIDE DEF c, next
    <2>1. CASE Dropped /\ RowStays /\ Struck(c)
      BY <1>1, <2>1, StruckLock
    <2>2. CASE /\ Born(draft.id) /\ remote' = [remote EXCEPT ![draft.id] = c]
               /\ RowStays /\ ~saved'.fresh
               /\ draft' \in RowOfBundle /\ draft'.fresh /\ draft'.id = draft.id
               /\ draft'.status = draft.status /\ draft'.title = draft.title
               /\ draft'.datasets = draft.datasets /\ draft'.linked = draft.linked
               /\ draft'.noted = draft.noted
               /\ sync' = next /\ UNCHANGED <<outbox, succeeded>>
      <3>1. draft.id \in RemoteId
        BY <2>2, ThereIsOne DEF LockstepInv, RowsInv
      <3>2. remote'[draft.id] = c
        BY <1>4, <2>2, <3>1
      <3>3. Born(draft.id)'
        BY <1>3, <2>2, <3>2 DEF Born, Unborn, Gone, Counterpart, SyncStatus
      <3>4. LinkInv'
        BY <1>2, <2>2 DEF LockstepInv, LinkInv, RowStays
      <3>5. AgreeInv'
        BY <1>1, <1>2, <1>3, <2>2, <3>2, <3>3 DEF LockstepInv, AgreeInv, Like
      <3> QED
        BY <3>4, <3>5
    <2>3. QED
      BY <1>3, <1>4, <1>6, <2>1, <2>2, ChangeFacts DEF LockstepInv, RowsInv
  <1>7. CASE Refused
    BY <1>1, <1>7, RefusedLock DEF Calling
  <1>8. QED
    BY <1>5, <1>6, <1>7 DEF PutMetadata, Matching

LEMMA ContentsLock ==
  ASSUME LockstepInv, GetContents \/ ContentsDone
  PROVE  LinkInv' /\ AgreeInv'
  <1>1. CASE GetContents
    <2>1. sync.step = "contents" /\ UNCHANGED <<saved, remote, succeeded, missed>>
      BY <1>1 DEF GetContents
    <2>2. /\ draft'.fresh = draft.fresh
          /\ draft'.id = draft.id /\ draft'.status = draft.status /\ draft'.title = draft.title
          /\ draft'.datasets = draft.datasets
          /\ draft'.linked = draft.linked \cup (draft.datasets \cap remote[draft.id].contents)
          /\ sync'.seen = sync.seen /\ sync'.step = "change"
          /\ sync'.adding = draft.datasets \ remote[draft.id].contents
          /\ sync'.removing = remote[draft.id].contents \ draft.datasets
      BY <1>1, GetContentsFacts DEF LockstepInv, RowsInv
    <2>3. LinkInv'
      BY <2>1, <2>2 DEF LockstepInv, LinkInv
    <2>4. draft.linked \subseteq draft.datasets
      BY DEF LockstepInv, LinkInv
    <2>5. AgreeInv'
      <3> SUFFICES ASSUME ~missed PROVE AgreeInv'
        BY <2>1 DEF AgreeInv
      <3>1. saved'.fresh /\ Born(saved.id)' => Like(saved)'
        BY <2>1 DEF LockstepInv, AgreeInv, Like, Born
      <3>2. /\ draft.fresh /\ Born(draft.id)
            /\ sync.seen.state = remote[draft.id].state /\ sync.seen.title = remote[draft.id].title
        BY <2>1 DEF LockstepInv, AgreeInv
      <3>3. Born(draft.id)'
        BY <2>1, <2>2, <3>2 DEF Born
      <3>4. /\ remote[draft.id].contents = (draft.datasets \ sync'.adding) \cup sync'.removing
            /\ draft.datasets = draft'.linked \cup sync'.adding
            /\ sync'.removing \cap draft.datasets = {}
        BY <2>2, <2>4
      <3> QED
        BY <2>1, <2>2, <3>1, <3>2, <3>3, <3>4 DEF AgreeInv
    <2> QED
      BY <2>3, <2>5
  <1>2. CASE ContentsDone
    <2>1. /\ sync'.step = "metadata" /\ sync'.seen = sync.seen
          /\ sync.adding = {} /\ sync.removing = {} /\ sync.step = "change"
          /\ UNCHANGED <<saved, draft, remote, succeeded, missed>>
      BY <1>2, ContentsDoneFacts DEF LockstepInv, RowsInv
    <2>2. LinkInv'
      BY <2>1 DEF LockstepInv, LinkInv
    <2>3. AgreeInv'
      BY <2>1 DEF LockstepInv, AgreeInv, Like, Born
    <2> QED
      BY <2>2, <2>3
  <1>3. QED
    BY <1>1, <1>2

LEMMA DropLock ==
  ASSUME LockstepInv, Drop \/ DeleteRemote
  PROVE  LinkInv' /\ AgreeInv'
  <1> DEFINE dropped == [draft EXCEPT !.id = NoId, !.fresh = FALSE]
             deleted == [draft EXCEPT !.id = NoId]
             next == [sync EXCEPT !.step = "commit"]
  <1>1. /\ sync.step \in {"drop", "delete"} /\ UNCHANGED <<saved, saves, missed>>
        /\ remote' = [remote EXCEPT ![draft.id] = Gone]
        /\ \/ draft' \in {dropped, deleted} /\ sync' = next /\ UNCHANGED succeeded
           \/ Failed(saved)
    BY DEF Drop, DeleteRemote
  <1>2. next.step = "commit"
    BY BaseFacts, StepType DEF LockstepInv, RowsInv, SyncSteps
  <1>3. /\ dropped.id = NoId /\ dropped.datasets = draft.datasets /\ dropped.linked = draft.linked
        /\ deleted.id = NoId /\ deleted.datasets = draft.datasets /\ deleted.linked = draft.linked
    BY BaseFacts, UnlinkedRow DEF LockstepInv, RowsInv
  <1>4. ~Born(saved.id)'
    <2>1. saved.id = NoId \/ saved.id = draft.id
      BY <1>1 DEF LockstepInv, RowsInv, BaseInv, Shape
    <2>2. remote \in [RemoteId -> Counterpart \cup {Unborn, Gone}]
          /\ saved.id \in RemoteId \cup {NoId}
      BY BaseFacts, RowFields DEF LockstepInv, RowsInv
    <2> QED
      BY <1>1, <2>1, <2>2 DEF Born
  <1> HIDE DEF dropped, deleted, next
  <1>5. CASE draft' \in {dropped, deleted} /\ sync' = next /\ UNCHANGED succeeded
    <2>1. LinkInv'
      BY <1>1, <1>2, <1>3, <1>5 DEF LockstepInv, LinkInv
    <2>2. AgreeInv'
      BY <1>1, <1>2, <1>3, <1>4, <1>5 DEF AgreeInv
    <2> QED
      BY <2>1, <2>2
  <1>6. CASE Failed(saved)
    <2>1. Dropped /\ RowStays
      BY <1>1, <1>6, FailedCases DEF Dropped, RowStays, LockstepInv, RowsInv, BaseInv
    <2>2. saved'.id = saved.id
      BY <2>1 DEF RowStays
    <2> QED
      BY <1>1, <1>4, <2>1, <2>2, DroppedLock DEF Calling
  <1>7. QED
    BY <1>1, <1>5, <1>6

LEMMA BeginDeleteLock ==
  ASSUME LockstepInv, BeginDelete
  PROVE  LinkInv' /\ AgreeInv'
  <1> DEFINE step == IF saved.id = NoId THEN "commit" ELSE "delete"
  <1>1. UNCHANGED <<saved, remote, succeeded, missed>>
    BY DEF BeginDelete
  <1>2. draft'.id = saved.id /\ draft'.linked = saved.linked /\ draft'.datasets = saved.datasets
    BY BaseFacts, UnlinkedRow DEF BeginDelete, LockstepInv, RowsInv
  <1>3. sync'.step = IF saved.id = NoId THEN "commit" ELSE "delete"
    <2>1. step \in SyncSteps /\ sync' = [NoRequest EXCEPT !.step = step]
      BY DEF BeginDelete, SyncSteps
    <2>2. sync'.step = step
      <3> HIDE DEF step
      <3> QED
        BY <2>1, NoRequestType, StepType
    <2> QED
      BY <2>2
  <1>4. LinkInv'
    BY <1>1, <1>2, <1>3 DEF LockstepInv, LinkInv
  <1>5. AgreeInv'
    BY <1>1, <1>2, <1>3 DEF LockstepInv, AgreeInv, Like, Born
  <1>6. QED
    BY <1>4, <1>5

LEMMA EndLock ==
  ASSUME LockstepInv, Cleanup \/ Abort
  PROVE  LinkInv' /\ AgreeInv'
  <1>1. /\ saved' = saved /\ draft' = saved /\ sync' = NoRequest /\ missed' = missed
    BY FinishFacts DEF Cleanup, Abort, LockstepInv, RowsInv
  <1>2. succeeded' => saved.id = NoId
    BY DEF Cleanup, Abort, LockstepInv, RowsInv, BaseInv, Shape
  <1>3. saved.fresh /\ Born(saved.id)' => remote'[saved.id] = remote[saved.id] /\ Born(saved.id)
    <2>1. Cleanup => saved.id = NoId
      BY DEF Cleanup, LockstepInv, RowsInv, BaseInv, Shape
    <2>2. Abort => remote' = remote
      BY DEF Abort
    <2> QED
      BY <1>1, <2>1, <2>2 DEF Born
  <1>4. LinkInv'
    BY <1>1, NoRequestType DEF LockstepInv, LinkInv
  <1>5. AgreeInv'
    BY <1>1, <1>2, <1>3, NoRequestType DEF LockstepInv, AgreeInv, Like
  <1>6. QED
    BY <1>4, <1>5

LEMMA CommitLock ==
  ASSUME LockstepInv, Commit
  PROVE  LinkInv' /\ AgreeInv'
  <1>1. /\ saved' = draft /\ draft' = draft /\ sync' = NoRequest /\ sync.step = "commit"
        /\ remote' = remote /\ missed' = missed
    BY FinishFacts DEF Commit, LockstepInv, RowsInv
  <1>2. LinkInv'
    BY <1>1, NoRequestType DEF LockstepInv, LinkInv
  <1>3. AgreeInv'
    <2>1. ~missed /\ draft.id # NoId => draft.fresh /\ Born(draft.id) /\ Like(draft)
      BY <1>1 DEF LockstepInv, AgreeInv
    <2>2. Born(draft.id) => draft.id # NoId
      BY DEF Born
    <2>3. (Born(saved.id)' <=> Born(draft.id)) /\ (Like(saved)' <=> Like(draft))
      BY <1>1 DEF Born, Like
    <2> QED
      BY <1>1, <2>1, <2>2, <2>3, NoRequestType DEF AgreeInv
  <1>4. QED
    BY <1>2, <1>3

LEMMA MeddleLock ==
  ASSUME LockstepInv, NEW c \in Counterpart, Meddle(c)
  PROVE  LinkInv' /\ AgreeInv'
  <1>1. /\ sync' = sync /\ ~succeeded' /\ missed' = (missed \/ sync.step # "idle")
    BY DEF Meddle
  <1>2. /\ saved'.id = saved.id /\ saved'.title = saved.title /\ ~saved'.fresh
        /\ saved'.datasets = saved.datasets /\ saved'.linked = saved.linked
        /\ draft'.status = draft.status /\ draft'.title = draft.title
        /\ draft'.datasets = draft.datasets /\ draft'.linked = draft.linked
    BY BaseFacts, FreshType DEF Meddle, LockstepInv, RowsInv
  <1>3. LinkInv'
    BY <1>1, <1>2 DEF LockstepInv, LinkInv, Locked
  <1>4. AgreeInv'
    BY <1>1, <1>2 DEF AgreeInv
  <1>5. QED
    BY <1>3, <1>4

LEMMA LockstepStep ==
  ASSUME LockstepInv, [SyncNext]_syncVars
  PROVE  LockstepInv'
  <1> SUFFICES LinkInv' /\ AgreeInv'
    BY RowsStep DEF LockstepInv
  <1>1. ASSUME NEW s \in SyncStatus, NEW title \in Title, NEW datasets \in SUBSET Dataset,
               Save(s, title, datasets)
        PROVE  LinkInv' /\ AgreeInv'
    BY <1>1, SaveLock
  <1>2. ASSUME NEW i \in RemoteId, Create(i) PROVE LinkInv' /\ AgreeInv'
    BY <1>2, CreateLock
  <1>3. ASSUME NEW d \in Dataset, AddContent(d) \/ RemoveContent(d)
        PROVE  LinkInv' /\ AgreeInv'
    BY <1>3, AddLock, RemoveLock
  <1>4. CASE CreateFails \/ GetFails \/ RemoteDeleteFails
    BY <1>4, RefusedLock DEF CreateFails, GetFails, RemoteDeleteFails, Calling
  <1>5. CASE Get \/ GetContents \/ ContentsDone
    BY <1>5, GetLock, ContentsLock
  <1>6. CASE PutState \/ PutMetadata
    BY <1>6, StateLock, MetadataLock
  <1>7. CASE Drop \/ DeleteRemote \/ BeginDelete
    BY <1>7, DropLock, BeginDeleteLock
  <1>8. CASE Cleanup \/ Abort \/ Commit
    BY <1>8, EndLock, CommitLock
  <1>9. ASSUME NEW c \in Counterpart, Meddle(c) PROVE LinkInv' /\ AgreeInv'
    BY <1>9, MeddleLock
  <1>10. CASE UNCHANGED syncVars
    BY <1>10 DEF syncVars, LockstepInv, LinkInv, AgreeInv, Like, Born, Locked
  <1>11. CASE MailStep
    BY <1>11 DEF MailStep, LockstepInv, LinkInv, AgreeInv, Like, Born, Locked
  <1>12. QED
    BY <1>1, <1>2, <1>3, <1>4, <1>5, <1>6, <1>7, <1>8, <1>9, <1>10, <1>11
    DEF SyncNext, FormNext, MailStep

LEMMA LockstepInit ==
  ASSUME SyncInit
  PROVE  LockstepInv
  <1>1. PICK t \in Title : saved = [status |-> "NEW", title |-> t, datasets |-> {},
                 linked |-> {}, id |-> NoId, fresh |-> FALSE, noted |-> {}]
    BY DEF SyncInit
  <1>2. /\ ~saved.fresh /\ saved.id = NoId /\ saved.datasets = {} /\ saved.linked = {}
        /\ draft = saved /\ sync = NoRequest
    BY <1>1 DEF SyncInit
  <1>3. LinkInv /\ AgreeInv
    BY <1>2, NoRequestType DEF LinkInv, AgreeInv
  <1>4. QED
    BY <1>3, RowsInit DEF LockstepInv

\* For any number of datasets, saves, failures and changes by others: a request
\* that succeeds leaves the counterpart as the committed row says, unless the
\* counterpart was changed in a way the ETag cannot tell.
THEOREM SyncKeepsLockstep ==
  ASSUME SyncAssumption
  PROVE  SyncSpec => []InLockstep
  <1>1. LockstepInv => InLockstep
    <2> SUFFICES ASSUME LockstepInv, succeeded, ~missed, sync.step = "idle", saved.id # NoId
                 PROVE  remote[saved.id] = Image /\ saved.linked = saved.datasets
      BY DEF InLockstep
    <2>1. saved.fresh /\ Born(saved.id) /\ Like(saved)
      BY DEF LockstepInv, AgreeInv
    <2>2. remote[saved.id] \in Counterpart
      BY <2>1, BaseFacts, RowFields, BornType DEF LockstepInv, RowsInv, BaseInv
    <2>3. QED
      BY <2>1, <2>2 DEF Like, Image, Counterpart
  <1>2. QED
    BY <1>1, LockstepInit, LockstepStep, PTL DEF SyncSpec
=============================================================================
