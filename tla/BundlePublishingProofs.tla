---------------------- MODULE BundlePublishingProofs ----------------------
(***************************************************************************)
(* Theorems about BundlePublishing, for every number of bundles and pages: *)
(* first with any number of requests and publish_bundles processes, then   *)
(* with one request at a time, then with no scheduled command either.      *)
(***************************************************************************)
EXTENDS BundlePublishing, TLAPS

\* What is known of the shape of requests and publications once their kind
\* is known.
LEMMA RequestShape ==
  ASSUME TypeOK, NEW w \in Web
  PROVE  /\ req[w].kind = "post" => req[w] \in PostRequest
         /\ req[w].kind = "form" => req[w] \in FormRequest
         /\ req[w].kind \in {"create", "save", "add"} => req[w] \in BundleRequest
         /\ req[w].kind \in {"unlock", "publish_page"} => req[w] \in PageRequest
  <1>1. req[w] \in PostRequest \cup FormRequest \cup BundleRequest \cup PageRequest
                   \cup {NoRequest}
    BY DEF TypeOK
  <1>2. CASE req[w] \in PostRequest
    BY <1>2 DEF PostRequest
  <1>3. CASE req[w] \in FormRequest
    BY <1>3 DEF FormRequest
  <1>4. CASE req[w] \in BundleRequest
    BY <1>4 DEF BundleRequest
  <1>5. CASE req[w] \in PageRequest
    BY <1>5 DEF PageRequest
  <1>6. CASE req[w] = NoRequest
    BY <1>6 DEF NoRequest
  <1>7. QED
    BY <1>1, <1>2, <1>3, <1>4, <1>5, <1>6

LEMMA RunShape ==
  ASSUME TypeOK, NEW k \in Process, run[k].step \in {"started", "pages"}
  PROVE  run[k] \in Running
  BY DEF TypeOK, NotRunning

LEMMA RunUpdate ==
  ASSUME TypeOK, NEW k \in Process, NEW r \in Running, run' = [run EXCEPT ![k] = r]
  PROVE  run' \in [Process -> Running \cup {NotRunning}]
  BY DEF TypeOK

LEMMA SaveRequestType ==
  ASSUME TypeOK, NEW b \in Bundle, NEW kind \in {"create", "save", "add"},
         NEW s \in BundleStatus, NEW P \in SUBSET Page,
         NEW t \in Time, NEW a \in BOOLEAN
  PROVE  SaveRequest(kind, b, s, P, t, a) \in BundleRequest
  <1>1. row[b].pages \in SUBSET Page
    BY DEF TypeOK, BundleRow
  <1>2. QED
    BY <1>1 DEF SaveRequest, BundleRequest

LEMMA StampIsBoolean ==
  ASSUME NEW seen \in Instance, NEW s
  PROVE  Stamp(seen, s) \in BOOLEAN
  <1>1. seen.approved \in BOOLEAN
    BY DEF Instance
  <1>2. QED
    BY <1>1 DEF Stamp

\* What a validated form is going to write: its status, pages and release.
Validated(w, s, P, t) ==
  LET b    == req[w].bundle
      seen == req[w].seen IN
  /\ s = PostedStatus(req[w])
  /\ seen.status \in EditableStatus => s \in ActiveStatus
  /\ "APPROVED" \in {seen.status, s} => P = row[b].pages
  /\ (seen.status = "APPROVED" /\ s # "APPROVED") \/ ValidPages(b, P)
  /\ s = "APPROVED" => PagesReady(b)
  /\ req' = [req EXCEPT ![w] = SaveRequest("save", b, s, P, t, Stamp(seen, s))]

LEMMA ValidatedForm ==
  ASSUME TypeOK, NEW w \in Web, Validate(w)
  PROVE  /\ req[w] \in FormRequest /\ req[w].bundle \in Bundle /\ req[w].seen \in Instance
         /\ UNCHANGED <<row, page, now, queue, run, announced, tried>>
         /\ \E s \in BundleStatus, P \in SUBSET Page, t \in Time : Validated(w, s, P, t)
  <1>1. /\ req[w] \in FormRequest /\ req[w].bundle \in Bundle /\ req[w].seen \in Instance
        /\ req[w].action \in EditAction
    BY RequestShape DEF Validate, FormRequest
  <1>2. PostedStatus(req[w]) \in BundleStatus
    <2>1. CASE req[w].action = "edit"
      <3>1. row[req[w].bundle].status \in Status
        BY <1>1 DEF TypeOK, BundleRow
      <3>2. QED
        BY <2>1, <3>1 DEF Validate, Exists, Status, PostedStatus
    <2>2. CASE req[w].action # "edit"
      BY <1>1, <2>2 DEF PostedStatus, EditAction, BundleStatus, PublishedStatus
    <2>3. QED
      BY <2>1, <2>2
  <1>3. PICK P \in SUBSET Page, t \in Time :
          /\ "APPROVED" \in {req[w].seen.status, PostedStatus(req[w])}
             => P = row[req[w].bundle].pages /\ t = req[w].seen.release
          /\ \/ req[w].seen.status = "APPROVED" /\ PostedStatus(req[w]) # "APPROVED"
             \/ ValidPages(req[w].bundle, P)
          /\ req' = [req EXCEPT ![w] =
                       SaveRequest("save", req[w].bundle, PostedStatus(req[w]), P, t,
                                   Stamp(req[w].seen, PostedStatus(req[w])))]
    BY DEF Validate
  <1>4. Validated(w, PostedStatus(req[w]), P, t)
    BY <1>3 DEF Validated, Validate
  <1>5. QED
    BY <1>1, <1>2, <1>4 DEF Validate

\* Types are kept by the steps of bundle requests ...
LEMMA BundleRequestTypes ==
  ASSUME TypeOK, NEW w \in Web, BundleRequestStep(w)
  PROVE  TypeOK'
  <1> USE DEF Time
  <1>a. ASSUME NEW r \in PostRequest \cup FormRequest \cup BundleRequest \cup PageRequest
                       \cup {NoRequest},
               req' = [req EXCEPT ![w] = r],
               UNCHANGED <<row, page, now, queue, run, announced, tried>>
        PROVE  TypeOK'
    BY <1>a DEF TypeOK
  <1>1. ASSUME NEW b \in Bundle, BeginCreate(w, b) PROVE TypeOK'
    <2>1. PICK P \in SUBSET Page, t \in Time :
            req' = [req EXCEPT ![w] = SaveRequest("create", b, "DRAFT", P, t, FALSE)]
      BY <1>1 DEF BeginCreate
    <2>2. SaveRequest("create", b, "DRAFT", P, t, FALSE) \in BundleRequest
      BY SaveRequestType DEF BundleStatus, ActiveStatus
    <2>3. QED
      BY <1>1, <1>a, <2>1, <2>2 DEF BeginCreate
  <1>row. ASSUME NEW b \in Bundle
          PROVE  /\ row[b].pages \in SUBSET Page /\ row[b].release \in Time
                 /\ row[b].approved \in BOOLEAN
    BY DEF TypeOK, BundleRow
  <1>2. ASSUME NEW b \in Bundle, Dispatch(w, b) PROVE TypeOK'
    <2>1. PICK a \in EditAction :
            req' = [req EXCEPT ![w] = [kind |-> "post", bundle |-> b, action |-> a]]
      BY <1>2 DEF Dispatch, AvailableActions
    <2>2. [kind |-> "post", bundle |-> b, action |-> a] \in PostRequest
      BY DEF PostRequest
    <2>3. QED
      BY <1>2, <1>a, <2>1, <2>2 DEF Dispatch
  <1>3. CASE ReadInstance(w)
    <2> DEFINE b == req[w].bundle
               seen == [status |-> row[b].status, release |-> row[b].release,
                        approved |-> row[b].approved]
               r == [kind |-> "form", bundle |-> b, action |-> req[w].action, seen |-> seen]
    <2>1. b \in Bundle /\ req[w].action \in EditAction
      BY <1>3, RequestShape DEF ReadInstance, PostRequest
    <2>2. row[b].status \in BundleStatus
      BY <1>3, <2>1 DEF ReadInstance, Exists, TypeOK, BundleRow, Status
    <2>3. seen \in Instance
      BY <1>row, <2>1, <2>2 DEF Instance
    <2>4. r \in FormRequest
      BY <2>1, <2>3 DEF FormRequest
    <2>5. req' = [req EXCEPT ![w] = r]
      BY <1>3 DEF ReadInstance
    <2>6. QED
      BY <1>3, <1>a, <2>4, <2>5 DEF ReadInstance
  <1>4. CASE Validate(w)
    <2>1. PICK s \in BundleStatus, P \in SUBSET Page, t \in Time : Validated(w, s, P, t)
      BY <1>4, ValidatedForm
    <2>2. SaveRequest("save", req[w].bundle, s, P, t, Stamp(req[w].seen, s)) \in BundleRequest
      BY <1>4, ValidatedForm, StampIsBoolean, SaveRequestType
    <2>3. req' = [req EXCEPT ![w] =
                    SaveRequest("save", req[w].bundle, s, P, t, Stamp(req[w].seen, s))]
      BY <2>1 DEF Validated
    <2>4. QED
      BY <1>4, <1>a, <2>2, <2>3 DEF Validate
  <1>6. ASSUME NEW b \in Bundle, NEW p \in Page, BeginAdd(w, b, p) PROVE TypeOK'
    <2>1. SaveRequest("add", b, row[b].status, row[b].pages \cup {p},
                      row[b].release, row[b].approved) \in BundleRequest
      <3>1. row[b].status \in BundleStatus
        BY <1>6 DEF BeginAdd, EditableStatus, BundleStatus, ActiveStatus
      <3>2. row[b].pages \cup {p} \in SUBSET Page
        BY <1>row
      <3>3. QED
        BY <1>row, <3>1, <3>2, SaveRequestType
    <2>2. QED
      BY <1>6, <1>a, <2>1 DEF BeginAdd
  <1>7. ASSUME NEW b \in Bundle, Delete(w, b) PROVE TypeOK'
    <2>1. 0 \in Time
      BY ConstantsAssumption
    <2>2. [status |-> "DELETED", pages |-> {}, release |-> NoRelease, approved |-> FALSE]
            \in BundleRow
      BY <2>1 DEF BundleRow, Status, NoRelease
    <2>3. row' \in [Bundle -> BundleRow]
      BY <1>7, <2>2 DEF Delete, TypeOK
    <2>4. QED
      BY <1>7, <2>3 DEF Delete, TypeOK
  <1>8. CASE Commit(w)
    <2> DEFINE r == req[w]
               new == [status |-> r.status, pages |-> (row[r.bundle].pages \ r.del) \cup r.add,
                       release |-> r.release, approved |-> r.approved]
    <2>1. r \in BundleRequest
      BY <1>8, RequestShape DEF Commit
    <2>2. new \in BundleRow
      <3>1. /\ r.bundle \in Bundle /\ r.status \in Status /\ r.add \in SUBSET Page
            /\ r.release \in Time /\ r.approved \in BOOLEAN
        BY <2>1 DEF BundleRequest, Status
      <3>2. row[r.bundle].pages \in SUBSET Page
        BY <3>1, <1>row
      <3>3. (row[r.bundle].pages \ r.del) \cup r.add \in SUBSET Page
        BY <3>1, <3>2
      <3>4. QED
        BY <3>1, <3>3 DEF BundleRow
    <2>3. row' \in [Bundle -> BundleRow]
      BY <1>8, <2>1, <2>2 DEF Commit, TypeOK, BundleRequest
    <2>4. run' \in [Process -> Running \cup {NotRunning}]
      BY <1>8, <2>1 DEF Commit, TypeOK, BundleRequest, Running, Process
    <2>5. tried' \subseteq Bundle
      BY <1>8, <2>1 DEF Commit, TypeOK, BundleRequest
    <2>6. QED
      BY <1>8, <2>3, <2>4, <2>5 DEF Commit, TypeOK
  <1>9. CASE Abort(w)
    BY <1>9, <1>a DEF Abort
  <1>10. QED
    BY <1>1, <1>2, <1>3, <1>4, <1>6, <1>7, <1>8, <1>9 DEF BundleRequestStep

\* ... of page requests and page edits ...
LEMMA PageTypes ==
  ASSUME TypeOK,
         \/ \E w \in Web : PageRequestStep(w)
         \/ \E p \in Page : PageStep(p)
  PROVE  TypeOK'
  <1> USE DEF PageState, Version
  <1>p. ASSUME NEW p \in Page
        PROVE  /\ page[p] \in PageState
               /\ page[p].draft \in Version /\ page[p].reviewed \in Version
               /\ page[p].live \in Version
    BY DEF TypeOK
  <1>1. ASSUME NEW w \in Web, NEW p \in Page, BeginUnlock(w, p) PROVE TypeOK'
    BY <1>1 DEF BeginUnlock, TypeOK, PageRequest
  <1>2. ASSUME NEW w \in Web, NEW p \in Page, BeginPublishPage(w, p) PROVE TypeOK'
    BY <1>2 DEF BeginPublishPage, TypeOK, PageRequest
  <1>3. ASSUME NEW w \in Web, CommitUnlock(w) PROVE TypeOK'
    <2>1. req[w].page \in Page
      BY <1>3, RequestShape DEF CommitUnlock, PageRequest
    <2>2. QED
      BY <1>3, <2>1, <1>p DEF CommitUnlock, TypeOK
  <1>4. ASSUME NEW w \in Web, CommitPublishPage(w) PROVE TypeOK'
    <2>1. req[w].page \in Page
      BY <1>4, RequestShape DEF CommitPublishPage, PageRequest
    <2>2. page' \in [Page -> PageState]
      BY <1>4, <2>1, <1>p DEF CommitPublishPage, TypeOK, WorkflowFinished
    <2>3. QED
      BY <1>4, <2>2 DEF CommitPublishPage, TypeOK
  <1>5. ASSUME NEW p \in Page, EditPage(p) PROVE TypeOK'
    <2>1. page[p].draft + 1 \in Version
      BY <1>5, <1>p, ConstantsAssumption DEF EditPage
    <2>2. QED
      BY <1>5, <1>p, <2>1 DEF EditPage, TypeOK
  <1>6. ASSUME NEW p \in Page, SubmitPage(p) PROVE TypeOK'
    BY <1>6, <1>p DEF SubmitPage, TypeOK
  <1>7. ASSUME NEW p \in Page, ReviewPage(p) PROVE TypeOK'
    BY <1>7, <1>p DEF ReviewPage, TypeOK
  <1>8. QED
    BY <1>1, <1>2, <1>3, <1>4, <1>5, <1>6, <1>7 DEF PageRequestStep, PageStep

\* ... and of the publish_bundles command and publish_bundle.
LEMMA PublicationTypes ==
  ASSUME TypeOK,
         \/ \E k \in Cron : CommandStep(k)
         \/ \E k \in Process : PublicationStep(k)
  PROVE  TypeOK'
  <1>1. ASSUME NEW k \in Cron, ListBundles(k) PROVE TypeOK'
    BY <1>1 DEF ListBundles, DueBundles, TypeOK, BundleRow
  <1>2. ASSUME NEW k \in Cron, HandleBundle(k) PROVE TypeOK'
    BY <1>2 DEF HandleBundle, TypeOK, Running, Process
  <1>3. ASSUME NEW k \in Process, LoadPages(k) PROVE TypeOK'
    <2>1. run[k] \in Running
      BY <1>3, RunShape DEF LoadPages
    <2>2. row[run[k].bundle].pages \in SUBSET Page
      BY <2>1 DEF TypeOK, Running, BundleRow
    <2>3. {<<p, page[p].draft>> : p \in row[run[k].bundle].pages} \in SUBSET (Page \X Version)
      BY <2>2 DEF TypeOK, PageState
    <2>4. QED
      BY <1>3, <2>1, <2>3 DEF LoadPages, TypeOK, Running
  <1>4. ASSUME NEW k \in Process, PublishPage(k) PROVE TypeOK'
    <2>1. PICK e \in run[k].todo :
            /\ page' = Published(e[1], e[2])
            /\ run' = [run EXCEPT ![k].todo = @ \ {e}, ![k].some = TRUE]
      BY <1>4 DEF PublishPage
    <2>2. run[k] \in Running
      BY <1>4, RunShape DEF PublishPage
    <2>3. e[1] \in Page /\ e[2] \in Version
      BY <2>1, <2>2 DEF Running
    <2>4. page' \in [Page -> PageState]
      <3>1. page[e[1]] \in PageState
        BY <2>3 DEF TypeOK
      <3>2. page[e[1]].step \in {"none", "review", "ready"}
        BY <3>1 DEF PageState
      <3>3. QED
        BY <2>1, <2>3, <3>1, <3>2 DEF Published, WorkflowFinished, TypeOK, PageState
    <2>5. run' \in [Process -> Running \cup {NotRunning}]
      <3>1. [run[k] EXCEPT !.todo = @ \ {e}, !.some = TRUE] \in Running
        BY <2>2 DEF Running
      <3>2. run' = [run EXCEPT ![k] = [run[k] EXCEPT !.todo = @ \ {e}, !.some = TRUE]]
        BY <2>1
      <3>3. QED
        BY <3>1, <3>2, RunUpdate
    <2>6. QED
      BY <1>4, <2>4, <2>5 DEF PublishPage, TypeOK
  <1>5. ASSUME NEW k \in Process, PageFails(k) PROVE TypeOK'
    <2>1. run[k] \in Running
      BY <1>5, RunShape DEF PageFails
    <2>2. run' \in [Process -> Running \cup {NotRunning}]
      <3>1. PICK e \in run[k].todo :
              run' = [run EXCEPT ![k].todo = @ \ {e}, ![k].failed = TRUE]
        BY <1>5 DEF PageFails
      <3>2. [run[k] EXCEPT !.todo = @ \ {e}, !.failed = TRUE] \in Running
        BY <2>1 DEF Running
      <3>3. run' = [run EXCEPT ![k] = [run[k] EXCEPT !.todo = @ \ {e}, !.failed = TRUE]]
        BY <3>1
      <3>4. QED
        BY <3>2, <3>3, RunUpdate
    <2>3. QED
      BY <1>5, <2>2 DEF PageFails, TypeOK
  <1>6. ASSUME NEW k \in Process, CalendarFails(k) PROVE TypeOK'
    BY <1>6 DEF CalendarFails, TypeOK
  <1>7. ASSUME NEW k \in Process, Conclude(k) PROVE TypeOK'
    <2>1. run[k] \in Running
      BY <1>7, RunShape DEF Conclude, PagesDone
    <2>2. run[k].bundle \in Bundle
      BY <2>1 DEF Running
    <2>3. row[run[k].bundle] \in BundleRow
      BY <2>2 DEF TypeOK
    <2>4. FinalStatus(k) \in Status
      BY <2>1, <2>3 DEF FinalStatus, Status, BundleStatus, PublishedStatus, BundleRow, Running
    <2>5. row' \in [Bundle -> BundleRow]
      BY <1>7, <2>2, <2>3, <2>4 DEF Conclude, TypeOK, BundleRow
    <2>6. announced' \subseteq Bundle
      BY <1>7, <2>2 DEF Conclude, TypeOK
    <2>7. QED
      BY <1>7, <2>5, <2>6 DEF Conclude, TypeOK
  <1>8. QED
    BY <1>1, <1>2, <1>3, <1>4, <1>5, <1>6, <1>7 DEF CommandStep, PublicationStep

LEMMA TypesKept == TypeOK /\ [Next]_vars => TypeOK'
  <1> SUFFICES ASSUME TypeOK, [Next]_vars PROVE TypeOK'
    OBVIOUS
  <1>1. CASE Tick
    BY <1>1, ConstantsAssumption DEF Tick, TypeOK, Time
  <1>2. CASE UNCHANGED vars
    BY <1>2 DEF vars, TypeOK
  <1>3. QED
    BY <1>1, <1>2, BundleRequestTypes, PageTypes, PublicationTypes DEF Next

LEMMA InitTypes == Init => TypeOK
  BY ConstantsAssumption
  DEF Init, TypeOK, BundleRow, PageState, Status, NoRelease, Time, Version

\* Every variable keeps its type: what the database columns, the requests in
\* flight and the scheduler queues may hold.
THEOREM TypeCorrect == Spec => []TypeOK
  BY InitTypes, TypesKept, PTL DEF Spec

---------------------------------------------------------------------------
(* The approval stamp.  A request writes its status and its stamp together, *)
(* so what has to be inductive is that every request holds a consistent     *)
(* pair from the moment its form's instance is read: it may be committed at *)
(* any time, on any row.                                                    *)

Pending(w) == req[w].kind \in {"create", "save", "add"}

\* A status and a stamp that may be written to bundle b.
Stamped(b, status, approved) ==
  /\ status = "APPROVED" => approved
  /\ status \in EditableStatus /\ approved => b \in tried
  /\ status \in {"FAILED", "PARTIALLY_PUBLISHED"} => b \in tried

\* The same, read from its row.
ReadStamped(b, status, approved) ==
  Stamped(b, status, approved) /\ (status = "PUBLISHED" => b \in tried)

RequestStamped(r) ==
  /\ r.kind \in {"create", "save", "add"} => Stamped(r.bundle, r.status, r.approved)
  /\ r.kind = "form" => ReadStamped(r.bundle, r.seen.status, r.seen.approved)

RowsStamped == \A b \in Bundle : ReadStamped(b, row[b].status, row[b].approved)

RequestsStamped == \A w \in Web : RequestStamped(req[w])

RunsTried == \A k \in Process : run[k] # NotRunning => run[k].bundle \in tried

StampInv == TypeOK /\ RowsStamped /\ RequestsStamped /\ RunsTried

LEMMA TriedGrows ==
  ASSUME [Next]_vars
  PROVE  tried \subseteq tried'
  <1>1. ASSUME NEW w \in Web, Commit(w) PROVE tried \subseteq tried'
    BY <1>1 DEF Commit
  <1>2. ASSUME NEW k \in Cron, HandleBundle(k) PROVE tried \subseteq tried'
    BY <1>2 DEF HandleBundle
  <1>3. CASE tried' = tried
    BY <1>3
  <1>4. QED
    BY <1>1, <1>2, <1>3
    DEF Next, vars, BundleRequestStep, PageRequestStep, PageStep, CommandStep, PublicationStep,
        BeginCreate, Dispatch, ReadInstance, Validate, BeginAdd, Abort, Delete,
        BeginUnlock, CommitUnlock, BeginPublishPage, CommitPublishPage, EditPage, SubmitPage,
        ReviewPage, ListBundles, LoadPages, PublishPage, PageFails, CalendarFails,
        Conclude, Tick

\* Only a commit, a deletion and the end of a publication write rows.
LEMMA RowsStampedKept ==
  ASSUME StampInv, [Next]_vars
  PROVE  RowsStamped'
  <1>t. TypeOK
    BY DEF StampInv
  <1>g. tried \subseteq tried'
    BY TriedGrows
  <1>1. ASSUME NEW w \in Web, Commit(w), NEW b \in Bundle
        PROVE  ReadStamped(b, row[b].status, row[b].approved)'
    <2>1. req[w] \in BundleRequest
      BY <1>1, <1>t, RequestShape DEF Commit
    <2>2. Stamped(req[w].bundle, req[w].status, req[w].approved)
      BY <1>1 DEF Commit, StampInv, RequestsStamped, RequestStamped
    <2>3. CASE b = req[w].bundle
      <3>1. row'[b].status = req[w].status /\ row'[b].approved = req[w].approved
        BY <1>1, <1>t, <2>1, <2>3 DEF Commit, TypeOK
      <3>2. req[w].status = "PUBLISHED" => b \in tried'
        BY <1>1, <2>3 DEF Commit
      <3>3. Stamped(b, req[w].status, req[w].approved)
        BY <2>2, <2>3
      <3>4. QED
        BY <1>g, <3>1, <3>2, <3>3 DEF ReadStamped, Stamped
    <2>4. CASE b # req[w].bundle
      <3>1. row'[b] = row[b]
        BY <1>1, <1>t, <2>1, <2>4 DEF Commit, TypeOK
      <3>2. QED
        BY <1>g, <3>1 DEF ReadStamped, Stamped, StampInv, RowsStamped
    <2>5. QED
      BY <2>3, <2>4
  <1>2. ASSUME NEW w \in Web, NEW c \in Bundle, Delete(w, c), NEW b \in Bundle
        PROVE  ReadStamped(b, row[b].status, row[b].approved)'
    BY <1>2, <1>g, <1>t
    DEF Delete, TypeOK, ReadStamped, Stamped, StampInv, RowsStamped, EditableStatus
  <1>3. ASSUME NEW k \in Process, Conclude(k), NEW b \in Bundle
        PROVE  ReadStamped(b, row[b].status, row[b].approved)'
    <2>1. run[k] # NotRunning /\ row[b] \in BundleRow
      BY <1>3, <1>t DEF Conclude, PagesDone, NotRunning, TypeOK
    <2>2. run[k].bundle \in tried
      BY <2>1 DEF StampInv, RunsTried
    <2>3. /\ row'[b].approved = row[b].approved
          /\ \/ row'[b].status = row[b].status
             \/ b = run[k].bundle /\ row'[b].status \in PublishedStatus
      <3>1. run[k].bundle = b =>
              FinalStatus(k) = row[b].status \/ FinalStatus(k) \in PublishedStatus
        BY DEF FinalStatus, PublishedStatus
      <3>2. QED
        BY <1>3, <1>t, <2>1, <3>1 DEF Conclude, TypeOK, BundleRow
    <2>4. QED
      BY <1>g, <2>2, <2>3
      DEF ReadStamped, Stamped, StampInv, RowsStamped, PublishedStatus, EditableStatus
  <1>4. ASSUME row' = row PROVE RowsStamped'
    BY <1>4, <1>g DEF RowsStamped, ReadStamped, Stamped, StampInv
  <1>5. QED
    BY <1>1, <1>2, <1>3, <1>4
    DEF RowsStamped, Next, vars, BundleRequestStep, PageRequestStep, PageStep, CommandStep,
        PublicationStep, BeginCreate, Dispatch, ReadInstance, Validate, BeginAdd, Abort,
        BeginUnlock, CommitUnlock, BeginPublishPage, CommitPublishPage, EditPage, SubmitPage,
        ReviewPage, ListBundles, HandleBundle, LoadPages, PublishPage, PageFails, CalendarFails,
        Tick

\* What a form is validated to from what its instance was read with.
LEMMA ValidatedStamp ==
  ASSUME StampInv, NEW w \in Web, NEW s \in BundleStatus, NEW P, NEW t, Validate(w),
         Validated(w, s, P, t)
  PROVE  Stamped(req[w].bundle, s, Stamp(req[w].seen, s))
  <1>t. TypeOK
    BY DEF StampInv
  <1> DEFINE b == req[w].bundle
             seen == req[w].seen
  <1>1. b \in Bundle /\ seen \in Instance /\ req[w].kind = "form"
    BY <1>t, ValidatedForm DEF Validate
  <1>2. ReadStamped(b, seen.status, seen.approved)
    BY <1>1 DEF StampInv, RequestsStamped, RequestStamped
  <1>3. CASE s = seen.status
    BY <1>2, <1>3 DEF Stamp, ReadStamped
  <1>4. CASE s # seen.status /\ s \in EditableStatus
    <2>1. Stamp(seen, s) => seen.approved /\ seen.status # "APPROVED"
      BY <1>4 DEF Stamp, EditableStatus
    <2>2. seen.status \in BundleStatus
      BY <1>1 DEF Instance
    <2>3. seen.approved /\ seen.status # "APPROVED" => b \in tried
      BY <1>2, <2>2
      DEF ReadStamped, Stamped, BundleStatus, ActiveStatus, EditableStatus, PublishedStatus
    <2>4. QED
      BY <1>4, <2>1, <2>3 DEF Stamped, EditableStatus
  <1>5. CASE s # seen.status /\ s \in {"APPROVED", "PUBLISHED"}
    BY <1>5 DEF Stamp, Stamped, EditableStatus
  <1>6. CASE s # seen.status /\ s \in {"FAILED", "PARTIALLY_PUBLISHED"}
    <2>1. s = row[b].status
      <3>1. req[w].action \in EditAction
        BY <1>1, <1>t, RequestShape DEF FormRequest
      <3>2. QED
        BY <1>6, <3>1 DEF Validated, PostedStatus, EditAction, ActiveStatus
    <2>2. b \in tried
      BY <1>1, <1>6, <2>1 DEF StampInv, RowsStamped, ReadStamped, Stamped
    <2>3. QED
      BY <1>6, <2>2 DEF Stamped, EditableStatus
  <1>7. QED
    BY <1>3, <1>4, <1>5, <1>6 DEF BundleStatus, ActiveStatus, EditableStatus, PublishedStatus

LEMMA RequestsStampedKept ==
  ASSUME StampInv, [Next]_vars
  PROVE  RequestsStamped'
  <1>t. TypeOK
    BY DEF StampInv
  <1>g. tried \subseteq tried'
    BY TriedGrows
  <1>stays. ASSUME NEW v \in Web, req'[v] = req[v] PROVE RequestStamped(req[v])'
    BY <1>stays, <1>g
    DEF RequestStamped, ReadStamped, Stamped, StampInv, RequestsStamped
  \* One request moves on.
  <1>one. ASSUME NEW w \in Web, NEW r, req' = [req EXCEPT ![w] = r], RequestStamped(r)'
          PROVE  RequestsStamped'
    <2>1. ASSUME NEW v \in Web PROVE RequestStamped(req[v])'
      <3>1. CASE v = w
        <4>1. req'[v] = r
          BY <1>one, <1>t, <3>1 DEF TypeOK
        <4>2. QED
          BY <1>one, <4>1 DEF RequestStamped, ReadStamped, Stamped
      <3>2. CASE v # w
        BY <1>one, <1>t, <1>stays, <3>2 DEF TypeOK
      <3>3. QED
        BY <3>1, <3>2
    <2>2. QED
      BY <2>1 DEF RequestsStamped
  <1>1. ASSUME NEW w \in Web, NEW b \in Bundle, BeginCreate(w, b) PROVE RequestsStamped'
    <2>1. PICK P \in SUBSET Page, t \in Time :
            req' = [req EXCEPT ![w] = SaveRequest("create", b, "DRAFT", P, t, FALSE)]
      BY <1>1 DEF BeginCreate
    <2>2. PICK x : x = SaveRequest("create", b, "DRAFT", P, t, FALSE)
      OBVIOUS
    <2>3. RequestStamped(x)'
      BY <2>2 DEF SaveRequest, RequestStamped, Stamped
    <2>4. QED
      BY <1>one, <2>1, <2>2, <2>3
  <1>2. ASSUME NEW w \in Web, NEW b \in Bundle, Dispatch(w, b) PROVE RequestsStamped'
    <2>1. PICK a : req' = [req EXCEPT ![w] = [kind |-> "post", bundle |-> b, action |-> a]]
      BY <1>2 DEF Dispatch
    <2>2. RequestStamped([kind |-> "post", bundle |-> b, action |-> a])'
      BY DEF RequestStamped
    <2>3. QED
      BY <1>one, <2>1, <2>2
  <1>3. ASSUME NEW w \in Web, ReadInstance(w) PROVE RequestsStamped'
    <2> DEFINE b == req[w].bundle
               r == [kind |-> "form", bundle |-> b, action |-> req[w].action,
                     seen |-> [status |-> row[b].status, release |-> row[b].release,
                               approved |-> row[b].approved]]
    <2>1. b \in Bundle
      BY <1>3, <1>t, RequestShape DEF ReadInstance, PostRequest
    <2>2. ReadStamped(b, row[b].status, row[b].approved) /\ tried' = tried
      BY <1>3, <2>1 DEF ReadInstance, StampInv, RowsStamped
    <2>3. r.kind = "form" /\ r.bundle = b /\ r.seen.status = row[b].status
            /\ r.seen.approved = row[b].approved
      OBVIOUS
    <2>4. RequestStamped(r)
      BY <2>2, <2>3 DEF RequestStamped
    <2>5. req' = [req EXCEPT ![w] = r]
      BY <1>3 DEF ReadInstance
    <2>6. PICK x : x = r
      OBVIOUS
    <2>7. RequestStamped(x)'
      BY <2>2, <2>4, <2>6 DEF RequestStamped, ReadStamped, Stamped
    <2>8. QED
      BY <1>one, <2>5, <2>6, <2>7
  <1>4. ASSUME NEW w \in Web, Validate(w) PROVE RequestsStamped'
    <2>1. PICK s \in BundleStatus, P \in SUBSET Page, t \in Time : Validated(w, s, P, t)
      BY <1>4, <1>t, ValidatedForm
    <2>2. Stamped(req[w].bundle, s, Stamp(req[w].seen, s)) /\ tried' = tried
      BY <1>4, <2>1, ValidatedStamp DEF Validate
    <2>3. PICK b, a : b = req[w].bundle /\ a = Stamp(req[w].seen, s)
      OBVIOUS
    <2>4. req' = [req EXCEPT ![w] = SaveRequest("save", b, s, P, t, a)]
      BY <2>1, <2>3 DEF Validated
    <2>5. PICK x : x = SaveRequest("save", b, s, P, t, a)
      OBVIOUS
    <2>6. x.kind = "save" /\ x.bundle = b /\ x.status = s /\ x.approved = a
      BY <2>5 DEF SaveRequest
    <2>7. RequestStamped(x)'
      BY <2>2, <2>3, <2>6 DEF RequestStamped, Stamped
    <2>8. QED
      BY <1>one, <2>4, <2>5, <2>7
  <1>5. ASSUME NEW w \in Web, NEW b \in Bundle, NEW p \in Page, BeginAdd(w, b, p)
        PROVE  RequestsStamped'
    <2>1. ReadStamped(b, row[b].status, row[b].approved) /\ tried' = tried
      BY <1>5 DEF BeginAdd, StampInv, RowsStamped
    <2>2. PICK x : x = SaveRequest("add", b, row[b].status, row[b].pages \cup {p},
                                   row[b].release, row[b].approved)
      OBVIOUS
    <2>3. x.kind = "add" /\ x.bundle = b /\ x.status = row[b].status
            /\ x.approved = row[b].approved
      BY <2>2 DEF SaveRequest
    <2>4. RequestStamped(x)'
      BY <2>1, <2>3 DEF RequestStamped, ReadStamped, Stamped
    <2>5. QED
      BY <1>5, <1>one, <2>2, <2>4 DEF BeginAdd
  <1>6. ASSUME NEW w \in Web, NEW p \in Page, BeginUnlock(w, p) \/ BeginPublishPage(w, p)
        PROVE  RequestsStamped'
    <2>1. PICK kind \in {"unlock", "publish_page"} :
            req' = [req EXCEPT ![w] = [kind |-> kind, page |-> p]]
      BY <1>6 DEF BeginUnlock, BeginPublishPage
    <2>2. RequestStamped([kind |-> kind, page |-> p])'
      BY DEF RequestStamped
    <2>3. QED
      BY <1>one, <2>1, <2>2
  <1>7. ASSUME NEW w \in Web,
               Commit(w) \/ Abort(w) \/ CommitUnlock(w) \/ CommitPublishPage(w)
        PROVE  RequestsStamped'
    <2>1. req' = [req EXCEPT ![w] = NoRequest]
      BY <1>7 DEF Commit, Abort, CommitUnlock, CommitPublishPage
    <2>2. RequestStamped(NoRequest)'
      BY DEF RequestStamped, NoRequest
    <2>3. QED
      BY <1>one, <2>1, <2>2
  <1>8. CASE req' = req
    BY <1>8, <1>stays DEF RequestsStamped
  <1>9. QED
    BY <1>1, <1>2, <1>3, <1>4, <1>5, <1>6, <1>7, <1>8
    DEF Next, vars, BundleRequestStep, PageRequestStep, PageStep, CommandStep, PublicationStep,
        Delete, EditPage, SubmitPage, ReviewPage, ListBundles, HandleBundle, LoadPages,
        PublishPage, PageFails, CalendarFails, Conclude, Tick

LEMMA RunsTriedKept ==
  ASSUME StampInv, [Next]_vars
  PROVE  RunsTried'
  <1>t. TypeOK /\ run \in [Process -> Running \cup {NotRunning}]
    BY DEF StampInv, TypeOK
  <1>g. tried \subseteq tried'
    BY TriedGrows
  <1> SUFFICES ASSUME NEW j \in Process, run'[j] # NotRunning
               PROVE  run'[j].bundle \in tried'
    BY DEF RunsTried
  <1>was. ASSUME run[j] # NotRunning, run'[j].bundle = run[j].bundle
          PROVE  run'[j].bundle \in tried'
    BY <1>was, <1>g DEF StampInv, RunsTried
  <1>1. ASSUME NEW w \in Web, Commit(w) PROVE run'[j].bundle \in tried'
    <2>1. CASE run'[j] = run[j]
      BY <1>was, <2>1
    <2>2. CASE run'[j] # run[j]
      BY <1>1, <1>t, <2>2 DEF Commit
    <2>3. QED
      BY <2>1, <2>2
  <1>2. ASSUME NEW k \in Cron, HandleBundle(k) PROVE run'[j].bundle \in tried'
    <2>1. CASE run'[j] = run[j]
      BY <1>was, <2>1
    <2>2. CASE run'[j] # run[j]
      BY <1>2, <1>t, <2>2 DEF HandleBundle
    <2>3. QED
      BY <2>1, <2>2
  <1>3. ASSUME NEW k \in Process, LoadPages(k) \/ PublishPage(k) \/ PageFails(k)
        PROVE  run'[j].bundle \in tried'
    <2>1. CASE j = k
      <3>1. run[k] \in Running
        BY <1>3, <1>t, RunShape DEF LoadPages, PublishPage, PageFails
      <3>2. run[k] # NotRunning
        BY <1>3 DEF LoadPages, PublishPage, PageFails, NotRunning
      <3>3. run'[k].bundle = run[k].bundle
        <4>1. CASE LoadPages(k)
          BY <1>t, <3>1, <4>1 DEF LoadPages, Running
        <4>2. CASE PublishPage(k)
          BY <1>t, <3>1, <4>2 DEF PublishPage, Running
        <4>3. CASE PageFails(k)
          BY <1>t, <3>1, <4>3 DEF PageFails, Running
        <4>4. QED
          BY <1>3, <4>1, <4>2, <4>3
      <3>4. QED
        BY <1>was, <2>1, <3>2, <3>3
    <2>2. CASE j # k
      <3>1. run'[j] = run[j]
        BY <1>3, <1>t, <2>2 DEF LoadPages, PublishPage, PageFails
      <3>2. QED
        BY <1>was, <3>1
    <2>3. QED
      BY <2>1, <2>2
  <1>4. ASSUME NEW k \in Process, CalendarFails(k) \/ Conclude(k)
        PROVE  run'[j].bundle \in tried'
    <2>1. j # k /\ run'[j] = run[j]
      BY <1>4, <1>t DEF CalendarFails, Conclude
    <2>2. QED
      BY <1>was, <2>1
  <1>5. CASE run' = run
    BY <1>5, <1>was
  <1>6. QED
    BY <1>1, <1>2, <1>3, <1>4, <1>5
    DEF Next, vars, BundleRequestStep, PageRequestStep, PageStep, CommandStep, PublicationStep,
        BeginCreate, Dispatch, ReadInstance, Validate, BeginAdd, Abort, Delete,
        BeginUnlock, CommitUnlock, BeginPublishPage, CommitPublishPage, EditPage, SubmitPage,
        ReviewPage, ListBundles, Tick

\* However requests and publications interleave, a bundle that is ready to
\* publish has its approval stamp, and an editable bundle has one only if a
\* publication of it had begun.
THEOREM ApprovalStampKept == Spec => []ApprovalStamp
  <1>1. Init => StampInv
    <2> SUFFICES ASSUME Init PROVE StampInv
      OBVIOUS
    <2>1. TypeOK
      BY InitTypes
    <2>2. RowsStamped
      BY DEF Init, RowsStamped, ReadStamped, Stamped, EditableStatus
    <2>3. RequestsStamped /\ RunsTried
      BY DEF Init, RequestsStamped, RequestStamped, RunsTried, NoRequest
    <2>4. QED
      BY <2>1, <2>2, <2>3 DEF StampInv
  <1>2. StampInv => ApprovalStamp
    BY DEF StampInv, RowsStamped, ReadStamped, Stamped, ApprovalStamp
  <1>3. StampInv /\ [Next]_vars => StampInv'
    BY TypesKept, RowsStampedKept, RequestsStampedKept, RunsTriedKept DEF StampInv
  <1>4. QED
    BY <1>1, <1>2, <1>3, PTL DEF Spec

---------------------------------------------------------------------------
(* One administrator request at a time.  Then nothing but publications     *)
(* happens to the bundle table between a request's checks and its commit,  *)
(* and publications only take bundles out of the active statuses: what was *)
(* checked still holds when it is written.                                 *)

OneEditor == \A v, w \in Web : v = w

\* The pages a pending request will leave in its bundle.
After(w) == (row[req[w].bundle].pages \ req[w].del) \cup req[w].add

DisjointFromOthers(b, P) ==
  \A c \in Bundle \ {b} : row[c].status \in ActiveStatus => P \cap row[c].pages = {}

\* A form whose instance was still approved keeps the pages of its bundle.
ReadApproved(w) == req[w].kind = "form" /\ req[w].seen.status = "APPROVED"

PendingExclusive ==
  \A w \in Web :
    /\ Pending(w) => DisjointFromOthers(req[w].bundle, After(w))
    /\ ReadApproved(w) => DisjointFromOthers(req[w].bundle, row[req[w].bundle].pages)

ExclusiveInv == TypeOK /\ OneActiveBundle /\ PendingExclusive

\* The pages of an active bundle are in no other active bundle.
LEMMA OwnPages ==
  ASSUME OneActiveBundle, NEW b \in Bundle, row[b].status \in ActiveStatus
  PROVE  DisjointFromOthers(b, row[b].pages)
  BY DEF OneActiveBundle, DisjointFromOthers

\* So are the pages that pass the form's check.
LEMMA ValidPagesExclusive ==
  ASSUME OneActiveBundle, NEW b \in Bundle, NEW P \in SUBSET Page, ValidPages(b, P)
  PROVE  DisjointFromOthers(b, P)
  <1> SUFFICES ASSUME NEW c \in Bundle \ {b}, row[c].status \in ActiveStatus,
                      NEW p \in P, p \in row[c].pages
               PROVE  FALSE
    BY DEF DisjointFromOthers
  <1>1. c \in ActiveBundles(p)
    BY DEF ActiveBundles
  <1>2. b \in ActiveBundles(p)
    BY <1>1 DEF ValidPages, FirstActive
  <1>3. b = c
    BY <1>1, <1>2 DEF ActiveBundles, OneActiveBundle
  <1>4. QED
    BY <1>3

LEMMA PreparedExclusive ==
  ASSUME ExclusiveInv, OneEditor, NEW w \in Web, NEW b \in Bundle,
         NEW kind \in {"create", "save", "add"}, NEW s,
         NEW P \in SUBSET Page, NEW t, NEW a, row' = row,
         req' = [req EXCEPT ![w] = SaveRequest(kind, b, s, P, t, a)],
         DisjointFromOthers(b, P)
  PROVE  OneActiveBundle' /\ PendingExclusive'
  <1>1. OneActiveBundle'
    BY DEF ExclusiveInv, OneActiveBundle
  <1>2. ASSUME NEW v \in Web
        PROVE  DisjointFromOthers(req[v].bundle, After(v))' /\ ~ReadApproved(v)'
    <2>1. req'[v] = SaveRequest(kind, b, s, P, t, a)
      BY DEF OneEditor, ExclusiveInv, TypeOK
    <2>5. ~ReadApproved(v)'
      BY <2>1 DEF ReadApproved, SaveRequest
    <2>2. req'[v].bundle = b /\ After(v)' = (row[b].pages \ (row[b].pages \ P)) \cup (P \ row[b].pages)
      BY <2>1 DEF After, SaveRequest
    <2>3. After(v)' = P
      BY <2>2
    <2>4. QED
      BY <2>2, <2>3, <2>5 DEF DisjointFromOthers
  <1>3. QED
    BY <1>1, <1>2 DEF PendingExclusive

\* A step that adds no page to any bundle and makes none active, and neither
\* reads a bundle for a request nor validates one, keeps both.
LEMMA ShrinkingExclusive ==
  ASSUME ExclusiveInv,
         \A c \in Bundle : row'[c].status \in ActiveStatus =>
            row[c].status \in ActiveStatus /\ row'[c].pages = row[c].pages,
         \A w \in Web : Pending(w)' \/ ReadApproved(w)' =>
            /\ req'[w] = req[w]
            /\ row'[req[w].bundle].pages = row[req[w].bundle].pages
  PROVE  OneActiveBundle' /\ PendingExclusive'
  <1>1. OneActiveBundle'
    BY DEF ExclusiveInv, OneActiveBundle
  <1>2. ASSUME NEW w \in Web, Pending(w)' PROVE DisjointFromOthers(req[w].bundle, After(w))'
    <2>1. DisjointFromOthers(req[w].bundle, After(w))
      BY <1>2 DEF ExclusiveInv, PendingExclusive, Pending
    <2>2. After(w)' = After(w) /\ req'[w].bundle = req[w].bundle
      BY <1>2 DEF After
    <2>3. QED
      BY <2>1, <2>2 DEF DisjointFromOthers
  <1>3. ASSUME NEW w \in Web, ReadApproved(w)'
        PROVE  DisjointFromOthers(req[w].bundle, row[req[w].bundle].pages)'
    <2>1. DisjointFromOthers(req[w].bundle, row[req[w].bundle].pages)
      BY <1>3 DEF ExclusiveInv, PendingExclusive, ReadApproved
    <2>2. /\ req'[w].bundle = req[w].bundle
          /\ row'[req[w].bundle].pages = row[req[w].bundle].pages
      BY <1>3
    <2>3. QED
      BY <2>1, <2>2 DEF DisjointFromOthers
  <1>4. QED
    BY <1>1, <1>2, <1>3 DEF PendingExclusive

LEMMA ExclusiveKept == OneEditor /\ ExclusiveInv /\ [Next]_vars => ExclusiveInv'
  <1> SUFFICES ASSUME OneEditor, ExclusiveInv, [Next]_vars
               PROVE  OneActiveBundle' /\ PendingExclusive'
    BY TypesKept DEF ExclusiveInv
  <1>row. ASSUME NEW b \in Bundle PROVE row[b].pages \in SUBSET Page
    BY DEF ExclusiveInv, TypeOK, BundleRow
  <1>own. ASSUME NEW b \in Bundle, row[b].status \in ActiveStatus
          PROVE  DisjointFromOthers(b, row[b].pages)
    BY <1>own, OwnPages DEF ExclusiveInv
  <1>1. ASSUME NEW w \in Web, NEW b \in Bundle, BeginCreate(w, b)
        PROVE  OneActiveBundle' /\ PendingExclusive'
    <2>1. PICK P \in SUBSET Page, t \in Time :
            /\ ValidPages(b, P)
            /\ req' = [req EXCEPT ![w] = SaveRequest("create", b, "DRAFT", P, t, FALSE)]
      BY <1>1 DEF BeginCreate
    <2>2. DisjointFromOthers(b, P)
      BY <2>1, ValidPagesExclusive DEF ExclusiveInv
    <2>3. QED
      BY <1>1, <2>1, <2>2, PreparedExclusive DEF BeginCreate
  <1>2. ASSUME NEW w \in Web, ReadInstance(w)
        PROVE  OneActiveBundle' /\ PendingExclusive'
    <2>1. req[w].bundle \in Bundle
      BY <1>2, RequestShape DEF ReadInstance, ExclusiveInv, PostRequest
    <2>2. /\ req'[w].kind = "form" /\ req'[w].bundle = req[w].bundle
          /\ req'[w].seen.status = row[req[w].bundle].status
      BY <1>2 DEF ReadInstance, ExclusiveInv, TypeOK
    <2>3. row' = row /\ OneActiveBundle'
      BY <1>2 DEF ReadInstance, ExclusiveInv, OneActiveBundle
    <2>4. ASSUME NEW v \in Web
          PROVE  ~Pending(v)' /\ (ReadApproved(v)' =>
                   DisjointFromOthers(req[v].bundle, row[req[v].bundle].pages)')
      <3>1. v = w
        BY DEF OneEditor
      <3>2. ~Pending(v)'
        BY <2>2, <3>1 DEF Pending
      <3>3. ASSUME ReadApproved(v)'
            PROVE  DisjointFromOthers(req[v].bundle, row[req[v].bundle].pages)'
        <4>1. row[req[w].bundle].status = "APPROVED"
          BY <2>2, <3>1, <3>3 DEF ReadApproved
        <4>2. DisjointFromOthers(req[w].bundle, row[req[w].bundle].pages)
          BY <1>own, <2>1, <4>1 DEF ActiveStatus
        <4>3. QED
          BY <2>2, <2>3, <3>1, <4>2 DEF DisjointFromOthers
      <3>4. QED
        BY <3>2, <3>3
    <2>5. QED
      BY <2>3, <2>4 DEF PendingExclusive
  <1>3. ASSUME NEW w \in Web, Validate(w)
        PROVE  OneActiveBundle' /\ PendingExclusive'
    <2> DEFINE b == req[w].bundle
    <2>1. PICK s \in BundleStatus, P \in SUBSET Page, t \in Time : Validated(w, s, P, t)
      BY <1>3, ValidatedForm DEF ExclusiveInv
    <2>2. b \in Bundle /\ row' = row /\ req[w].kind = "form"
      BY <1>3, ValidatedForm DEF ExclusiveInv, Validate
    <2>3. DisjointFromOthers(b, P)
      <3>1. CASE ValidPages(b, P)
        BY <2>2, <3>1, ValidPagesExclusive DEF ExclusiveInv
      <3>2. CASE ~ValidPages(b, P)
        <4>1. req[w].seen.status = "APPROVED" /\ P = row[b].pages
          BY <2>1, <3>2 DEF Validated
        <4>2. QED
          BY <2>2, <4>1 DEF ExclusiveInv, PendingExclusive, ReadApproved
      <3>3. QED
        BY <3>1, <3>2
    <2>4. PICK a : a = Stamp(req[w].seen, s)
      OBVIOUS
    <2>5. req' = [req EXCEPT ![w] = SaveRequest("save", b, s, P, t, a)]
      BY <2>1, <2>4 DEF Validated
    <2>6. QED
      BY <2>2, <2>3, <2>5, PreparedExclusive
  <1>6. ASSUME NEW w \in Web, NEW b \in Bundle, NEW p \in Page, BeginAdd(w, b, p)
        PROVE  OneActiveBundle' /\ PendingExclusive'
    <2>1. DisjointFromOthers(b, row[b].pages)
      BY <1>6, <1>own DEF BeginAdd, ActiveStatus, EditableStatus
    <2>2. DisjointFromOthers(b, row[b].pages \cup {p})
      BY <1>6, <2>1 DEF BeginAdd, DisjointFromOthers, ActiveBundles
    <2>3. row[b].pages \cup {p} \in SUBSET Page
      BY <1>row
    <2>4. QED
      BY <1>6, <2>2, <2>3, PreparedExclusive DEF BeginAdd
  <1>7. ASSUME NEW w \in Web, Commit(w) PROVE OneActiveBundle' /\ PendingExclusive'
    <2>1. req[w].bundle \in Bundle
      BY <1>7, RequestShape DEF Commit, ExclusiveInv, BundleRequest
    <2>2. DisjointFromOthers(req[w].bundle, After(w))
      BY <1>7 DEF Commit, Pending, ExclusiveInv, PendingExclusive
    <2>3. /\ row'[req[w].bundle].pages = After(w)
          /\ \A c \in Bundle \ {req[w].bundle} : row'[c] = row[c]
      BY <1>7, <2>1 DEF Commit, After, ExclusiveInv, TypeOK
    <2>4. OneActiveBundle'
      BY <2>1, <2>2, <2>3 DEF OneActiveBundle, DisjointFromOthers, ExclusiveInv
    <2>5. ASSUME NEW v \in Web PROVE ~Pending(v)' /\ ~ReadApproved(v)'
      BY <1>7 DEF OneEditor, Commit, ExclusiveInv, TypeOK, Pending, ReadApproved, NoRequest
    <2>6. QED
      BY <2>4, <2>5 DEF PendingExclusive
  <1>8. ASSUME NEW w \in Web,
               (\E b \in Bundle : Dispatch(w, b)) \/ Abort(w) \/ PageRequestStep(w)
        PROVE  OneActiveBundle' /\ PendingExclusive'
    <2>1. row' = row /\ \A v \in Web : ~Pending(v)' /\ ~ReadApproved(v)'
      BY <1>8 DEF OneEditor, ExclusiveInv, TypeOK, Pending, ReadApproved, NoRequest, Dispatch,
         Abort, PageRequestStep, BeginUnlock, BeginPublishPage, CommitUnlock, CommitPublishPage
    <2>2. QED
      BY <2>1, ShrinkingExclusive
  <1>9. ASSUME NEW w \in Web, NEW b \in Bundle, Delete(w, b)
        PROVE  OneActiveBundle' /\ PendingExclusive'
    <2>1. \A v \in Web : ~Pending(v)' /\ ~ReadApproved(v)'
      BY <1>9 DEF OneEditor, Delete, Idle, Pending, ReadApproved, NoRequest
    <2>2. \A c \in Bundle : row'[c].status \in ActiveStatus =>
            row[c].status \in ActiveStatus /\ row'[c].pages = row[c].pages
      BY <1>9 DEF Delete, ExclusiveInv, TypeOK, ActiveStatus
    <2>3. QED
      BY <2>1, <2>2, ShrinkingExclusive
  <1>10. ASSUME NEW k \in Process, Conclude(k) PROVE OneActiveBundle' /\ PendingExclusive'
    <2>1. ASSUME NEW c \in Bundle
          PROVE  /\ row'[c].pages = row[c].pages
                 /\ row'[c].status \in ActiveStatus => row[c].status \in ActiveStatus
      <3>1. row[c] \in BundleRow
        BY DEF ExclusiveInv, TypeOK
      <3>2. run[k].bundle = c =>
              FinalStatus(k) = row[c].status \/ FinalStatus(k) \notin ActiveStatus
        BY DEF FinalStatus, ActiveStatus
      <3>3. QED
        BY <1>10, <3>1, <3>2 DEF Conclude, ExclusiveInv, TypeOK, BundleRow
    <2>2. ASSUME NEW w \in Web, Pending(w)' \/ ReadApproved(w)'
          PROVE  req'[w] = req[w] /\ req[w].bundle \in Bundle
      <3>1. (Pending(w) \/ ReadApproved(w)) /\ req'[w] = req[w]
        BY <1>10, <2>2 DEF Conclude, Pending, ReadApproved
      <3>2. QED
        BY <3>1, RequestShape DEF Pending, ReadApproved, ExclusiveInv, BundleRequest, FormRequest
    <2>3. QED
      BY <2>1, <2>2, ShrinkingExclusive
  <1>11. ASSUME row' = row, req' = req PROVE OneActiveBundle' /\ PendingExclusive'
    BY <1>11, ShrinkingExclusive
  <1>12. ASSUME NEW k \in Process, PublicationStep(k) \/ (k \in Cron /\ CommandStep(k))
         PROVE  OneActiveBundle' /\ PendingExclusive'
    BY <1>10, <1>11, <1>12
    DEF PublicationStep, CommandStep, LoadPages, PublishPage, PageFails, CalendarFails,
        ListBundles, HandleBundle
  <1>13. CASE Tick \/ UNCHANGED vars \/ \E p \in Page : PageStep(p)
    BY <1>11, <1>13 DEF Tick, vars, PageStep, EditPage, SubmitPage, ReviewPage
  <1>14. QED
    BY <1>1, <1>2, <1>3, <1>6, <1>7, <1>8, <1>9, <1>12, <1>13
    DEF Next, BundleRequestStep, Process

\* With one request at a time, and any number of publish_bundles processes
\* beside it, no page is ever in two active bundles.
THEOREM OneActiveBundleKept ==
  ASSUME OneEditor
  PROVE  Spec => []OneActiveBundle
  <1>1. Init => ExclusiveInv
    BY InitTypes
    DEF Init, ExclusiveInv, OneActiveBundle, PendingExclusive, Pending, ReadApproved, NoRequest,
        ActiveStatus
  <1>2. ExclusiveInv => OneActiveBundle
    BY DEF ExclusiveInv
  <1>3. ExclusiveInv /\ [Next]_vars => ExclusiveInv'
    BY ExclusiveKept
  <1>4. QED
    BY <1>1, <1>2, <1>3, PTL DEF Spec

---------------------------------------------------------------------------
(* The lock of approved pages.  Unlocking a page and publishing it alone   *)
(* are checked against its bundles when they are asked for and done later; *)
(* with one request at a time no bundle is approved in between.            *)

NoneApproved(p) ==
  \A b \in Bundle : row[b].status = "APPROVED" => p \notin row[b].pages

RequestedPagesFree ==
  \A w \in Web : req[w].kind \in {"unlock", "publish_page"} => NoneApproved(req[w].page)

LockedInv == ExclusiveInv /\ RequestedPagesFree

\* Only the commit of a request makes a bundle ready to publish, or gives
\* pages to one that is.
LEMMA ApprovedByCommit ==
  ASSUME TypeOK, [Next]_vars, \A w \in Web : ~Commit(w),
         NEW b \in Bundle, row'[b].status = "APPROVED"
  PROVE  row[b].status = "APPROVED" /\ row'[b].pages = row[b].pages
  <1>row. row[b] \in BundleRow
    BY DEF TypeOK
  <1>1. ASSUME NEW w \in Web, NEW c \in Bundle, Delete(w, c)
        PROVE  row[b].status = "APPROVED" /\ row'[b].pages = row[b].pages
    BY <1>1 DEF Delete, TypeOK
  <1>2. ASSUME NEW k \in Process, Conclude(k)
        PROVE  row[b].status = "APPROVED" /\ row'[b].pages = row[b].pages
    <2>1. run[k].bundle = b => FinalStatus(k) = row[b].status \/ FinalStatus(k) # "APPROVED"
      BY DEF FinalStatus
    <2>2. QED
      BY <1>2, <1>row, <2>1 DEF Conclude, TypeOK, BundleRow
  <1>3. CASE row' = row
    BY <1>3
  <1>4. QED
    BY <1>1, <1>2, <1>3
    DEF Next, vars, BundleRequestStep, PageRequestStep, PageStep, CommandStep, PublicationStep,
        BeginCreate, Dispatch, ReadInstance, Validate, BeginAdd, Abort,
        BeginUnlock, CommitUnlock, BeginPublishPage, CommitPublishPage, EditPage, SubmitPage,
        ReviewPage, ListBundles, HandleBundle, LoadPages, PublishPage, PageFails, CalendarFails,
        Tick

\* A page request that is pending after a step was pending before, or has
\* just passed its check.
LEMMA PageRequested ==
  ASSUME TypeOK, [Next]_vars, NEW w \in Web, req'[w].kind \in {"unlock", "publish_page"}
  PROVE  \/ req'[w] = req[w]
         \/ \E p \in Page : (BeginUnlock(w, p) \/ BeginPublishPage(w, p)) /\ req'[w].page = p
  <1>1. ASSUME NEW v \in Web, NEW r, req' = [req EXCEPT ![v] = r],
               r.kind \notin {"unlock", "publish_page"}
        PROVE  req'[w] = req[w]
    BY <1>1 DEF TypeOK
  <1>2. ASSUME NEW v \in Web, NEW b \in Bundle,
               \/ BeginCreate(v, b) \/ Dispatch(v, b)
               \/ \E p \in Page : BeginAdd(v, b, p)
        PROVE  req'[w] = req[w]
    <2>1. CASE BeginCreate(v, b)
      BY <1>1, <2>1 DEF BeginCreate, SaveRequest, TypeOK
    <2>2. CASE Dispatch(v, b)
      BY <1>1, <2>2 DEF Dispatch, TypeOK
    <2>3. CASE \E p \in Page : BeginAdd(v, b, p)
      BY <1>1, <2>3 DEF BeginAdd, SaveRequest, TypeOK
    <2>4. QED
      BY <1>2, <2>1, <2>2, <2>3
  <1>9. ASSUME NEW v \in Web, ReadInstance(v) \/ Validate(v)
        PROVE  req'[w] = req[w]
    <2>1. CASE ReadInstance(v)
      BY <1>1, <2>1 DEF ReadInstance, TypeOK
    <2>2. CASE Validate(v)
      <3>1. PICK s \in BundleStatus, P \in SUBSET Page, t \in Time : Validated(v, s, P, t)
        BY <2>2, ValidatedForm
      <3>2. PICK r : r = SaveRequest("save", req[v].bundle, s, P, t, Stamp(req[v].seen, s))
        OBVIOUS
      <3>3. r.kind = "save"
        BY <3>2 DEF SaveRequest
      <3>4. req' = [req EXCEPT ![v] = r]
        BY <3>1, <3>2 DEF Validated
      <3>5. QED
        BY <1>1, <3>3, <3>4
    <2>3. QED
      BY <1>9, <2>1, <2>2
  <1>3. ASSUME NEW v \in Web, Commit(v) \/ Abort(v) \/ CommitUnlock(v) \/ CommitPublishPage(v)
        PROVE  req'[w] = req[w]
    BY <1>1, <1>3 DEF Commit, Abort, CommitUnlock, CommitPublishPage, NoRequest
  <1>4. ASSUME NEW v \in Web, NEW p \in Page, BeginUnlock(v, p) \/ BeginPublishPage(v, p)
        PROVE  req'[w] = req[w] \/ (v = w /\ req'[w].page = p)
    BY <1>4 DEF BeginUnlock, BeginPublishPage, TypeOK
  <1>5. CASE req' = req
    BY <1>5
  <1>6. CASE \E v \in Web : BundleRequestStep(v)
    BY <1>2, <1>3, <1>5, <1>6, <1>9 DEF BundleRequestStep, Delete
  <1>7. CASE \E v \in Web : PageRequestStep(v)
    BY <1>3, <1>4, <1>7 DEF PageRequestStep
  <1>8. QED
    BY <1>5, <1>6, <1>7
    DEF Next, vars, PageStep, CommandStep, PublicationStep, EditPage, SubmitPage, ReviewPage,
        ListBundles, HandleBundle, LoadPages, PublishPage, PageFails, CalendarFails, Conclude, Tick

\* A page that may be unlocked is in no bundle that is ready to publish: there
\* is but one active bundle it could be in.
LEMMA CheckedIsFree ==
  ASSUME ExclusiveInv, NEW w \in Web, NEW p \in Page,
         BeginUnlock(w, p) \/ BeginPublishPage(w, p)
  PROVE  NoneApproved(p)
  <1> SUFFICES ASSUME NEW b \in Bundle, row[b].status = "APPROVED", p \in row[b].pages
               PROVE  FALSE
    BY DEF NoneApproved
  <1>1. b \in ActiveBundles(p)
    BY DEF ActiveBundles, ActiveStatus
  <1>2. PICK c \in Bundle : FirstActive(c, p) /\ ~IsReadyToBePublished(row[c])
    BY <1>1 DEF BeginUnlock, BeginPublishPage, InBundleReadyToBePublished
  <1>3. c = b
    BY <1>1, <1>2 DEF FirstActive, ActiveBundles, ExclusiveInv, OneActiveBundle
  <1>4. QED
    BY <1>2, <1>3 DEF IsReadyToBePublished

LEMMA LockedKept == OneEditor /\ LockedInv /\ [Next]_vars => LockedInv'
  <1> SUFFICES ASSUME OneEditor, LockedInv, [Next]_vars
               PROVE  RequestedPagesFree'
    BY ExclusiveKept DEF LockedInv
  <1> SUFFICES ASSUME NEW w \in Web, req'[w].kind \in {"unlock", "publish_page"}
               PROVE  NoneApproved(req[w].page)'
    BY DEF RequestedPagesFree
  <1>t. TypeOK /\ ExclusiveInv
    BY DEF LockedInv, ExclusiveInv
  <1>1. \A v \in Web : ~Commit(v)
    BY <1>t DEF OneEditor, Commit, TypeOK, NoRequest
  <1>2. NoneApproved(req'[w].page)
    <2>1. CASE req'[w] = req[w]
      BY <2>1 DEF LockedInv, RequestedPagesFree
    <2>2. CASE \E p \in Page : (BeginUnlock(w, p) \/ BeginPublishPage(w, p)) /\ req'[w].page = p
      BY <1>t, <2>2, CheckedIsFree
    <2>3. QED
      BY <1>t, <2>1, <2>2, PageRequested
  <1>3. \A b \in Bundle : row'[b].status = "APPROVED" =>
          row[b].status = "APPROVED" /\ row'[b].pages = row[b].pages
    BY <1>t, <1>1, ApprovedByCommit
  <1>4. QED
    BY <1>2, <1>3 DEF NoneApproved

LEMMA InitLocked == Init => LockedInv
  BY InitTypes
  DEF Init, LockedInv, ExclusiveInv, OneActiveBundle, PendingExclusive, Pending, ReadApproved,
      RequestedPagesFree, NoRequest, ActiveStatus

\* A page leaves the ready-to-publish step unlocked, or live as it was reviewed.
LEMMA LeavesReady ==
  ASSUME TypeOK, [Next]_vars, NEW p \in Page, page[p].step = "ready", page'[p].step # "ready"
  PROVE  \/ \E w \in Web : req[w].kind = "unlock" /\ req[w].page = p
         \/ page'[p].live = page[p].reviewed
  <1>p. page \in [Page -> PageState]
    BY DEF TypeOK
  <1>finished. ASSUME NEW q \in Page, page' = WorkflowFinished(q)
               PROVE  page'[p].live = page[p].reviewed
    BY <1>p, <1>finished DEF WorkflowFinished, PageState
  <1>1. ASSUME NEW w \in Web, CommitUnlock(w)
        PROVE  req[w].kind = "unlock" /\ req[w].page = p
    BY <1>1, <1>p DEF CommitUnlock, PageState
  <1>2. ASSUME NEW w \in Web, CommitPublishPage(w)
        PROVE  page'[p].live = page[p].reviewed
    <2>1. req[w].page \in Page
      BY <1>2, RequestShape DEF CommitPublishPage, PageRequest
    <2>2. QED
      BY <1>2, <1>finished, <2>1 DEF CommitPublishPage
  <1>3. ASSUME NEW k \in Process, PublishPage(k)
        PROVE  page'[p].live = page[p].reviewed
    <2>1. run[k] \in Running
      BY <1>3, RunShape DEF PublishPage
    <2>2. PICK e \in run[k].todo : page' = Published(e[1], e[2])
      BY <1>3 DEF PublishPage
    <2>3. e[1] \in Page /\ e[2] \in Version
      BY <2>1, <2>2 DEF Running
    <2>4. page[e[1]] \in PageState /\ page[e[1]].step \in {"none", "review", "ready"}
      BY <1>p, <2>3 DEF PageState
    <2>5. CASE page[e[1]].step = "ready"
      BY <1>finished, <2>2, <2>3, <2>5 DEF Published
    <2>6. CASE page[e[1]].step # "ready"
      BY <1>p, <2>2, <2>3, <2>4, <2>6 DEF Published, PageState
    <2>7. QED
      BY <2>5, <2>6
  <1>4. ASSUME NEW q \in Page, PageStep(q) PROVE page'[p].step = "ready"
    BY <1>4, <1>p DEF PageStep, EditPage, SubmitPage, ReviewPage, PageState
  <1>5. QED
    BY <1>1, <1>2, <1>3, <1>4
    DEF Next, vars, BundleRequestStep, PageRequestStep, CommandStep, PublicationStep,
        BeginCreate, Dispatch, ReadInstance, Validate, BeginAdd, Abort,
        Commit, Delete, BeginUnlock, BeginPublishPage, ListBundles, HandleBundle, LoadPages,
        PageFails, CalendarFails, Conclude, Tick

\* With one request at a time, whatever publish_bundles processes run beside
\* it, a page of a bundle that is ready to publish is not unlocked.
THEOREM ApprovedAreLocked ==
  ASSUME OneEditor
  PROVE  Spec => ApprovedPagesLocked
  <1> DEFINE Locked == \A b \in Bundle : \A p \in row[b].pages :
               /\ row[b].status = "APPROVED" /\ row'[b].status = "APPROVED"
               /\ page[p].step = "ready" /\ page'[p].step # "ready"
               => page'[p].live = page[p].reviewed
  <1>1. ASSUME LockedInv, [Next]_vars PROVE Locked
    <2>t. TypeOK /\ \A b \in Bundle : row[b].pages \subseteq Page
      BY <1>1 DEF LockedInv, ExclusiveInv, TypeOK, BundleRow
    <2>1. ASSUME NEW b \in Bundle, NEW p \in row[b].pages, row[b].status = "APPROVED", NEW w \in Web
          PROVE  ~(req[w].kind = "unlock" /\ req[w].page = p)
      BY <1>1, <2>1 DEF LockedInv, RequestedPagesFree, NoneApproved
    <2>2. QED
      BY <1>1, <2>t, <2>1, LeavesReady
  <1>2. LockedInv /\ [Next]_vars => [Locked]_vars
    BY <1>1
  <1>3. LockedInv /\ [Next]_vars => LockedInv'
    BY LockedKept
  <1>4. QED
    BY <1>2, <1>3, InitLocked, PTL DEF Spec, ApprovedPagesLocked

---------------------------------------------------------------------------
(* One administrator request at a time and no scheduled command: a request *)
(* that has passed its checks is then the only thing going on, so its      *)
(* commit is as good as atomic with them.                                  *)

OneByHand == OneEditor /\ Cron = {}

\* A process publishes or has a request in flight, not both.
OneThing == \A w \in Web : req[w] # NoRequest => run[w] = NotRunning

\* The status a pending request will write is the row's or is offered by it.
PendingOffered ==
  \A w \in Web : Pending(w) =>
    LET old == row[req[w].bundle].status IN
    req[w].status = old \/ req[w].status \in StatusFlow!Offered(old)

\* An action let through is still one of the row's, and what its form was read
\* with is what the row says.
ActionOffered ==
  \A w \in Web : req[w].kind \in {"post", "form"} =>
    LET old == row[req[w].bundle].status IN
    IF req[w].action = "edit" THEN old \in EditableStatus
    ELSE req[w].action \in StatusFlow!Offered(old)

InstanceFresh ==
  \A w \in Web : req[w].kind = "form" =>
    req[w].seen.status = row[req[w].bundle].status

\* Whatever is being published by hand says PUBLISHED already.
PublishingByHand ==
  \A w \in Web : run[w] # NotRunning =>
    row[run[w].bundle].status = "PUBLISHED" /\ ~run[w].update

\* A pending approval still finds its pages ready.
PendingReady ==
  \A w \in Web : Pending(w) /\ req[w].status = "APPROVED" =>
    \A p \in After(w) : page[p].step = "ready"

QuietInv ==
  /\ TypeOK /\ OneThing /\ ActionOffered /\ InstanceFresh
  /\ PendingOffered /\ PublishingByHand /\ PendingReady

\* The only web process there can be.
LEMMA Alone ==
  ASSUME OneByHand, NEW w \in Web
  PROVE  Web = {w} /\ Process = {w}
  BY DEF OneByHand, OneEditor, Process

\* A request is prepared: it is consistent with the row it was read from.
LEMMA PreparedQuiet ==
  ASSUME QuietInv, OneByHand, NEW w \in Web, NEW b \in Bundle,
         NEW kind \in {"create", "save", "add"},
         NEW s, NEW P \in SUBSET Page, NEW t, NEW a, run[w] = NotRunning,
         req' = [req EXCEPT ![w] = SaveRequest(kind, b, s, P, t, a)],
         row' = row, run' = run, page' = page,
         s = row[b].status \/ s \in StatusFlow!Offered(row[b].status),
         s = "APPROVED" => \A p \in P : page[p].step = "ready"
  PROVE  (/\ OneThing /\ ActionOffered /\ InstanceFresh
          /\ PendingOffered /\ PublishingByHand /\ PendingReady)'
  <1>1. Web = {w} /\ run[w] = NotRunning
    BY Alone
  <1>2. req'[w] = SaveRequest(kind, b, s, P, t, a)
    BY DEF QuietInv, TypeOK
  <1>3. /\ req'[w].bundle = b /\ req'[w].status = s /\ req'[w].kind = kind
        /\ After(w)' = (row[b].pages \ (row[b].pages \ P)) \cup (P \ row[b].pages)
    BY <1>2 DEF SaveRequest, After
  <1>4. After(w)' = P
    BY <1>3
  <1>5. OneThing' /\ PublishingByHand'
    BY <1>1 DEF OneThing, PublishingByHand
  <1>6. PendingOffered'
    BY <1>1, <1>3 DEF PendingOffered
  <1>7. PendingReady'
    BY <1>1, <1>3, <1>4 DEF PendingReady
  <1>8. ActionOffered' /\ InstanceFresh'
    BY <1>1, <1>3 DEF ActionOffered, InstanceFresh
  <1>9. QED
    BY <1>5, <1>6, <1>7, <1>8

\* No request pending: only the publication under way can be disturbed.
LEMMA NothingPending ==
  ASSUME OneByHand, NEW w \in Web, ~Pending(w)', req'[w].kind \notin {"post", "form"},
         PublishingByHand',
         req'[w] # NoRequest => run'[w] = NotRunning
  PROVE  (/\ OneThing /\ ActionOffered /\ InstanceFresh
          /\ PendingOffered /\ PublishingByHand /\ PendingReady)'
  BY Alone DEF OneThing, ActionOffered, InstanceFresh, PendingOffered, PendingReady

LEMMA QuietKept == OneByHand /\ QuietInv /\ [Next]_vars => QuietInv'
  <1> SUFFICES ASSUME OneByHand, QuietInv, [Next]_vars
               PROVE  (/\ OneThing /\ ActionOffered /\ InstanceFresh
                       /\ PendingOffered /\ PublishingByHand /\ PendingReady)'
    BY TypesKept DEF QuietInv
  <1> DEFINE Goal == (/\ OneThing /\ ActionOffered /\ InstanceFresh
                      /\ PendingOffered /\ PublishingByHand /\ PendingReady)'
  <1>row. ASSUME NEW b \in Bundle PROVE row[b].pages \in SUBSET Page
    BY DEF QuietInv, TypeOK, BundleRow
  <1>1. ASSUME NEW w \in Web, NEW b \in Bundle, BeginCreate(w, b) PROVE Goal
    <2>1. PICK P \in SUBSET Page, t \in Time :
            req' = [req EXCEPT ![w] = SaveRequest("create", b, "DRAFT", P, t, FALSE)]
      BY <1>1 DEF BeginCreate
    <2>2. "DRAFT" \in StatusFlow!Offered(row[b].status)
      BY <1>1 DEF BeginCreate, StatusFlow!Offered
    <2>3. run[w] = NotRunning /\ row' = row /\ run' = run /\ page' = page
      BY <1>1 DEF BeginCreate, Idle
    <2>4. PICK s, a : s = "DRAFT" /\ a = FALSE
      OBVIOUS
    <2>5. req' = [req EXCEPT ![w] = SaveRequest("create", b, s, P, t, a)]
      BY <2>1, <2>4
    <2>6. s = row[b].status \/ s \in StatusFlow!Offered(row[b].status)
      BY <2>2, <2>4
    <2>7. s = "APPROVED" => \A p \in P : page[p].step = "ready"
      BY <2>4
    <2>8. QED
      BY <2>3, <2>5, <2>6, <2>7, PreparedQuiet
  <1>2. ASSUME NEW w \in Web, NEW b \in Bundle, Dispatch(w, b) PROVE Goal
    <2>1. PICK a \in AvailableActions(b) :
            req' = [req EXCEPT ![w] = [kind |-> "post", bundle |-> b, action |-> a]]
      BY <1>2 DEF Dispatch
    <2>2. req'[w] = [kind |-> "post", bundle |-> b, action |-> a]
      BY <2>1 DEF QuietInv, TypeOK
    <2>3. Web = {w} /\ run'[w] = NotRunning /\ row' = row
      BY <1>2, Alone DEF Dispatch, Idle
    <2>4. IF a = "edit" THEN row[b].status \in EditableStatus
          ELSE a \in StatusFlow!Offered(row[b].status)
      BY DEF AvailableActions, EditableStatus, StatusFlow!Offered
    <2>5. ActionOffered'
      BY <2>2, <2>3, <2>4 DEF ActionOffered
    <2>6. OneThing' /\ InstanceFresh' /\ PendingOffered' /\ PublishingByHand' /\ PendingReady'
      BY <2>2, <2>3
      DEF OneThing, InstanceFresh, PendingOffered, PublishingByHand, PendingReady, Pending
    <2>7. QED
      BY <2>5, <2>6
  <1>3. ASSUME NEW w \in Web, ReadInstance(w) PROVE Goal
    <2> DEFINE b == req[w].bundle
    <2>1. /\ req'[w].kind = "form" /\ req'[w].bundle = b /\ req'[w].action = req[w].action
          /\ req'[w].seen.status = row[b].status
      BY <1>3 DEF ReadInstance, QuietInv, TypeOK
    <2>2. Web = {w} /\ run'[w] = NotRunning /\ row' = row
      BY <1>3, Alone DEF ReadInstance, QuietInv, OneThing, NoRequest
    <2>3. ActionOffered'
      BY <1>3, <2>1, <2>2 DEF ReadInstance, QuietInv, ActionOffered
    <2>4. OneThing' /\ InstanceFresh' /\ PendingOffered' /\ PublishingByHand' /\ PendingReady'
      BY <2>1, <2>2
      DEF OneThing, InstanceFresh, PendingOffered, PublishingByHand, PendingReady, Pending
    <2>5. QED
      BY <2>3, <2>4
  <1>4. ASSUME NEW w \in Web, Validate(w) PROVE Goal
    <2> DEFINE b == req[w].bundle
    <2>1. PICK s \in BundleStatus, P \in SUBSET Page, t \in Time : Validated(w, s, P, t)
      BY <1>4, ValidatedForm DEF QuietInv
    <2>2. b \in Bundle /\ row' = row /\ run' = run /\ page' = page /\ req[w].kind = "form"
      BY <1>4, ValidatedForm DEF QuietInv, Validate
    <2>8. run[w] = NotRunning
      BY <2>2 DEF QuietInv, OneThing, NoRequest
    <2>3. s = row[b].status \/ s \in StatusFlow!Offered(row[b].status)
      BY <2>1, <2>2 DEF Validated, PostedStatus, QuietInv, ActionOffered
    <2>4. ASSUME s = "APPROVED" PROVE \A p \in P : page[p].step = "ready"
      BY <2>1, <2>4 DEF Validated, PagesReady
    <2>5. PICK a : a = Stamp(req[w].seen, s)
      OBVIOUS
    <2>6. req' = [req EXCEPT ![w] = SaveRequest("save", b, s, P, t, a)]
      BY <2>1, <2>5 DEF Validated
    <2>7. QED
      BY <2>2, <2>3, <2>4, <2>6, <2>8, PreparedQuiet
  <1>6. ASSUME NEW w \in Web, NEW b \in Bundle, NEW p \in Page, BeginAdd(w, b, p) PROVE Goal
    <2>1. row[b].pages \cup {p} \in SUBSET Page /\ row[b].status # "APPROVED"
      BY <1>6, <1>row DEF BeginAdd, EditableStatus
    <2>2. /\ run[w] = NotRunning /\ row' = row /\ run' = run /\ page' = page
          /\ req' = [req EXCEPT ![w] =
                       SaveRequest("add", b, row[b].status, row[b].pages \cup {p},
                                   row[b].release, row[b].approved)]
      BY <1>6 DEF BeginAdd, Idle
    <2>3. QED
      BY <2>1, <2>2, PreparedQuiet
  <1>7. ASSUME NEW w \in Web, Commit(w) PROVE Goal
    <2>1. req[w] \in BundleRequest /\ run[w] = NotRunning
      BY <1>7, RequestShape DEF Commit, QuietInv, OneThing, NoRequest
    <2>2. req'[w] = NoRequest
      BY <1>7 DEF Commit, QuietInv, TypeOK
    <2>3. run'[w] # NotRunning =>
            row'[run'[w].bundle].status = "PUBLISHED" /\ ~run'[w].update
      BY <1>7, <2>1 DEF Commit, QuietInv, TypeOK, BundleRequest, Process
    <2>4. PublishingByHand'
      BY <2>3, Alone DEF PublishingByHand
    <2>5. QED
      BY <2>2, <2>4, NothingPending DEF Pending, NoRequest
  <1>8. ASSUME NEW w \in Web, Abort(w) PROVE Goal
    <2>1. req'[w] = NoRequest /\ PublishingByHand'
      BY <1>8 DEF Abort, QuietInv, TypeOK, PublishingByHand
    <2>2. QED
      BY <2>1, NothingPending DEF Pending, NoRequest
  <1>9. ASSUME NEW w \in Web, NEW b \in Bundle, Delete(w, b) PROVE Goal
    <2>1. run'[w] = NotRunning /\ req'[w] = NoRequest
      BY <1>9 DEF Delete, Idle
    <2>2. PublishingByHand'
      BY <2>1, Alone DEF PublishingByHand
    <2>3. QED
      BY <2>1, <2>2, NothingPending DEF Pending, NoRequest
  <1>10. ASSUME NEW w \in Web, PageRequestStep(w) PROVE Goal
    <2>1. ~Pending(w)' /\ req'[w].kind \notin {"post", "form"}
      BY <1>10 DEF QuietInv, TypeOK, Pending, NoRequest, PageRequestStep,
         BeginUnlock, BeginPublishPage, CommitUnlock, CommitPublishPage
    <2>2. PublishingByHand'
      BY <1>10 DEF QuietInv, PublishingByHand, PageRequestStep,
         BeginUnlock, BeginPublishPage, CommitUnlock, CommitPublishPage
    <2>3. run'[w] = NotRunning
      <3>1. CASE \E p \in Page : BeginUnlock(w, p) \/ BeginPublishPage(w, p)
        BY <3>1 DEF BeginUnlock, BeginPublishPage, Idle
      <3>2. CASE CommitUnlock(w) \/ CommitPublishPage(w)
        BY <3>2 DEF QuietInv, OneThing, CommitUnlock, CommitPublishPage, NoRequest
      <3>3. QED
        BY <1>10, <3>1, <3>2 DEF PageRequestStep
    <2>4. QED
      BY <2>1, <2>2, <2>3, NothingPending
  <1>11. ASSUME NEW w \in Web, PublicationStep(w) PROVE Goal
    <2>1. run[w] # NotRunning
      BY <1>11 DEF PublicationStep, LoadPages, PublishPage, PageFails, CalendarFails, Conclude,
         PagesDone, NotRunning
    <2>2. req[w] = NoRequest /\ req' = req
      BY <1>11, <2>1 DEF QuietInv, OneThing, PublicationStep, LoadPages, PublishPage, PageFails,
         CalendarFails, Conclude
    <2>3. PublishingByHand'
      <3>1. CASE LoadPages(w) \/ PublishPage(w) \/ PageFails(w)
        <4>1. /\ row' = row /\ run'[w].bundle = run[w].bundle /\ run'[w].update = run[w].update
          <5>1. run[w] \in Running
            BY <2>1 DEF QuietInv, TypeOK, Process
          <5>2. CASE LoadPages(w)
            BY <5>1, <5>2 DEF LoadPages, QuietInv, TypeOK, Process, Running
          <5>3. CASE PublishPage(w)
            BY <5>1, <5>3 DEF PublishPage, QuietInv, TypeOK, Process, Running
          <5>4. CASE PageFails(w)
            BY <5>1, <5>4 DEF PageFails, QuietInv, TypeOK, Process, Running
          <5>5. QED
            BY <3>1, <5>2, <5>3, <5>4
        <4>2. QED
          BY <2>1, <4>1, Alone DEF PublishingByHand, QuietInv
      <3>2. CASE CalendarFails(w) \/ Conclude(w)
        <4>1. run'[w] = NotRunning
          BY <3>2 DEF CalendarFails, Conclude, QuietInv, TypeOK, Process
        <4>2. QED
          BY <4>1, Alone DEF PublishingByHand
      <3>3. QED
        BY <1>11, <3>1, <3>2 DEF PublicationStep
    <2>4. QED
      BY <2>2, <2>3, NothingPending DEF Pending, NoRequest
  <1>12. ASSUME NEW p \in Page, PageStep(p) PROVE Goal
    <2>1. row' = row /\ req' = req /\ run' = run
      BY <1>12 DEF PageStep, EditPage, SubmitPage, ReviewPage
    <2>2. \A q \in Page : page[q].step = "ready" => page'[q].step = "ready"
      BY <1>12 DEF PageStep, EditPage, SubmitPage, ReviewPage, QuietInv, TypeOK, PageState
    <2>3. \A w \in Web : Pending(w) => After(w) \subseteq Page
      BY RequestShape, <1>row DEF QuietInv, Pending, After, BundleRequest
    <2>4. ActionOffered' /\ InstanceFresh'
      BY <2>1 DEF QuietInv, ActionOffered, InstanceFresh
    <2>5. QED
      BY <2>1, <2>2, <2>3, <2>4
      DEF QuietInv, OneThing, PendingOffered, PublishingByHand, PendingReady, Pending, After
  <1>13. CASE Tick \/ UNCHANGED vars
    BY <1>13 DEF Tick, vars, QuietInv, OneThing, ActionOffered, InstanceFresh, PendingOffered,
       PublishingByHand, PendingReady, Pending, After
  <1>14. QED
    BY <1>1, <1>2, <1>3, <1>4, <1>6, <1>7, <1>8, <1>9, <1>10, <1>11, <1>12, <1>13
    DEF Next, BundleRequestStep, Process, OneByHand

LEMMA InitQuiet == Init => QuietInv
  BY InitTypes
  DEF Init, QuietInv, OneThing, ActionOffered, InstanceFresh, PendingOffered, PublishingByHand,
      PendingReady, Pending, NoRequest, NotRunning, Process

---------------------------------------------------------------------------
(* The status flow.                                                        *)

FlowStatus == [b \in Bundle |-> row[b].status]

\* A step that gives bundle b a status it offers, and leaves the others.
LEMMA FlowMove ==
  ASSUME NEW b \in Bundle, NEW s, row' \in [Bundle -> BundleRow],
         s = row[b].status \/ s \in StatusFlow!Offered(row[b].status)
                           \/ s \in StatusFlow!Corrected(row[b].status),
         row'[b].status = s, \A c \in Bundle \ {b} : row'[c].status = row[c].status
  PROVE  [StatusFlow!Next]_FlowStatus
  <1>1. FlowStatus' = [FlowStatus EXCEPT ![b] = s]
    BY DEF FlowStatus
  <1>2. CASE s = row[b].status
    BY <1>1, <1>2 DEF FlowStatus
  <1>3. CASE s # row[b].status
    <2>1. s \in StatusFlow!Offered(FlowStatus[b]) \cup StatusFlow!Corrected(FlowStatus[b])
      BY <1>3 DEF FlowStatus
    <2>2. QED
      BY <1>1, <2>1 DEF StatusFlow!Next, StatusFlow!Move, FlowStatus
  <1>4. QED
    BY <1>2, <1>3

LEMMA FlowStep == OneByHand /\ QuietInv /\ [Next]_vars => [StatusFlow!Next]_FlowStatus
  <1> SUFFICES ASSUME OneByHand, QuietInv, [Next]_vars PROVE [StatusFlow!Next]_FlowStatus
    OBVIOUS
  <1>t. row' \in [Bundle -> BundleRow]
    BY TypesKept DEF QuietInv, TypeOK
  <1>1. ASSUME NEW w \in Web, Commit(w) PROVE [StatusFlow!Next]_FlowStatus
    <2>1. req[w] \in BundleRequest /\ req[w].bundle \in Bundle
      BY <1>1, RequestShape DEF Commit, QuietInv, BundleRequest
    <2>2. \/ req[w].status = row[req[w].bundle].status
          \/ req[w].status \in StatusFlow!Offered(row[req[w].bundle].status)
      BY <1>1 DEF Commit, QuietInv, PendingOffered, Pending
    <2>3. /\ row'[req[w].bundle].status = req[w].status
          /\ \A c \in Bundle \ {req[w].bundle} : row'[c].status = row[c].status
      BY <1>1, <2>1 DEF Commit, QuietInv, TypeOK
    <2>4. QED
      BY <1>t, <2>1, <2>2, <2>3, FlowMove
  <1>2. ASSUME NEW w \in Web, NEW b \in Bundle, Delete(w, b) PROVE [StatusFlow!Next]_FlowStatus
    <2>1. "DELETED" \in StatusFlow!Offered(row[b].status)
      BY <1>2 DEF Delete, DeletableStatus, StatusFlow!Offered
    <2>2. /\ row'[b].status = "DELETED"
          /\ \A c \in Bundle \ {b} : row'[c].status = row[c].status
      BY <1>2 DEF Delete, QuietInv, TypeOK
    <2>3. QED
      BY <1>t, <2>1, <2>2, FlowMove
  <1>3. ASSUME NEW w \in Web, Conclude(w) PROVE [StatusFlow!Next]_FlowStatus
    <2>1. run[w] # NotRunning /\ run[w].bundle \in Bundle
      BY <1>3, RunShape DEF Conclude, PagesDone, NotRunning, QuietInv, Running, Process
    <2>2. row[run[w].bundle].status = "PUBLISHED" /\ ~run[w].update
      BY <2>1 DEF QuietInv, PublishingByHand
    <2>3. FinalStatus(w) \in {"PUBLISHED", "FAILED", "PARTIALLY_PUBLISHED"}
      BY <2>2 DEF FinalStatus
    <2>4. \/ FinalStatus(w) = row[run[w].bundle].status
          \/ FinalStatus(w) \in StatusFlow!Corrected(row[run[w].bundle].status)
      BY <2>2, <2>3 DEF StatusFlow!Corrected
    <2>5. row[run[w].bundle] \in BundleRow
      BY <2>1 DEF QuietInv, TypeOK
    <2>6. /\ row'[run[w].bundle].status = FinalStatus(w)
          /\ \A c \in Bundle \ {run[w].bundle} : row'[c].status = row[c].status
      BY <1>3, <2>1, <2>2, <2>5 DEF Conclude, QuietInv, TypeOK, Exists, BundleRow
    <2>7. QED
      BY <1>t, <2>1, <2>4, <2>6, FlowMove
  <1>4. ASSUME row' = row PROVE [StatusFlow!Next]_FlowStatus
    BY <1>4 DEF FlowStatus
  <1>5. QED
    BY <1>1, <1>2, <1>3, <1>4
    DEF Next, vars, BundleRequestStep, PageRequestStep, PageStep, CommandStep, PublicationStep,
        BeginCreate, Dispatch, ReadInstance, Validate, BeginAdd, Abort,
        BeginUnlock, CommitUnlock, BeginPublishPage, CommitPublishPage, EditPage, SubmitPage,
        ReviewPage, ListBundles, HandleBundle, LoadPages, PublishPage, PageFails, CalendarFails,
        Tick, Process, OneByHand

\* One administrator at a time and no scheduled command: the bundle table
\* implements the status flow of the admin's buttons, failed publications
\* included.
THEOREM FollowsFlow ==
  ASSUME OneByHand
  PROVE  Spec => FollowsStatusFlow
  <1>1. Init => StatusFlow!Init
    BY DEF Init, StatusFlow!Init
  <1>2. QuietInv /\ [Next]_vars => [StatusFlow!Next]_FlowStatus
    BY FlowStep
  <1>3. QuietInv /\ [Next]_vars => QuietInv'
    BY QuietKept
  <1>4. QED
    BY <1>1, <1>2, <1>3, InitQuiet, PTL DEF Spec, FollowsStatusFlow, StatusFlow!Spec, FlowStatus

---------------------------------------------------------------------------
(* Approvals.                                                              *)

\* One administrator at a time and no scheduled command: a bundle becomes
\* ready to publish only when each of its pages is.
THEOREM ApprovedAreReady ==
  ASSUME OneByHand
  PROVE  Spec => ApprovedWhenReady
  <1> DEFINE Ready(b) == row'[b].status = "APPROVED" /\ row[b].status # "APPROVED"
                         => \A p \in row'[b].pages : page'[p].step = "ready"
  <1>1. ASSUME QuietInv, [Next]_vars PROVE \A b \in Bundle : Ready(b)
    <2> SUFFICES ASSUME NEW b \in Bundle, row'[b].status = "APPROVED",
                        row[b].status # "APPROVED", NEW p \in row'[b].pages
                 PROVE  page'[p].step = "ready"
      OBVIOUS
    <2>1. PICK w \in Web : Commit(w) \/ Delete(w, b) \/ Conclude(w)
      BY <1>1
      DEF Next, vars, BundleRequestStep, PageRequestStep, PageStep, CommandStep, PublicationStep,
          BeginCreate, Dispatch, ReadInstance, Validate, BeginAdd, Abort,
          BeginUnlock, CommitUnlock, BeginPublishPage, CommitPublishPage, EditPage, SubmitPage,
          ReviewPage, ListBundles, HandleBundle, LoadPages, PublishPage, PageFails, CalendarFails,
          Tick, Process, OneByHand, Delete, QuietInv, TypeOK
    <2>2. row[b] \in BundleRow
      BY <1>1 DEF QuietInv, TypeOK
    <2>3. ~Delete(w, b)
      BY <1>1, <2>2 DEF Delete, QuietInv, TypeOK
    <2>4. ~Conclude(w)
      BY <1>1, <2>2 DEF Conclude, FinalStatus, QuietInv, TypeOK, BundleRow
    <2>5. Commit(w) /\ req[w] \in BundleRequest
      BY <1>1, <2>1, <2>3, <2>4, RequestShape DEF Commit, QuietInv
    <2>6. req[w].bundle = b /\ req[w].status = "APPROVED" /\ row'[b].pages = After(w)
      BY <1>1, <2>5 DEF Commit, QuietInv, TypeOK, BundleRequest, After
    <2>7. page[p].step = "ready" /\ page' = page
      BY <1>1, <2>5, <2>6 DEF Commit, QuietInv, PendingReady, Pending
    <2>8. QED
      BY <2>7
  <1>2. QuietInv /\ [Next]_vars => [\A b \in Bundle : Ready(b)]_vars
    BY <1>1
  <1>3. QuietInv /\ [Next]_vars => QuietInv'
    BY QuietKept
  <1>4. QED
    BY <1>2, <1>3, InitQuiet, PTL DEF Spec, ApprovedWhenReady

---------------------------------------------------------------------------
(* What goes live by hand.  The pages of an approved bundle stay ready, so *)
(* the publication that follows finds each of them ready and releases the  *)
(* revision that was reviewed, never the one it loaded.                    *)

\* The versions of a page: live, reviewed, latest.
VersionsInOrder ==
  \A p \in Page :
    /\ page[p].live <= page[p].reviewed
    /\ page[p].reviewed <= page[p].draft
    /\ page[p].draft > 0
    /\ page[p].step = "ready" => page[p].reviewed > 0

ApprovedReady ==
  \A b \in Bundle : row[b].status = "APPROVED" => \A p \in row[b].pages : page[p].step = "ready"

\* A pending publication by hand was asked for the bundle as it is.
PublishChecked ==
  \A w \in Web : Pending(w) /\ req[w].status = "PUBLISHED" =>
    row[req[w].bundle].status = "APPROVED" /\ After(w) = row[req[w].bundle].pages

\* The pages a publication has still to come to.
ToPublish(w) ==
  IF run[w].step = "started" THEN row[run[w].bundle].pages
  ELSE {e[1] : e \in run[w].todo}

RunningReady ==
  \A w \in Web : run[w] # NotRunning =>
    /\ \A p \in ToPublish(w) : page[p].step = "ready" /\ NoneApproved(p)
    /\ \A e, f \in run[w].todo : e[1] = f[1] => e = f

HandInv ==
  LockedInv /\ QuietInv /\ VersionsInOrder /\ ApprovedReady /\ PublishChecked /\ RunningReady

LEMMA HandTypes ==
  ASSUME HandInv
  PROVE  /\ TypeOK
         /\ \A p \in Page : /\ page[p] \in PageState /\ page[p].draft \in Nat
                            /\ page[p].reviewed \in Nat /\ page[p].live \in Nat
         /\ \A b \in Bundle : row[b].pages \subseteq Page
  BY DEF HandInv, QuietInv, TypeOK, PageState, Version, BundleRow

\* The publication under way.
LEMMA RunningTypes ==
  ASSUME HandInv, NEW w \in Web, run[w] # NotRunning
  PROVE  /\ run[w] \in Running /\ run[w].bundle \in Bundle
         /\ row[run[w].bundle].status = "PUBLISHED"
         /\ req[w] = NoRequest
         /\ \A e \in run[w].todo : e[1] \in Page
  BY DEF HandInv, QuietInv, TypeOK, Process, Running, PublishingByHand, OneThing

\* Every page a publication comes to is ready: its workflow is finished.
LEMMA PublishesReady ==
  ASSUME HandInv, NEW w \in Web, PublishPage(w)
  PROVE  \E e \in run[w].todo :
           /\ e[1] \in Page /\ page[e[1]].step = "ready" /\ NoneApproved(e[1])
           /\ page' = WorkflowFinished(e[1])
           /\ run' = [run EXCEPT ![w].todo = @ \ {e}, ![w].some = TRUE]
  <1>1. run[w].step = "pages" /\ run[w] # NotRunning
    BY DEF PublishPage, NotRunning
  <1>2. PICK e \in run[w].todo :
          /\ page' = Published(e[1], e[2])
          /\ run' = [run EXCEPT ![w].todo = @ \ {e}, ![w].some = TRUE]
    BY DEF PublishPage
  <1>3. e[1] \in ToPublish(w)
    BY <1>1 DEF ToPublish
  <1>4. page[e[1]].step = "ready" /\ NoneApproved(e[1])
    BY <1>1, <1>3 DEF HandInv, RunningReady
  <1>5. page' = WorkflowFinished(e[1])
    BY <1>2, <1>4 DEF Published
  <1>6. QED
    BY <1>1, <1>2, <1>4, <1>5, RunningTypes

\* What one step does to one page.
PageMove(p) ==
  \/ page'[p] = page[p]
  \/ page[p].step # "ready" /\ page'[p] = [page[p] EXCEPT !.draft = @ + 1]
  \/ page[p].step = "none" /\ page'[p] = [page[p] EXCEPT !.step = "review"]
  \/ /\ page[p].step = "review"
     /\ page'[p] = [page[p] EXCEPT !.step = "ready", !.reviewed = page[p].draft]
  \/ /\ page[p].step = "ready" /\ NoneApproved(p)
     /\ \/ page'[p] = [page[p] EXCEPT !.step = "review"]
        \/ page'[p] = [page[p] EXCEPT !.step = "none", !.live = page[p].reviewed]

LEMMA PageMoves ==
  ASSUME HandInv, OneByHand, [Next]_vars, NEW p \in Page
  PROVE  PageMove(p)
  <1> USE DEF PageMove
  <1>t. page \in [Page -> PageState]
    BY HandTypes DEF TypeOK
  <1>1. ASSUME NEW q \in Page, PageStep(q) PROVE PageMove(p)
    <2>1. CASE EditPage(q)
      BY <1>t, <2>1 DEF EditPage
    <2>2. CASE SubmitPage(q)
      BY <1>t, <2>2 DEF SubmitPage
    <2>3. CASE ReviewPage(q)
      BY <1>t, <2>3 DEF ReviewPage
    <2>4. QED
      BY <1>1, <2>1, <2>2, <2>3 DEF PageStep
  <1>finished. ASSUME NEW q \in Page, page[q].step = "ready", NoneApproved(q),
                      page' = WorkflowFinished(q)
               PROVE  PageMove(p)
    <2>1. page' = [page EXCEPT ![q] = [page[q] EXCEPT !.step = "none", !.live = page[q].reviewed]]
      BY <1>t, <1>finished DEF WorkflowFinished
    <2>2. \/ page'[p] = page[p]
          \/ p = q /\ page'[p] = [page[p] EXCEPT !.step = "none", !.live = page[p].reviewed]
      BY <1>t, <2>1
    <2>3. QED
      BY <1>finished, <2>2
  <1>2. ASSUME NEW w \in Web, CommitUnlock(w) \/ CommitPublishPage(w) PROVE PageMove(p)
    <2>1. NoneApproved(req[w].page)
      BY <1>2 DEF CommitUnlock, CommitPublishPage, HandInv, LockedInv, RequestedPagesFree
    <2>2. req[w].page \in Page
      BY <1>2, HandTypes, RequestShape DEF CommitUnlock, CommitPublishPage, PageRequest
    <2>3. CASE CommitUnlock(w)
      <3>1. /\ page' = [page EXCEPT ![req[w].page] = [page[req[w].page] EXCEPT !.step = "review"]]
            /\ page[req[w].page].step = "ready"
        BY <2>3 DEF CommitUnlock
      <3>2. \/ page'[p] = page[p]
            \/ p = req[w].page /\ page'[p] = [page[p] EXCEPT !.step = "review"]
        BY <1>t, <2>2, <3>1
      <3>3. QED
        BY <2>1, <3>1, <3>2
    <2>4. CASE CommitPublishPage(w)
      BY <1>finished, <2>1, <2>2, <2>4 DEF CommitPublishPage
    <2>5. QED
      BY <1>2, <2>3, <2>4
  <1>3. ASSUME NEW w \in Web, PublishPage(w) PROVE PageMove(p)
    <2>1. PICK q \in Page : /\ page[q].step = "ready" /\ NoneApproved(q)
                            /\ page' = WorkflowFinished(q)
      BY <1>3, PublishesReady
    <2>2. QED
      BY <1>finished, <2>1
  <1>4. CASE page' = page
    BY <1>4
  <1>5. QED
    BY <1>1, <1>2, <1>3, <1>4
    DEF Next, vars, BundleRequestStep, PageRequestStep, CommandStep, PublicationStep,
        BeginCreate, Dispatch, ReadInstance, Validate, BeginAdd, Abort,
        Commit, Delete, BeginUnlock, BeginPublishPage, ListBundles, HandleBundle, LoadPages,
        PageFails, CalendarFails, Conclude, Tick, Process, OneByHand

LEMMA VersionsKept ==
  ASSUME HandInv, OneByHand, [Next]_vars
  PROVE  VersionsInOrder' /\ \A p \in Page : page'[p].live >= page[p].live
  <1>1. ASSUME NEW p \in Page
        PROVE  /\ page'[p].live <= page'[p].reviewed
               /\ page'[p].reviewed <= page'[p].draft
               /\ page'[p].draft > 0
               /\ page'[p].step = "ready" => page'[p].reviewed > 0
               /\ page'[p].live >= page[p].live
    <2>1. /\ page[p] \in PageState /\ page[p].draft \in Nat
          /\ page[p].reviewed \in Nat /\ page[p].live \in Nat
      BY HandTypes
    <2>2. /\ page[p].live <= page[p].reviewed
          /\ page[p].reviewed <= page[p].draft
          /\ page[p].draft > 0
          /\ page[p].step = "ready" => page[p].reviewed > 0
      BY DEF HandInv, VersionsInOrder
    <2>3. CASE page'[p] = page[p]
      BY <2>1, <2>2, <2>3
    <2>4. CASE page[p].step # "ready" /\ page'[p] = [page[p] EXCEPT !.draft = @ + 1]
      BY <2>1, <2>2, <2>4 DEF PageState
    <2>5. CASE \/ page[p].step = "none" /\ page'[p] = [page[p] EXCEPT !.step = "review"]
               \/ page[p].step = "ready" /\ page'[p] = [page[p] EXCEPT !.step = "review"]
      BY <2>1, <2>2, <2>5 DEF PageState
    <2>6. CASE page'[p] = [page[p] EXCEPT !.step = "ready", !.reviewed = page[p].draft]
      BY <2>1, <2>2, <2>6 DEF PageState
    <2>7. CASE page'[p] = [page[p] EXCEPT !.step = "none", !.live = page[p].reviewed]
      BY <2>1, <2>2, <2>7 DEF PageState
    <2>8. QED
      BY <2>3, <2>4, <2>5, <2>6, <2>7, PageMoves DEF PageMove
  <1>2. QED
    BY <1>1 DEF VersionsInOrder

LEMMA ApprovedReadyKept ==
  ASSUME HandInv, OneByHand, [Next]_vars
  PROVE  ApprovedReady'
  <1> SUFFICES ASSUME NEW b \in Bundle, row'[b].status = "APPROVED", NEW p \in row'[b].pages
               PROVE  page'[p].step = "ready"
    BY DEF ApprovedReady
  <1>t. TypeOK
    BY HandTypes
  <1>1. CASE \E w \in Web : Commit(w)
    <2>1. PICK w \in Web : Commit(w)
      BY <1>1
    <2>2. req[w] \in BundleRequest /\ req[w].bundle \in Bundle
      BY <1>t, <2>1, RequestShape DEF Commit, BundleRequest
    <2>3. /\ row'[req[w].bundle].status = req[w].status
          /\ row'[req[w].bundle].pages = After(w)
          /\ \A c \in Bundle \ {req[w].bundle} : row'[c] = row[c]
          /\ page' = page
      BY <1>t, <2>1, <2>2 DEF Commit, After, TypeOK
    <2>4. CASE b = req[w].bundle
      BY <2>1, <2>3, <2>4 DEF Commit, HandInv, QuietInv, PendingReady, Pending
    <2>5. CASE b # req[w].bundle
      BY <2>3, <2>5 DEF HandInv, ApprovedReady
    <2>6. QED
      BY <2>4, <2>5
  <1>2. CASE \A w \in Web : ~Commit(w)
    <2>1. row[b].status = "APPROVED" /\ p \in row[b].pages
      BY <1>t, <1>2, ApprovedByCommit
    <2>2. p \in Page /\ page[p].step = "ready" /\ ~NoneApproved(p) /\ page[p] \in PageState
      BY <2>1, HandTypes DEF HandInv, ApprovedReady, NoneApproved
    <2>3. page'[p] = page[p]
      BY <2>2, PageMoves DEF PageMove
    <2>4. QED
      BY <2>2, <2>3
  <1>3. QED
    BY <1>1, <1>2

LEMMA PublishCheckedKept ==
  ASSUME HandInv, OneByHand, [Next]_vars
  PROVE  PublishChecked'
  <1> SUFFICES ASSUME NEW w \in Web, Pending(w)', req'[w].status = "PUBLISHED"
               PROVE  (row[req[w].bundle].status = "APPROVED" /\ After(w) = row[req[w].bundle].pages)'
    BY DEF PublishChecked
  <1>t. TypeOK /\ Web = {w} /\ Process = {w} /\ Cron = {}
    BY HandTypes, Alone DEF OneByHand
  <1>1. CASE Validate(w)
    <2> DEFINE b == req[w].bundle
    <2>1. PICK s \in BundleStatus, P \in SUBSET Page, t \in Time : Validated(w, s, P, t)
      BY <1>t, <1>1, ValidatedForm
    <2>2. row' = row /\ req[w].kind = "form" /\ row[b].pages \in SUBSET Page
      BY <1>t, <1>1, ValidatedForm DEF Validate, TypeOK, BundleRow
    <2>3. PICK a : a = Stamp(req[w].seen, s)
      OBVIOUS
    <2>4. req'[w] = SaveRequest("save", b, s, P, t, a)
      BY <1>t, <2>1, <2>3 DEF Validated, TypeOK
    <2>5. req'[w].bundle = b /\ s = "PUBLISHED"
      BY <2>4 DEF SaveRequest
    <2>6. row[b].status = "APPROVED" /\ req[w].seen.status = "APPROVED"
      BY <2>1, <2>2, <2>5
      DEF Validated, PostedStatus, HandInv, QuietInv, ActionOffered, InstanceFresh,
          EditableStatus, StatusFlow!Offered
    <2>7. P = row[b].pages
      BY <2>1, <2>6 DEF Validated
    <2>8. After(w)' = row[b].pages
      BY <2>2, <2>4, <2>7 DEF SaveRequest, After
    <2>9. QED
      BY <2>2, <2>5, <2>6, <2>8
  <1>2. CASE req' = req /\ row' = row
    BY <1>2 DEF HandInv, PublishChecked, Pending, After
  <1>3. ASSUME NEW b \in Bundle, BeginCreate(w, b) PROVE FALSE
    BY <1>t, <1>3 DEF BeginCreate, SaveRequest, TypeOK
  <1>4. ASSUME NEW b \in Bundle, Dispatch(w, b) PROVE FALSE
    BY <1>t, <1>4 DEF Dispatch, Pending, TypeOK
  <1>5. ASSUME ReadInstance(w) PROVE FALSE
    BY <1>t, <1>5 DEF ReadInstance, Pending, TypeOK
  <1>6. ASSUME NEW b \in Bundle, NEW p \in Page, BeginAdd(w, b, p) PROVE FALSE
    BY <1>t, <1>6 DEF BeginAdd, SaveRequest, EditableStatus, TypeOK
  <1>7. ASSUME Commit(w) \/ Abort(w) \/ PageRequestStep(w) PROVE FALSE
    BY <1>t, <1>7 DEF Commit, Abort, PageRequestStep, BeginUnlock, BeginPublishPage, CommitUnlock,
       CommitPublishPage, Pending, NoRequest, TypeOK
  <1>8. ASSUME (\E b \in Bundle : Delete(w, b)) \/ PublicationStep(w) PROVE FALSE
    <2>1. req'[w] = NoRequest
      <3>1. CASE \E b \in Bundle : Delete(w, b)
        BY <3>1 DEF Delete, Idle
      <3>2. CASE PublicationStep(w)
        <4>1. run[w] # NotRunning /\ req' = req
          BY <3>2 DEF PublicationStep, LoadPages, PublishPage, PageFails, CalendarFails, Conclude,
             PagesDone, NotRunning
        <4>2. QED
          BY <4>1, RunningTypes
      <3>3. QED
        BY <1>8, <3>1, <3>2
    <2>2. QED
      BY <2>1 DEF Pending, NoRequest
  <1>9. QED
    BY <1>t, <1>1, <1>2, <1>3, <1>4, <1>5, <1>6, <1>7, <1>8
    DEF Next, vars, BundleRequestStep, PageStep, EditPage, SubmitPage, ReviewPage, Tick

\* A step that leaves the publication and the rows alone, and every page that is
\* ready.
LEMMA RunningUntouched ==
  ASSUME HandInv, UNCHANGED <<run, row>>,
         \A p \in Page : page[p].step = "ready" => page'[p].step = "ready"
  PROVE  RunningReady'
  <1> SUFFICES ASSUME NEW w \in Web, run[w] # NotRunning
               PROVE  /\ \A p \in ToPublish(w) : page'[p].step = "ready" /\ NoneApproved(p)'
                      /\ ToPublish(w)' = ToPublish(w)
                      /\ \A e, f \in run[w].todo : e[1] = f[1] => e = f
    BY DEF RunningReady
  <1>1. ToPublish(w)' = ToPublish(w) /\ \A p : NoneApproved(p)' <=> NoneApproved(p)
    BY DEF ToPublish, NoneApproved
  <1>2. ToPublish(w) \subseteq Page
    BY RunningTypes, HandTypes DEF ToPublish
  <1>3. QED
    BY <1>1, <1>2 DEF HandInv, RunningReady

LEMMA RunningReadyKept ==
  ASSUME HandInv, OneByHand, [Next]_vars
  PROVE  RunningReady'
  <1> SUFFICES ASSUME NEW w \in Web, run'[w] # NotRunning
               PROVE  /\ \A p \in ToPublish(w)' : page'[p].step = "ready" /\ NoneApproved(p)'
                      /\ \A e, f \in run'[w].todo : e[1] = f[1] => e = f
    BY DEF RunningReady
  <1> DEFINE Goal == /\ \A p \in ToPublish(w)' : page'[p].step = "ready" /\ NoneApproved(p)'
                     /\ \A e, f \in run'[w].todo : e[1] = f[1] => e = f
  <1>t. TypeOK /\ Web = {w} /\ Process = {w} /\ Cron = {}
    BY HandTypes, Alone DEF OneByHand
  <1>r. run \in [Process -> Running \cup {NotRunning}]
    BY <1>t DEF TypeOK
  <1>now. run[w] # NotRunning =>
            /\ \A p \in ToPublish(w) : page[p].step = "ready" /\ NoneApproved(p)
            /\ \A e, f \in run[w].todo : e[1] = f[1] => e = f
    BY DEF HandInv, RunningReady
  <1>1. CASE Commit(w)
    <2> DEFINE b == req[w].bundle
    <2>1. run[w] = NotRunning
      BY <1>1 DEF Commit, HandInv, QuietInv, OneThing, NoRequest
    <2>2. /\ req[w].status = "PUBLISHED"
          /\ run'[w] = [step |-> "started", bundle |-> b, update |-> FALSE,
                        todo |-> {}, some |-> FALSE, failed |-> FALSE]
      BY <1>1, <1>r, <1>t, <2>1 DEF Commit
    <2>3. b \in Bundle
      BY <1>1, <1>t, RequestShape DEF Commit, BundleRequest
    <2>4. row[b].status = "APPROVED" /\ After(w) = row[b].pages
      BY <1>1, <2>2 DEF Commit, Pending, HandInv, PublishChecked
    <2>5. /\ row'[b].status = "PUBLISHED" /\ row'[b].pages = row[b].pages /\ page' = page
          /\ \A c \in Bundle \ {b} : row'[c] = row[c]
      BY <1>1, <1>t, <2>2, <2>3, <2>4 DEF Commit, After, TypeOK
    <2>6. ToPublish(w)' = row[b].pages
      BY <2>2, <2>5 DEF ToPublish
    <2>7. ASSUME NEW p \in row[b].pages
          PROVE  page[p].step = "ready" /\ NoneApproved(p)'
      <3>1. page[p].step = "ready"
        BY <2>3, <2>4 DEF HandInv, ApprovedReady
      <3>2. ASSUME NEW c \in Bundle, row'[c].status = "APPROVED" PROVE p \notin row'[c].pages
        BY <2>3, <2>4, <2>5, <3>2
        DEF HandInv, LockedInv, ExclusiveInv, OneActiveBundle, ActiveStatus
      <3>3. QED
        BY <3>1, <3>2 DEF NoneApproved
    <2>8. QED
      BY <2>2, <2>5, <2>6, <2>7
  <1>2. CASE LoadPages(w)
    <2>1. run[w] # NotRunning /\ run[w].step = "started" /\ UNCHANGED <<row, page>>
      BY <1>2 DEF LoadPages, NotRunning
    <2>2. /\ run'[w].step = "pages"
          /\ run'[w].todo = {<<p, page[p].draft>> : p \in row[run[w].bundle].pages}
      BY <1>2, <1>r, <1>t, <2>1, RunningTypes DEF LoadPages, Running
    <2>3. ToPublish(w)' \subseteq ToPublish(w)
      <3>1. ToPublish(w) = row[run[w].bundle].pages /\ ToPublish(w)' = {e[1] : e \in run'[w].todo}
        BY <2>1, <2>2 DEF ToPublish
      <3>2. \A e \in run'[w].todo : e[1] \in row[run[w].bundle].pages
        BY <2>2
      <3>3. QED
        BY <3>1, <3>2
    <2>4. \A p : NoneApproved(p)' <=> NoneApproved(p)
      BY <2>1 DEF NoneApproved
    <2>5. QED
      BY <1>now, <2>1, <2>2, <2>3, <2>4
  <1>3. CASE PublishPage(w)
    <2>1. run[w] # NotRunning /\ run[w].step = "pages" /\ row' = row
      BY <1>3 DEF PublishPage, NotRunning
    <2>2. PICK e \in run[w].todo :
            /\ e[1] \in Page /\ page' = WorkflowFinished(e[1])
            /\ run' = [run EXCEPT ![w].todo = @ \ {e}, ![w].some = TRUE]
      BY <1>3, PublishesReady
    <2>3. run'[w].step = "pages" /\ run'[w].todo = run[w].todo \ {e}
      BY <1>r, <1>t, <2>1, <2>2, RunningTypes DEF Running
    <2>4. ToPublish(w)' \subseteq ToPublish(w) \ {e[1]}
      BY <1>now, <2>1, <2>2, <2>3 DEF ToPublish
    <2>5. \A p \in Page \ {e[1]} : page'[p] = page[p]
      BY <2>2, HandTypes DEF WorkflowFinished, TypeOK
    <2>6. ToPublish(w) \subseteq Page
      BY <2>1, RunningTypes DEF ToPublish
    <2>7. \A p : NoneApproved(p)' <=> NoneApproved(p)
      BY <2>1 DEF NoneApproved
    <2>8. QED
      BY <1>now, <2>1, <2>3, <2>4, <2>5, <2>6, <2>7
  <1>4. CASE PageFails(w)
    <2>1. run[w] # NotRunning /\ run[w].step = "pages" /\ UNCHANGED <<row, page>>
      BY <1>4 DEF PageFails, NotRunning
    <2>2. run'[w].step = "pages" /\ run'[w].todo \subseteq run[w].todo
      BY <1>4, <1>r, <1>t, <2>1, RunningTypes DEF PageFails, Running
    <2>3. ToPublish(w)' \subseteq ToPublish(w)
      BY <2>1, <2>2 DEF ToPublish
    <2>4. \A p : NoneApproved(p)' <=> NoneApproved(p)
      BY <2>1 DEF NoneApproved
    <2>5. QED
      BY <1>now, <2>1, <2>2, <2>3, <2>4
  <1>5. CASE CalendarFails(w) \/ Conclude(w)
    BY <1>5, <1>r, <1>t DEF CalendarFails, Conclude
  <1>6. CASE (\E b \in Bundle : Delete(w, b)) \/ CommitUnlock(w) \/ CommitPublishPage(w)
    <2>1. run[w] = NotRunning /\ run' = run
      BY <1>6 DEF Delete, Idle, CommitUnlock, CommitPublishPage, HandInv, QuietInv, OneThing,
         NoRequest
    <2>2. QED
      BY <2>1
  <1>7. CASE \E p \in Page : PageStep(p)
    <2>1. UNCHANGED <<run, row>>
      BY <1>7 DEF PageStep, EditPage, SubmitPage, ReviewPage
    <2>2. \A q \in Page : page[q].step = "ready" => page'[q].step = "ready"
      BY <1>7, HandTypes DEF PageStep, EditPage, SubmitPage, ReviewPage, TypeOK, PageState
    <2>3. RunningReady'
      BY <2>1, <2>2, RunningUntouched
    <2>4. QED
      BY <2>3 DEF RunningReady
  <1>8. CASE UNCHANGED <<run, row, page>>
    <2>1. RunningReady'
      BY <1>8, RunningUntouched
    <2>2. QED
      BY <2>1 DEF RunningReady
  <1>9. QED
    BY <1>t, <1>1, <1>2, <1>3, <1>4, <1>5, <1>6, <1>7, <1>8
    DEF Next, vars, BundleRequestStep, PageRequestStep, PublicationStep,
        BeginCreate, Dispatch, ReadInstance, Validate, BeginAdd, Abort,
        BeginUnlock, BeginPublishPage, Tick

LEMMA HandKept ==
  ASSUME HandInv, OneByHand, [Next]_vars
  PROVE  HandInv'
  <1>1. LockedInv'
    BY LockedKept DEF HandInv, OneByHand
  <1>2. QuietInv'
    BY QuietKept DEF HandInv
  <1>3. QED
    BY <1>1, <1>2, VersionsKept, ApprovedReadyKept, PublishCheckedKept, RunningReadyKept
    DEF HandInv

LEMMA InitHand == Init => HandInv
  <1> SUFFICES ASSUME Init PROVE HandInv
    OBVIOUS
  <1>1. LockedInv /\ QuietInv
    BY InitLocked, InitQuiet
  <1>2. VersionsInOrder
    BY DEF Init, VersionsInOrder
  <1>3. ApprovedReady /\ PublishChecked /\ RunningReady
    BY DEF Init, ApprovedReady, PublishChecked, RunningReady, Pending, NoRequest, Process
  <1>4. QED
    BY <1>1, <1>2, <1>3 DEF HandInv

\* One administrator at a time and no scheduled command: nothing is live that
\* has not been through review.
THEOREM LiveIsReviewed ==
  ASSUME OneByHand
  PROVE  Spec => []LiveWasReviewed
  <1>1. HandInv => LiveWasReviewed
    BY DEF HandInv, VersionsInOrder, LiveWasReviewed
  <1>2. HandInv /\ [Next]_vars => HandInv'
    BY HandKept
  <1>3. QED
    BY <1>1, <1>2, InitHand, PTL DEF Spec

---------------------------------------------------------------------------
(* Without a release calendar page, publish_bundle always gets to the end: *)
(* a page that was not published leaves its mark on the status.            *)

\* A publication that has had no failure leaves only live pages behind.
RunningCovers ==
  \A w \in Web : run[w] # NotRunning /\ ~run[w].failed =>
    \A p \in row[run[w].bundle].pages \ ToPublish(w) : page[p].live > 0

LiveInv == HandInv /\ RunningCovers /\ PublishedIsLive

\* What a page is published with counts as live.
LEMMA LiveStays ==
  ASSUME HandInv, OneByHand, [Next]_vars, NEW p \in Page, page[p].live > 0
  PROVE  page'[p].live > 0
  <1>1. page[p].live \in Nat /\ page'[p].live >= page[p].live
    BY HandTypes, VersionsKept
  <1>2. HandInv'
    BY HandKept
  <1>3. page'[p].live \in Nat
    BY <1>2 DEF HandInv, QuietInv, TypeOK, PageState, Version
  <1>4. QED
    BY <1>1, <1>3

LEMMA RunningCoversKept ==
  ASSUME LiveInv, OneByHand, [Next]_vars
  PROVE  RunningCovers'
  <1> SUFFICES ASSUME NEW w \in Web, run'[w] # NotRunning, ~run'[w].failed,
                      NEW p \in row'[run'[w].bundle].pages, p \notin ToPublish(w)'
               PROVE  page'[p].live > 0
    BY DEF RunningCovers
  <1>t. /\ HandInv /\ TypeOK /\ Web = {w} /\ Process = {w} /\ Cron = {}
        /\ run \in [Process -> Running \cup {NotRunning}]
    BY HandTypes, Alone DEF OneByHand, LiveInv, TypeOK
  <1>was. ASSUME run[w] # NotRunning, ~run[w].failed, p \in row[run[w].bundle].pages,
                 p \notin ToPublish(w)
          PROVE  page'[p].live > 0
    <2>1. p \in Page /\ page[p].live > 0
      BY <1>t, <1>was, RunningTypes, HandTypes DEF LiveInv, RunningCovers
    <2>2. QED
      BY <1>t, <2>1, LiveStays
  <1>1. CASE Commit(w)
    <2>1. run[w] = NotRunning
      BY <1>1 DEF Commit, LiveInv, HandInv, QuietInv, OneThing, NoRequest
    <2>2. run'[w].step = "started"
      BY <1>1, <1>t, <2>1 DEF Commit
    <2>3. QED
      BY <2>2 DEF ToPublish
  <1>2. CASE LoadPages(w)
    <2>1. run[w] # NotRunning /\ UNCHANGED <<row, page>>
      BY <1>2 DEF LoadPages, NotRunning
    <2>2. /\ run'[w].step = "pages" /\ run'[w].bundle = run[w].bundle
          /\ run'[w].todo = {<<q, page[q].draft>> : q \in row[run[w].bundle].pages}
      BY <1>2, <1>t, <2>1, RunningTypes DEF LoadPages, Running
    <2>3. <<p, page[p].draft>> \in run'[w].todo
      BY <2>1, <2>2
    <2>4. ToPublish(w)' = {e[1] : e \in run'[w].todo}
      BY <2>2 DEF ToPublish
    <2>5. <<p, page[p].draft>>[1] = p
      OBVIOUS
    <2>6. p \in ToPublish(w)'
      BY <2>3, <2>4, <2>5
    <2>7. QED
      BY <2>6
  <1>3. CASE PublishPage(w)
    <2>1. run[w] # NotRunning /\ run[w].step = "pages" /\ row' = row
      BY <1>3 DEF PublishPage, NotRunning
    <2>2. PICK e \in run[w].todo :
            /\ e[1] \in Page /\ page[e[1]].step = "ready" /\ page' = WorkflowFinished(e[1])
            /\ run' = [run EXCEPT ![w].todo = @ \ {e}, ![w].some = TRUE]
      BY <1>3, <1>t, PublishesReady
    <2>3. /\ run'[w].step = "pages" /\ run'[w].todo = run[w].todo \ {e}
          /\ run'[w].bundle = run[w].bundle /\ run'[w].failed = run[w].failed
      BY <1>t, <2>1, <2>2, RunningTypes DEF Running
    <2>4. CASE p = e[1]
      <3>1. page[p].reviewed > 0 /\ page[p] \in PageState
        BY <1>t, <2>2, <2>4, HandTypes DEF HandInv, VersionsInOrder
      <3>2. page'[p].live = page[p].reviewed
        BY <1>t, <2>2, <2>4, <3>1 DEF WorkflowFinished, TypeOK, PageState
      <3>3. QED
        BY <3>1, <3>2
    <2>5. CASE p # e[1]
      <3>1. p \notin ToPublish(w)
        BY <2>1, <2>3, <2>5 DEF ToPublish
      <3>2. QED
        BY <1>was, <2>1, <2>3, <3>1
    <2>6. QED
      BY <2>4, <2>5
  <1>4. CASE PageFails(w)
    <2>1. run[w] # NotRunning
      BY <1>4 DEF PageFails, NotRunning
    <2>2. run'[w].failed
      BY <1>4, <1>t, <2>1, RunningTypes DEF PageFails, Running
    <2>3. QED
      BY <2>2
  <1>5. CASE CalendarFails(w) \/ Conclude(w)
    BY <1>5, <1>t DEF CalendarFails, Conclude
  <1>6. CASE \E b \in Bundle : Delete(w, b)
    BY <1>6 DEF Delete, Idle
  <1>7. CASE UNCHANGED <<run, row>>
    <2>1. ToPublish(w)' = ToPublish(w)
      BY <1>7 DEF ToPublish
    <2>2. QED
      BY <1>7, <1>was, <2>1
  <1>8. QED
    BY <1>t, <1>1, <1>2, <1>3, <1>4, <1>5, <1>6, <1>7
    DEF Next, vars, BundleRequestStep, PageRequestStep, PageStep, PublicationStep,
        BeginCreate, Dispatch, ReadInstance, Validate, BeginAdd, Abort,
        BeginUnlock, BeginPublishPage, CommitUnlock, CommitPublishPage, EditPage, SubmitPage,
        ReviewPage, Tick

LEMMA PublishedIsLiveKept ==
  ASSUME LiveInv, OneByHand, WithCalendar = {}, [Next]_vars
  PROVE  PublishedIsLive'
  <1> SUFFICES ASSUME NEW b \in Bundle, row'[b].status = "PUBLISHED",
                      \A k \in Process : run'[k] = NotRunning \/ run'[k].bundle # b,
                      NEW p \in row'[b].pages
               PROVE  page'[p].live > 0
    BY DEF PublishedIsLive
  <1>t. /\ HandInv /\ TypeOK /\ Cron = {} /\ Process = Web
        /\ run \in [Process -> Running \cup {NotRunning}]
    BY HandTypes DEF OneByHand, LiveInv, TypeOK, Process
  <1>was. ASSUME row[b].status = "PUBLISHED", p \in row[b].pages,
                 \A k \in Process : run[k] = NotRunning \/ run[k].bundle # b
          PROVE  page'[p].live > 0
    <2>1. p \in Page /\ page[p].live > 0
      BY <1>t, <1>was, HandTypes DEF LiveInv, PublishedIsLive
    <2>2. QED
      BY <1>t, <2>1, LiveStays
  <1>1. ASSUME NEW w \in Web, Commit(w) PROVE page'[p].live > 0
    <2>1. Process = {w} /\ run[w] = NotRunning
      BY <1>1, Alone DEF Commit, LiveInv, HandInv, QuietInv, OneThing, NoRequest
    <2>2. req[w].bundle \in Bundle
      BY <1>1, <1>t, RequestShape DEF Commit, BundleRequest
    <2>3. b # req[w].bundle
      <3>1. SUFFICES ASSUME b = req[w].bundle PROVE FALSE
        OBVIOUS
      <3>2. req[w].status = "PUBLISHED"
        BY <1>1, <1>t, <2>2, <3>1 DEF Commit, TypeOK
      <3>3. run'[w] = [step |-> "started", bundle |-> req[w].bundle, update |-> FALSE,
                       todo |-> {}, some |-> FALSE, failed |-> FALSE]
        BY <1>1, <1>t, <2>1, <3>2 DEF Commit
      <3>4. run'[w] # NotRunning /\ run'[w].bundle = b
        BY <3>1, <3>3 DEF NotRunning
      <3>5. QED
        BY <2>1, <3>4
    <2>4. row'[b] = row[b]
      BY <1>1, <1>t, <2>2, <2>3 DEF Commit, TypeOK
    <2>5. QED
      BY <1>was, <2>1, <2>4
  <1>2. ASSUME NEW w \in Web, Conclude(w) PROVE page'[p].live > 0
    <2>1. /\ run[w] # NotRunning /\ run[w].todo = {} /\ run[w].step = "pages"
          /\ page' = page /\ Process = {w}
      BY <1>2, Alone DEF Conclude, PagesDone, NotRunning
    <2>2. run[w] \in Running /\ run[w].bundle \in Bundle /\ row[run[w].bundle].status = "PUBLISHED"
      BY <1>t, <2>1, RunningTypes
    <2>3. CASE run[w].bundle = b
      <3>1. row[b] \in BundleRow
        BY <1>t DEF TypeOK
      <3>2. row'[b].status = FinalStatus(w) /\ row'[b].pages = row[b].pages
        BY <1>2, <1>t, <2>2, <2>3, <3>1 DEF Conclude, Exists, TypeOK, BundleRow
      <3>3. ~run[w].failed
        BY <2>2, <3>2 DEF FinalStatus, Running
      <3>4. p \notin ToPublish(w)
        BY <2>1 DEF ToPublish
      <3>5. QED
        BY <2>1, <2>3, <3>2, <3>3, <3>4 DEF LiveInv, RunningCovers
    <2>4. CASE run[w].bundle # b
      <3>1. row'[b] = row[b]
        BY <1>2, <1>t, <2>2, <2>4 DEF Conclude, TypeOK
      <3>2. QED
        BY <1>was, <2>1, <2>4, <3>1
    <2>5. QED
      BY <2>3, <2>4
  <1>3. ASSUME NEW w \in Web, LoadPages(w) \/ PublishPage(w) \/ PageFails(w)
        PROVE  page'[p].live > 0
    <2>1. run[w] # NotRunning /\ row' = row /\ Process = {w}
      BY <1>3, Alone DEF LoadPages, PublishPage, PageFails, NotRunning
    <2>2. run'[w].step = "pages" /\ run'[w].bundle = run[w].bundle
      <3>1. run[w] \in Running
        BY <1>t, <2>1
      <3>2. CASE LoadPages(w)
        BY <1>t, <3>1, <3>2 DEF LoadPages, Running
      <3>3. CASE PublishPage(w)
        BY <1>t, <3>1, <3>3 DEF PublishPage, Running
      <3>4. CASE PageFails(w)
        BY <1>t, <3>1, <3>4 DEF PageFails, Running
      <3>5. QED
        BY <1>3, <3>2, <3>3, <3>4
    <2>3. run'[w] # NotRunning
      BY <2>2 DEF NotRunning
    <2>4. QED
      BY <1>was, <2>1, <2>2, <2>3
  <1>4. ASSUME NEW w \in Web, NEW c \in Bundle, Delete(w, c) PROVE page'[p].live > 0
    <2>1. run' = run /\ row'[b] = row[b]
      BY <1>4, <1>t DEF Delete, TypeOK
    <2>2. QED
      BY <1>was, <2>1
  <1>5. ASSUME NEW w \in Web, CalendarFails(w) PROVE FALSE
    BY <1>5 DEF CalendarFails
  <1>6. CASE UNCHANGED <<run, row>>
    BY <1>6, <1>was
  <1>7. QED
    BY <1>t, <1>1, <1>2, <1>3, <1>4, <1>5, <1>6
    DEF Next, vars, BundleRequestStep, PageRequestStep, PageStep, PublicationStep,
        BeginCreate, Dispatch, ReadInstance, Validate, BeginAdd, Abort,
        BeginUnlock, BeginPublishPage, CommitUnlock, CommitPublishPage, EditPage, SubmitPage,
        ReviewPage, Tick

\* One administrator at a time, no scheduled command and no release calendar
\* pages: a bundle that says it is published, with no publication under way,
\* has every one of its pages live.
THEOREM PublishedAreLive ==
  ASSUME OneByHand, WithCalendar = {}
  PROVE  Spec => []PublishedIsLive
  <1>1. Init => LiveInv
    BY InitHand DEF Init, LiveInv, RunningCovers, PublishedIsLive, NotRunning, Process
  <1>2. LiveInv /\ [Next]_vars => LiveInv'
    BY HandKept, RunningCoversKept, PublishedIsLiveKept DEF LiveInv
  <1>3. LiveInv => PublishedIsLive
    BY DEF LiveInv
  <1>4. QED
    BY <1>1, <1>2, <1>3, PTL DEF Spec
===========================================================================
