---------------------- MODULE PostPublishActionsProofs ----------------------
(* Proofs about PostPublishActions, for any number of pages, types, retries *)
(* and processes: types, and that success is honest.                        *)
EXTENDS PostPublishActions, TLAPS

---------------------------------------------------------------------------
(* Types                                                                   *)

LEMMA RowType ==
  ASSUME TypeOK, NEW a \in Action, Exists(a)
  PROVE  row[a] \in Row /\ row[a].pk \in Run
  BY DEF TypeOK, Exists, Row

LEMMA UpsertedType ==
  ASSUME TypeOK, NEW a \in Action, NEW n \in Run
  PROVE  Upserted(a, n) \in Row
  <1>1. CASE Exists(a)
    <2>1. row[a] \in Row /\ 0 \in 0 .. MaxRetries
      BY <1>1, RowType, ConstantsAssumption
    <2>2. [row[a] EXCEPT !.status = "READY", !.finished = FALSE, !.retries = 0] \in Row
      BY <2>1 DEF Row, Status
    <2>3. QED
      BY <1>1, <2>2 DEF Upserted
  <1>2. CASE ~Exists(a)
    BY <1>2, ConstantsAssumption DEF Upserted, Row, Status, Age
  <1>3. QED
    BY <1>1, <1>2

LEMMA MarkTimedOutType ==
  ASSUME TypeOK, NEW S \in SUBSET Action, \A a \in S : Exists(a), MarkTimedOut(S)
  PROVE  row' \in [Action -> Row \cup {Absent}]
  <1>1. ASSUME NEW a \in S
        PROVE  [row[a] EXCEPT !.status = "FAILED", !.finished = TRUE] \in Row
    BY RowType DEF Row, Status
  <1>2. QED
    BY <1>1 DEF MarkTimedOut, TypeOK

\* A record of proc that goes on with its step and its sets made smaller.
LEMMA IdleType == Idle \in Proc
  BY DEF Idle, Proc, Step, Age

LEMMA PublishTypes ==
  ASSUME TypeOK, NEW n \in Run, Publish(n)
  PROVE  TypeOK'
  <1>idle. Idle \in Proc
    BY IdleType
  <1>proc. proc[n] \in Proc
    BY DEF TypeOK
  <1>1. CASE BeginPublish(n)
    <2>1. [Idle EXCEPT !.step = "publishing", !.left = Page] \in Proc
      BY <1>idle DEF Proc, Step
    <2>2. publications' \in 0 .. MaxPublications
      BY <1>1, ConstantsAssumption DEF BeginPublish, TypeOK
    <2>3. QED
      BY <1>1, <2>1, <2>2 DEF BeginPublish, TypeOK, jobVars
  <1>2. CASE EndPublish(n)
    <2>1. [proc[n] EXCEPT !.step = "reporting"] \in Proc
      BY <1>proc DEF Proc, Step
    <2>2. QED
      BY <1>2, <2>1 DEF EndPublish, TypeOK, jobVars, bounds
  <1>3. CASE ReportDone(n)
    BY <1>3, <1>idle DEF ReportDone, TypeOK, jobVars, bounds
  <1>4. CASE ReportTimeout(n)
    <2>1. row' \in [Action -> Row \cup {Absent}]
      BY <1>4, MarkTimedOutType DEF ReportTimeout, Pending
    <2>2. QED
      BY <1>4, <1>idle, <2>1 DEF ReportTimeout, TypeOK, jobVars, bounds
  <1>5. ASSUME NEW p \in Page, PublishPage(n, p)
        PROVE  TypeOK'
    <2> DEFINE S == {p} \X Type
    <2>1. [proc[n] EXCEPT !.left = @ \ {p}] \in Proc
      BY <1>proc DEF Proc
    <2>2. row' \in [Action -> Row \cup {Absent}]
      BY <1>5, UpsertedType DEF PublishPage, TypeOK
    <2>3. S \subseteq Action
      BY DEF Action
    <2>4. ASSUME NEW j \in running
          PROVE  [j EXCEPT !.fresh = @ /\ j.action \notin S] \in Job
      <3>1. j \in Job /\ j.fresh \in BOOLEAN
        BY DEF TypeOK, Job
      <3>2. (j.fresh /\ j.action \notin S) \in BOOLEAN
        OBVIOUS
      <3>3. QED
        BY <3>1, <3>2 DEF Job
    <2>5. running' \subseteq Job
      BY <1>5, <2>4 DEF PublishPage
    <2>6. QED
      BY <1>5, <2>1, <2>2, <2>3, <2>5 DEF PublishPage, TypeOK, bounds
  <1>6. ASSUME NEW p \in Page, SkipPage(n, p)
        PROVE  TypeOK'
    <2>1. [proc[n] EXCEPT !.left = @ \ {p}] \in Proc
      BY <1>proc DEF Proc
    <2>2. QED
      BY <1>6, <2>1 DEF SkipPage, TypeOK, jobVars, bounds
  <1>7. QED
    BY <1>1, <1>2, <1>3, <1>4, <1>5, <1>6 DEF Publish

LEMMA RetryTypes ==
  ASSUME TypeOK, NEW n \in Run,
         RetryPick(n) \/ RetryCommit(n) \/ RetryPoll(n) \/ RetryTimeout(n)
  PROVE  TypeOK'
  <1>idle. Idle \in Proc
    BY IdleType
  <1>proc. proc[n] \in Proc
    BY DEF TypeOK
  <1>1. CASE RetryPick(n)
    <2>1. Old \subseteq Action \X Run
      BY DEF Old
    <2>2. [Idle EXCEPT !.step = "retrying",
                       !.picked = {id \in Old : Retriable(id[1])}, !.old = Old] \in Proc
      BY <1>idle, <2>1 DEF Proc, Step
    <2>3. QED
      BY <1>1, <2>2 DEF RetryPick, TypeOK, jobVars, bounds
  <1>2. CASE RetryCommit(n)
    <2>1. ASSUME NEW a \in Action, Retriable(a)
          PROVE  Retried(a) \in Row
      <3>1. row[a] \in Row /\ row[a].retries \in 0 .. MaxRetries /\ row[a].retries < MaxRetries
        BY <2>1, RowType DEF Retriable, Row
      <3>2. row[a].retries + 1 \in 0 .. MaxRetries
        BY <3>1, ConstantsAssumption
      <3>3. QED
        BY <3>1, <3>2 DEF Retried, Row, Status
    <2>2. row' \in [Action -> Row \cup {Absent}]
      BY <1>2, <2>1 DEF RetryCommit, TypeOK
    <2>3. {<<id[1], n>> : id \in proc[n].picked} \subseteq Action \X Run
      BY <1>proc DEF Proc
    <2>4. [proc[n] EXCEPT !.step = "watching"] \in Proc
      BY <1>proc DEF Proc, Step
    <2>5. QED
      BY <1>2, <2>2, <2>3, <2>4 DEF RetryCommit, TypeOK, bounds
  <1>3. CASE RetryPoll(n)
    <2> DEFINE rest == {id \in proc[n].picked : ~(HasKey(id[1], id[2]) /\ row[id[1]].finished)}
    <2>1. [proc[n] EXCEPT !.picked = rest] \in Proc
      BY <1>proc DEF Proc
    <2>2. QED
      BY <1>3, <1>idle, <2>1 DEF RetryPoll, TypeOK, jobVars, bounds
  <1>4. CASE RetryTimeout(n)
    <2>1. row' \in [Action -> Row \cup {Absent}]
      BY <1>4, MarkTimedOutType DEF RetryTimeout, Pending
    <2>2. QED
      BY <1>4, <1>idle, <2>1 DEF RetryTimeout, TypeOK, jobVars, bounds
  <1>5. QED
    BY <1>1, <1>2, <1>3, <1>4

LEMMA TypesKept ==
  ASSUME TypeOK, [Next]_vars
  PROVE  TypeOK'
  <1>1. ASSUME NEW a \in Action, NEW n \in Run, StartJob(a, n)
        PROVE  TypeOK'
    <2>1. CASE Exists(a)
      <3>1. row[a] \in Row /\ row[a].pk \in Run
        BY <2>1, RowType
      <3>2. [row[a] EXCEPT !.status = "RUNNING"] \in Row
        BY <3>1 DEF Row, Status
      <3>3. row' \in [Action -> Row \cup {Absent}]
        BY <1>1, <2>1, <3>2 DEF StartJob, TypeOK
      <3>4. [action |-> a, run |-> n, pk |-> row[a].pk, fresh |-> TRUE] \in Job
        BY <3>1 DEF Job
      <3>5. QED
        BY <1>1, <2>1, <3>3, <3>4 DEF StartJob, TypeOK, bounds
    <2>2. CASE ~Exists(a)
      BY <1>1, <2>2 DEF StartJob, TypeOK, bounds
    <2>3. QED
      BY <2>1, <2>2
  <1>2. ASSUME NEW j \in running, FinishJob(j)
        PROVE  TypeOK'
    <2>1. j \in Job /\ j.action \in Action
      BY DEF TypeOK, Job
    <2>2. ASSUME NEW status \in Status
          PROVE  Saved(j, status) \in [Action -> Row \cup {Absent}]
      <3>1. CASE HasKey(j.action, j.pk)
        <4>1. row[j.action] \in Row
          BY <2>1, <3>1, RowType DEF HasKey
        <4>2. [row[j.action] EXCEPT !.status = status, !.finished = TRUE] \in Row
          BY <4>1 DEF Row
        <4>3. Saved(j, status) = [row EXCEPT ![j.action] = [row[j.action] EXCEPT !.status = status, !.finished = TRUE]]
          BY <2>1, <3>1 DEF Saved, TypeOK
        <4>4. QED
          BY <4>2, <4>3 DEF TypeOK
      <3>2. CASE ~HasKey(j.action, j.pk)
        BY <3>2 DEF Saved, TypeOK
      <3>3. QED
        BY <3>1, <3>2
    <2>3. row' \in [Action -> Row \cup {Absent}]
      BY <1>2, <2>2 DEF FinishJob, Status
    <2>4. handled' \subseteq Action
      BY <1>2, <2>1 DEF FinishJob, TypeOK
    <2>5. QED
      BY <1>2, <2>3, <2>4 DEF FinishJob, TypeOK, bounds
  <1>3. ASSUME NEW n \in Run, Crash(n)
        PROVE  TypeOK'
    <2>1. crashes' \in 0 .. MaxCrashes
      BY <1>3, ConstantsAssumption DEF Crash, TypeOK
    <2>2. QED
      BY <1>3, <2>1, IdleType DEF Crash, TypeOK
  <1>4. CASE Tick
    <2>age. \A g \in Age : Older(g) \in Age
      BY DEF Age, Older, Over
    <2>1. ASSUME NEW a \in Action, Exists(a)
          PROVE  [row[a] EXCEPT !.age = Older(@)] \in Row
      BY <2>1, <2>age, RowType DEF Row
    <2>2. row' \in [Action -> Row \cup {Absent}]
      BY <1>4, <2>1 DEF Tick
    <2>3. ASSUME NEW n \in Run
          PROVE  [proc[n] EXCEPT !.age = Older(@)] \in Proc
      BY <2>age DEF TypeOK, Proc
    <2>4. proc' \in [Run -> Proc]
      BY <1>4, <2>3 DEF Tick, TypeOK
    <2>5. QED
      BY <1>4, <2>2, <2>4 DEF Tick, TypeOK, jobVars, bounds
  <1>5. CASE UNCHANGED vars
    BY <1>5 DEF vars, TypeOK
  <1>6. QED
    BY <1>1, <1>2, <1>3, <1>4, <1>5, PublishTypes, RetryTypes DEF Next

LEMMA InitTypes == Init => TypeOK
  BY IdleType, ConstantsAssumption DEF Init, TypeOK

\* Every variable keeps its type; a row is never retried more often than the
\* limit allows.
THEOREM ActionTypes == Spec => []TypeOK
  BY InitTypes, TypesKept, PTL DEF Spec

---------------------------------------------------------------------------
(* Success is honest                                                       *)

\* The pages a publication has yet to publish have no rows: it deleted them.
NothingLeft ==
  \A n \in Run, a \in Action :
    proc[n].step = "publishing" /\ a[1] \in proc[n].left => ~Exists(a)

OneLoop ==
  \A m, n \in Run : proc[m].step = "publishing" /\ proc[n].step = "publishing" => m = n

\* A job whose row is still there began after the row was made.
RowIsFresh ==
  \A j \in running : HasKey(j.action, j.pk) => j.fresh

\* No job has read a row the publication at work has yet to make.
KeysAreNew ==
  \A n \in Run : \A j \in running :
    proc[n].step = "publishing" /\ j.pk = n => j.action[1] \notin proc[n].left

HonestInv ==
  NothingLeft /\ OneLoop /\ RowIsFresh /\ KeysAreNew /\ SuccessIsHonest

\* Steps that make no row, delete none and start no job.
LEMMA RowsStay ==
  ASSUME TypeOK, HonestInv,
         \A a \in Action : row'[a] # Absent <=> row[a] # Absent,
         \A a \in Action : Exists(a) => row'[a].pk = row[a].pk,
         running' \subseteq running,
         \A n \in Run : proc'[n].step = "publishing" =>
                          proc[n].step = "publishing" /\ proc'[n].left \subseteq proc[n].left,
         SuccessIsHonest'
  PROVE  HonestInv'
  <1>1. NothingLeft'
    BY DEF HonestInv, NothingLeft, Exists
  <1>2. OneLoop'
    BY DEF HonestInv, OneLoop
  <1>3. RowIsFresh'
    <2>1. \A j \in running : j.action \in Action
      BY DEF TypeOK, Job
    <2>2. QED
      BY <2>1 DEF HonestInv, RowIsFresh, HasKey, Exists
  <1>4. KeysAreNew'
    BY DEF HonestInv, KeysAreNew
  <1>5. QED
    BY <1>1, <1>2, <1>3, <1>4 DEF HonestInv

\* Steps that leave the rows and jobs alone, and those that change a row's
\* outcome, its age or its retries.
LEMMA MarkStays ==
  ASSUME TypeOK, HonestInv, NEW S \in SUBSET Action, \A a \in S : Exists(a), MarkTimedOut(S),
         running' = running, handled' = handled, NEW n \in Run, proc' = [proc EXCEPT ![n] = Idle]
  PROVE  HonestInv'
  <1>1. ASSUME NEW a \in Action
        PROVE  \/ row'[a] = row[a]
               \/ row[a] \in Row /\ row'[a] = [row[a] EXCEPT !.status = "FAILED", !.finished = TRUE]
    BY RowType DEF MarkTimedOut
  <1>2. ASSUME NEW a \in Action
        PROVE  /\ row'[a] # Absent <=> row[a] # Absent
               /\ Exists(a) => row'[a].pk = row[a].pk
               /\ row'[a] # row[a] => row'[a].status = "FAILED"
    BY <1>1 DEF Row, Status, Absent, Exists
  <1>3. SuccessIsHonest'
    BY <1>1, <1>2 DEF HonestInv, SuccessIsHonest, Exists
  <1>4. \A m \in Run : proc'[m].step = "publishing" =>
          proc[m].step = "publishing" /\ proc'[m].left \subseteq proc[m].left
    BY DEF TypeOK, Idle
  <1>5. QED
    BY <1>2, <1>3, <1>4, RowsStay

LEMMA ProcStays ==
  ASSUME TypeOK, HonestInv, UNCHANGED <<row, handled>>, running' \subseteq running,
         \A n \in Run : proc'[n].step = "publishing" =>
                          proc[n].step = "publishing" /\ proc'[n].left \subseteq proc[n].left
  PROVE  HonestInv'
  <1>1. SuccessIsHonest'
    BY DEF HonestInv, SuccessIsHonest, Exists
  <1>2. QED
    BY <1>1, RowsStay DEF Exists

LEMMA BeginHonest ==
  ASSUME TypeOK, HonestInv, OnePublisher, NEW n \in Run, BeginPublish(n)
  PROVE  HonestInv'
  <1>1. /\ \A a \in Action : row'[a] = Absent
        /\ running' = running /\ handled' = handled
        /\ \A m \in Run : proc'[m].step = "publishing" => m = n
        /\ \A j \in running : j.pk # n
    BY DEF BeginPublish, TypeOK, jobVars, Fresh, Unused
  <1>2. \A j \in running : j.action \in Action
    BY DEF TypeOK, Job
  <1>3. NothingLeft' /\ RowIsFresh' /\ SuccessIsHonest'
    BY <1>1, <1>2 DEF NothingLeft, RowIsFresh, SuccessIsHonest, HasKey, Exists
  <1>4. OneLoop'
    BY <1>1 DEF OneLoop
  <1>5. KeysAreNew'
    BY <1>1 DEF KeysAreNew
  <1>6. QED
    BY <1>3, <1>4, <1>5 DEF HonestInv

LEMMA PublishPageHonest ==
  ASSUME TypeOK, HonestInv, NEW n \in Run, NEW p \in Page, PublishPage(n, p)
  PROVE  HonestInv'
  <1> DEFINE S == {p} \X Type
  <1>1. /\ proc[n].step = "publishing" /\ p \in proc[n].left
        /\ handled' = handled \ S
        /\ proc'[n].step = "publishing" /\ proc'[n].left = proc[n].left \ {p}
        /\ \A m \in Run : m # n => proc'[m] = proc[m]
    BY DEF PublishPage, TypeOK, Proc
  <1>2. ASSUME NEW a \in Action
        PROVE  /\ a \in S <=> a[1] = p
               /\ a \in S => row'[a].pk = n /\ row'[a].status = "READY"
               /\ a \notin S => row'[a] = row[a]
    <2>1. a \in S <=> a[1] = p
      BY DEF Action
    <2>2. a \in S => ~Exists(a)
      BY <1>1, <2>1 DEF HonestInv, NothingLeft
    <2>3. QED
      BY <2>1, <2>2 DEF PublishPage, Upserted
  <1>3. ASSUME NEW i \in running'
        PROVE  \E j \in running : /\ i.action = j.action /\ i.pk = j.pk /\ j.action \in Action
                                  /\ i.fresh <=> j.fresh /\ j.action \notin S
    <2>1. PICK j \in running : i = [j EXCEPT !.fresh = @ /\ j.action \notin S]
      BY <1>3 DEF PublishPage
    <2>2. j \in Job
      BY DEF TypeOK
    <2>3. QED
      BY <2>1, <2>2 DEF Job
  <1>4. NothingLeft'
    <2>1. SUFFICES ASSUME NEW m \in Run, NEW a \in Action, proc'[m].step = "publishing", a[1] \in proc'[m].left
                   PROVE  row'[a] = Absent
      BY DEF NothingLeft, Exists
    <2>2. m = n
      BY <1>1, <2>1 DEF HonestInv, OneLoop
    <2>3. a[1] \in proc[n].left /\ a \notin S
      BY <1>1, <1>2, <2>1, <2>2
    <2>4. QED
      BY <1>1, <1>2, <2>3 DEF HonestInv, NothingLeft, Exists
  <1>5. OneLoop'
    BY <1>1 DEF HonestInv, OneLoop
  <1>6. RowIsFresh'
    <2>1. SUFFICES ASSUME NEW i \in running', row'[i.action] # Absent, row'[i.action].pk = i.pk
                   PROVE  i.fresh
      BY DEF RowIsFresh, HasKey, Exists
    <2>2. PICK j \in running : /\ i.action = j.action /\ i.pk = j.pk /\ j.action \in Action
                               /\ i.fresh <=> j.fresh /\ j.action \notin S
      BY <1>3, <2>1
    <2>3. CASE j.action \in S
      <3>1. j.pk = n /\ j.action[1] = p
        BY <1>2, <2>1, <2>2, <2>3
      <3>2. QED
        BY <1>1, <3>1 DEF HonestInv, KeysAreNew
    <2>4. CASE j.action \notin S
      BY <1>2, <2>1, <2>2, <2>4 DEF HonestInv, RowIsFresh, HasKey, Exists
    <2>5. QED
      BY <2>3, <2>4
  <1>7. KeysAreNew'
    <2>1. SUFFICES ASSUME NEW m \in Run, NEW i \in running', proc'[m].step = "publishing", i.pk = m,
                          i.action[1] \in proc'[m].left
                   PROVE  FALSE
      BY DEF KeysAreNew
    <2>2. m = n
      BY <1>1, <2>1 DEF HonestInv, OneLoop
    <2>3. PICK j \in running : i.action = j.action /\ i.pk = j.pk
      BY <1>3, <2>1
    <2>4. QED
      BY <1>1, <2>1, <2>2, <2>3 DEF HonestInv, KeysAreNew
  <1>8. SuccessIsHonest'
    BY <1>1, <1>2 DEF HonestInv, SuccessIsHonest, Exists
  <1>9. QED
    BY <1>4, <1>5, <1>6, <1>7, <1>8 DEF HonestInv

LEMMA StartHonest ==
  ASSUME TypeOK, HonestInv, NEW a \in Action, NEW n \in Run, StartJob(a, n)
  PROVE  HonestInv'
  <1>0. proc' = proc /\ handled' = handled
    BY DEF StartJob
  <1>1. CASE ~Exists(a)
    BY <1>0, <1>1, ProcStays DEF StartJob
  <1>2. CASE Exists(a)
    <2> DEFINE j == [action |-> a, run |-> n, pk |-> row[a].pk, fresh |-> TRUE]
    <2>1. /\ row[a] \in Row
          /\ row'[a] = [row[a] EXCEPT !.status = "RUNNING"]
          /\ \A b \in Action : b # a => row'[b] = row[b]
          /\ running' = running \cup {j}
      BY <1>2, RowType DEF StartJob, TypeOK
    <2>2. row'[a] # Absent /\ row'[a].pk = row[a].pk /\ row'[a].status = "RUNNING"
      BY <2>1 DEF Row, Absent
    <2>3. NothingLeft'
      BY <1>0, <1>2, <2>1, <2>2 DEF HonestInv, NothingLeft, Exists
    <2>4. OneLoop'
      BY <1>0 DEF HonestInv, OneLoop
    <2>5. RowIsFresh'
      <3>1. \A i \in running : i.action \in Action
        BY DEF TypeOK, Job
      <3>2. ASSUME NEW i \in running', row'[i.action] # Absent, row'[i.action].pk = i.pk
            PROVE  i.fresh
        <4>1. CASE i \in running
          <5>1. HasKey(i.action, i.pk)
            BY <1>2, <2>1, <2>2, <3>1, <3>2, <4>1 DEF HasKey, Exists
          <5>2. QED
            BY <4>1, <5>1 DEF HonestInv, RowIsFresh
        <4>2. CASE i = j
          BY <4>2
        <4>3. QED
          BY <2>1, <3>2, <4>1, <4>2
      <3>3. QED
        BY <3>2 DEF RowIsFresh, HasKey, Exists
    <2>6. KeysAreNew'
      <3>1. SUFFICES ASSUME NEW m \in Run, NEW i \in running', proc[m].step = "publishing", i.pk = m,
                            i.action[1] \in proc[m].left
                     PROVE  FALSE
        BY <1>0 DEF KeysAreNew
      <3>2. CASE i \in running
        BY <3>1, <3>2 DEF HonestInv, KeysAreNew
      <3>3. CASE i = j
        BY <1>2, <3>1, <3>3 DEF HonestInv, NothingLeft
      <3>4. QED
        BY <2>1, <3>1, <3>2, <3>3
    <2>7. SuccessIsHonest'
      BY <1>0, <1>2, <2>1, <2>2 DEF HonestInv, SuccessIsHonest, Exists
    <2>8. QED
      BY <2>3, <2>4, <2>5, <2>6, <2>7 DEF HonestInv
  <1>3. QED
    BY <1>1, <1>2

LEMMA FinishHonest ==
  ASSUME TypeOK, HonestInv, NEW j \in running, FinishJob(j)
  PROVE  HonestInv'
  <1>1. j \in Job /\ j.action \in Action /\ proc' = proc /\ running' \subseteq running
    BY DEF TypeOK, Job, FinishJob
  <1>2. PICK status \in Status :
          /\ row' = Saved(j, status)
          /\ handled \subseteq handled'
          /\ status = "SUCCESSFUL" /\ j.fresh => j.action \in handled'
    BY DEF FinishJob, Status
  <1>3. CASE ~HasKey(j.action, j.pk)
    <2>1. row' = row
      BY <1>2, <1>3 DEF Saved
    <2>2. SuccessIsHonest'
      BY <1>2, <2>1 DEF HonestInv, SuccessIsHonest, Exists
    <2>3. QED
      BY <1>1, <2>1, <2>2, RowsStay DEF Exists
  <1>4. CASE HasKey(j.action, j.pk)
    <2>1. row[j.action] \in Row /\ j.fresh
      BY <1>1, <1>4, RowType DEF HasKey, HonestInv, RowIsFresh
    <2>2. /\ row'[j.action] = [row[j.action] EXCEPT !.status = status, !.finished = TRUE]
          /\ \A b \in Action : b # j.action => row'[b] = row[b]
      BY <1>1, <1>2, <1>4 DEF Saved, TypeOK
    <2>3. row'[j.action] # Absent /\ row'[j.action].pk = row[j.action].pk /\ row'[j.action].status = status
      BY <2>1, <2>2, <1>2 DEF Row, Absent, Status
    <2>4. SuccessIsHonest'
      BY <1>2, <2>1, <2>2, <2>3 DEF HonestInv, SuccessIsHonest, Exists
    <2>5. \A a \in Action : (row'[a] # Absent <=> row[a] # Absent) /\ (Exists(a) => row'[a].pk = row[a].pk)
      BY <1>4, <2>2, <2>3 DEF HasKey, Exists
    <2>6. QED
      BY <1>1, <2>4, <2>5, RowsStay
  <1>5. QED
    BY <1>3, <1>4

LEMMA HonestKept ==
  ASSUME TypeOK, HonestInv, OnePublisher, [Next]_vars
  PROVE  HonestInv'
  <1>idle. Idle.step # "publishing"
    BY DEF Idle
  <1>1. ASSUME NEW n \in Run, Publish(n)
        PROVE  HonestInv'
    <2>1. CASE BeginPublish(n)
      BY <2>1, BeginHonest
    <2>2. CASE EndPublish(n)
      <3>1. \A m \in Run : proc'[m].step = "publishing" => proc'[m] = proc[m]
        BY <2>2 DEF EndPublish, TypeOK, Proc
      <3>2. QED
        BY <2>2, <3>1, ProcStays DEF EndPublish, jobVars
    <2>3. CASE ReportDone(n)
      <3>1. \A m \in Run : proc'[m].step = "publishing" => proc'[m] = proc[m]
        BY <1>idle, <2>3 DEF ReportDone, TypeOK
      <3>2. QED
        BY <2>3, <3>1, ProcStays DEF ReportDone, jobVars
    <2>4. CASE ReportTimeout(n)
      BY <2>4, MarkStays DEF ReportTimeout, Pending, jobVars
    <2>5. ASSUME NEW p \in Page, PublishPage(n, p)
          PROVE  HonestInv'
      BY <2>5, PublishPageHonest
    <2>6. ASSUME NEW p \in Page, SkipPage(n, p)
          PROVE  HonestInv'
      <3>1. \A m \in Run : proc'[m].step = proc[m].step /\ proc'[m].left \subseteq proc[m].left
        BY <2>6 DEF SkipPage, TypeOK, Proc
      <3>2. QED
        BY <2>6, <3>1, ProcStays DEF SkipPage, jobVars
    <2>7. QED
      BY <1>1, <2>1, <2>2, <2>3, <2>4, <2>5, <2>6 DEF Publish
  <1>2. ASSUME NEW n \in Run, RetryPick(n) \/ RetryPoll(n)
        PROVE  HonestInv'
    <2>1. \A m \in Run : proc'[m].step = "publishing" => proc'[m] = proc[m]
      <3>1. CASE RetryPick(n)
        BY <1>idle, <3>1 DEF RetryPick, TypeOK, Idle
      <3>2. CASE RetryPoll(n)
        <4>1. proc[n].step = "watching" /\ proc[n] \in Proc
          BY <3>2 DEF RetryPoll, TypeOK
        <4>2. proc'[n] = Idle \/ proc'[n].step = "watching"
          BY <3>2, <4>1 DEF RetryPoll, TypeOK, Proc
        <4>3. QED
          BY <1>idle, <3>2, <4>2 DEF RetryPoll, TypeOK
      <3>3. QED
        BY <1>2, <3>1, <3>2
    <2>2. QED
      BY <1>2, <2>1, ProcStays DEF RetryPick, RetryPoll, jobVars
  <1>3. ASSUME NEW n \in Run, RetryCommit(n)
        PROVE  HonestInv'
    <2>1. ASSUME NEW a \in Action
          PROVE  row'[a] = row[a] \/ (row[a] \in Row /\ row'[a] = Retried(a))
      BY <1>3, RowType DEF RetryCommit, Retriable
    <2>2. ASSUME NEW a \in Action
          PROVE  /\ row'[a] # Absent <=> row[a] # Absent
                 /\ Exists(a) => row'[a].pk = row[a].pk
                 /\ row'[a] # row[a] => row'[a].status = "READY"
      BY <2>1 DEF Retried, Row, Absent, Exists
    <2>3. SuccessIsHonest'
      BY <1>3, <2>1, <2>2 DEF RetryCommit, HonestInv, SuccessIsHonest, Exists
    <2>4. \A m \in Run : proc'[m].step = "publishing" => proc'[m] = proc[m]
      BY <1>3 DEF RetryCommit, TypeOK, Proc
    <2>5. QED
      BY <1>3, <2>2, <2>3, <2>4, RowsStay DEF RetryCommit
  <1>4. ASSUME NEW n \in Run, RetryTimeout(n)
        PROVE  HonestInv'
    BY <1>4, MarkStays DEF RetryTimeout, Pending, jobVars
  <1>5. ASSUME NEW n \in Run, Crash(n)
        PROVE  HonestInv'
    <2>1. \A m \in Run : proc'[m].step = "publishing" => proc'[m] = proc[m]
      BY <1>idle, <1>5 DEF Crash, TypeOK
    <2>2. QED
      BY <1>5, <2>1, ProcStays DEF Crash
  <1>6. CASE Tick
    <2>1. ASSUME NEW a \in Action
          PROVE  \/ ~Exists(a) /\ row'[a] = row[a]
                 \/ row[a] \in Row /\ row'[a] = [row[a] EXCEPT !.age = Older(@)]
      BY <1>6, RowType DEF Tick, Exists
    <2>2. ASSUME NEW a \in Action
          PROVE  /\ row'[a] # Absent <=> row[a] # Absent
                 /\ Exists(a) => row'[a].pk = row[a].pk /\ row'[a].status = row[a].status
      BY <2>1 DEF Row, Absent, Exists, Status
    <2>3. SuccessIsHonest'
      BY <1>6, <2>2 DEF Tick, HonestInv, SuccessIsHonest, Exists
    <2>4. \A m \in Run : proc'[m].step = proc[m].step /\ proc'[m].left = proc[m].left
      BY <1>6 DEF Tick, TypeOK, Proc
    <2>5. QED
      BY <1>6, <2>2, <2>3, <2>4, RowsStay DEF Tick, jobVars
  <1>7. CASE UNCHANGED vars
    BY <1>7, ProcStays DEF vars
  <1>8. QED
    BY <1>1, <1>2, <1>3, <1>4, <1>5, <1>6, <1>7, StartHonest, FinishHonest DEF Next

\* When the publications of a bundle do not overlap, an action stands as
\* successful only if a handler that began after its page was last published
\* has done it, whatever is retried, times out or is killed.
THEOREM SuccessIsHonestKept ==
  ASSUME OnePublisher
  PROVE  Spec => []SuccessIsHonest
  <1>1. Init => HonestInv
    BY DEF Init, HonestInv, NothingLeft, OneLoop, RowIsFresh, KeysAreNew, SuccessIsHonest,
           Exists, Idle
  <1>2. TypeOK /\ HonestInv /\ [Next]_vars => (TypeOK /\ HonestInv)'
    BY TypesKept, HonestKept
  <1>3. HonestInv => SuccessIsHonest
    BY DEF HonestInv
  <1>4. QED
    BY <1>1, <1>2, <1>3, InitTypes, PTL DEF Spec
===========================================================================
