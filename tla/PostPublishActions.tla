------------------------- MODULE PostPublishActions -------------------------
(***************************************************************************)
(* The post-publish actions of one bundle. Publishing a page makes a row   *)
(* for each type of action and submits a job to the thread pool of the     *)
(* process; the job finds its row by page and type, runs the handler, and  *)
(* writes the outcome. A report waits for the rows and marks the late ones *)
(* timed out; the retry command, run again and again, submits jobs anew    *)
(* for rows that look stuck or have failed. Nothing stops the first job of *)
(* a retried action, nor that of a bundle that is published again.         *)
(***************************************************************************)
EXTENDS Naturals, FiniteSets

CONSTANTS
  Page, Type,        \* the pages of the bundle, the registered action types
  MaxRun,            \* bound: processes at work at once
  MaxRetries,        \* BUNDLE_POST_PUBLISH_MAX_RETRIES
  MaxPublications,   \* bound: times the bundle is published
  MaxCrashes,        \* bound: processes killed
  OnePublisher       \* publications of the bundle do not overlap

ASSUME ConstantsAssumption ==
  /\ MaxRun \in Nat
  /\ MaxRetries \in Nat
  /\ MaxPublications \in Nat
  /\ MaxCrashes \in Nat
  /\ OnePublisher \in BOOLEAN

VARIABLES
  row,           \* the PostPublishAction of each page and type
  queued,        \* jobs no thread has started
  running,       \* jobs whose handler is running
  proc,          \* what each process is doing
  publications,  \* times the bundle has been published
  crashes,       \* processes killed so far
  handled        \* history: actions handled since their page was last published

vars == <<row, queued, running, proc, publications, crashes, handled>>
jobVars == <<queued, running>>
bounds  == <<publications, crashes>>

---------------------------------------------------------------------------

Action == Page \X Type

\* Publications and retry commands, each the process of its jobs; a publication's
\* number is also the key of its rows.
Run == 1 .. MaxRun

Status == {"READY", "RUNNING", "FAILED", "SUCCESSFUL"}

\* Elapsed time in units of BUNDLE_POST_PUBLISH_TIMEOUT_SECONDS, up to "more".
Age  == 0 .. 2
Over == 2

Row == [pk : Run, status : Status, finished : BOOLEAN, retries : 0 .. MaxRetries, age : Age]
Absent == [status |-> "ABSENT"]

\* row: the key of the row it read; fresh: it began after the last publication.
Job == [action : Action, run : Run, pk : Run, fresh : BOOLEAN]

\* left: pages to publish; picked: rows to retry, and wait for; old: rows the
\* retry command's cut-off admits.
Step == {"idle", "publishing", "reporting", "retrying", "watching"}
Proc == [step : Step, left : SUBSET Page, picked : SUBSET (Action \X Run),
         old : SUBSET (Action \X Run), age : Age]
Idle == [step |-> "idle", left |-> {}, picked |-> {}, old |-> {}, age |-> 0]

TypeOK ==
  /\ row \in [Action -> Row \cup {Absent}]
  /\ queued \subseteq Action \X Run
  /\ running \subseteq Job
  /\ proc \in [Run -> Proc]
  /\ publications \in 0 .. MaxPublications
  /\ crashes \in 0 .. MaxCrashes
  /\ handled \subseteq Action

---------------------------------------------------------------------------
(* Rows                                                                    *)

Exists(a) == row[a] # Absent
HasKey(a, pk) == Exists(a) /\ row[a].pk = pk

\* PostPublishActionQuerySet.pending
Pending(a) == Exists(a) /\ ~row[a].finished

\* PostPublishActionQuerySet.mark_timed_out
MarkTimedOut(S) ==
  row' = [a \in Action |->
            IF a \in S THEN [row[a] EXCEPT !.status = "FAILED", !.finished = TRUE]
            ELSE row[a]]

\* Mutant: the number of retries is not looked at.
Retriable_Unlimited(a) ==
  Exists(a) /\ row[a].status \in {"RUNNING", "FAILED", "READY"}

\* _get_actions_to_retry, but for the age.
Retriable(a) ==
  /\ Exists(a)
  /\ row[a].status \in {"RUNNING", "FAILED", "READY"}
  /\ row[a].retries < MaxRetries

Old == {id \in Action \X Run : HasKey(id[1], id[2]) /\ row[id[1]].age = Over}

Alive(n) ==
  \/ proc[n].step # "idle"
  \/ \E a \in Action : <<a, n>> \in queued
  \/ \E j \in running : j.run = n

\* Neither a process nor the key of a row, or of one a job has read.
Unused(n) ==
  /\ ~Alive(n)
  /\ \A a \in Action : ~HasKey(a, n)
  /\ \A j \in running : j.pk # n

\* The number a new process is given.
Fresh(n) == Unused(n) /\ \A m \in Run : Unused(m) => n <= m

---------------------------------------------------------------------------
(* Publication                                                             *)

\* publish_bundle starts by deleting the bundle's actions.
BeginPublish(n) ==
  /\ Fresh(n)
  /\ publications < MaxPublications
  /\ OnePublisher => \A m \in Run : proc[m].step # "publishing"
  /\ publications' = publications + 1
  /\ row' = [a \in Action |-> Absent]
  /\ proc' = [proc EXCEPT ![n] = [Idle EXCEPT !.step = "publishing", !.left = Page]]
  /\ UNCHANGED <<jobVars, crashes, handled>>

\* update_or_create
Upserted(a, n) ==
  IF Exists(a) THEN [row[a] EXCEPT !.status = "READY", !.finished = FALSE, !.retries = 0]
  ELSE [pk |-> n, status |-> "READY", finished |-> FALSE, retries |-> 0, age |-> 0]

\* A page is published: its rows are committed with it, then the jobs submitted.
PublishPage(n, p) ==
  LET S == {p} \X Type IN
  /\ proc[n].step = "publishing"
  /\ p \in proc[n].left
  /\ row' = [a \in Action |-> IF a \in S THEN Upserted(a, n) ELSE row[a]]
  /\ queued' = queued \cup (S \X {n})
  /\ running' = {[j EXCEPT !.fresh = @ /\ j.action \notin S] : j \in running}
  /\ handled' = handled \ S
  /\ proc' = [proc EXCEPT ![n].left = @ \ {p}]
  /\ UNCHANGED bounds

\* A page fails to publish; its transaction leaves no rows.
SkipPage(n, p) ==
  /\ proc[n].step = "publishing"
  /\ p \in proc[n].left
  /\ proc' = [proc EXCEPT ![n].left = @ \ {p}]
  /\ UNCHANGED <<row, jobVars, bounds, handled>>

\* The report is submitted; its time has run since the publication began.
EndPublish(n) ==
  /\ proc[n].step = "publishing"
  /\ proc[n].left = {}
  /\ proc' = [proc EXCEPT ![n].step = "reporting"]
  /\ UNCHANGED <<row, jobVars, bounds, handled>>

\* as_completed_actions_by_bundle: nothing of the bundle is pending.
ReportDone(n) ==
  /\ proc[n].step = "reporting"
  /\ proc[n].age # Over
  /\ \A a \in Action : ~Pending(a)
  /\ proc' = [proc EXCEPT ![n] = Idle]
  /\ UNCHANGED <<row, jobVars, bounds, handled>>

\* post_publish_notify_slack: whatever is pending has timed out.
ReportTimeout(n) ==
  /\ proc[n].step = "reporting"
  /\ proc[n].age = Over
  /\ MarkTimedOut({a \in Action : Pending(a)})
  /\ proc' = [proc EXCEPT ![n] = Idle]
  /\ UNCHANGED <<jobVars, bounds, handled>>

---------------------------------------------------------------------------
(* Jobs                                                                    *)

\* run_action finds the row by bundle, page and type; without it, it raises.
StartJob(a, n) ==
  /\ <<a, n>> \in queued
  /\ queued' = queued \ {<<a, n>>}
  /\ IF Exists(a)
     THEN /\ row' = [row EXCEPT ![a].status = "RUNNING"]
          /\ running' = running \cup {[action |-> a, run |-> n, pk |-> row[a].pk, fresh |-> TRUE]}
     ELSE UNCHANGED <<row, running>>
  /\ UNCHANGED <<proc, bounds, handled>>

\* Mutant: the outcome is written to the row of the page and type.
Saved_ByKey(j, status) ==
  IF Exists(j.action) THEN [row EXCEPT ![j.action].status = status, ![j.action].finished = TRUE]
  ELSE row

\* action.save(update_fields=...) writes the row that was read, and raises if
\* there is none.
Saved(j, status) ==
  IF HasKey(j.action, j.pk)
  THEN [row EXCEPT ![j.action].status = status, ![j.action].finished = TRUE]
  ELSE row

FinishJob(j) ==
  /\ j \in running
  /\ running' = running \ {j}
  /\ \/ /\ row' = Saved(j, "SUCCESSFUL")
        /\ handled' = IF j.fresh THEN handled \cup {j.action} ELSE handled
     \/ /\ row' = Saved(j, "FAILED")
        /\ UNCHANGED handled
  /\ UNCHANGED <<queued, proc, bounds>>

---------------------------------------------------------------------------
(* The retry command                                                       *)

\* The rows to retry are listed, within the transaction that retries them.
RetryPick(n) ==
  LET picked == {id \in Old : Retriable(id[1])} IN
  /\ Fresh(n)
  /\ picked # {}
  /\ proc' = [proc EXCEPT ![n] =
                [Idle EXCEPT !.step = "retrying", !.picked = picked, !.old = Old]]
  /\ UNCHANGED <<row, jobVars, bounds, handled>>

\* Mutant: a retry is not counted.
Retried_Uncounted(a) == [row[a] EXCEPT !.status = "READY", !.finished = FALSE]

Retried(a) ==
  [row[a] EXCEPT !.status = "READY", !.finished = FALSE, !.retries = @ + 1]

\* The update selects its rows again; on commit the jobs of those that were
\* listed are submitted.
RetryCommit(n) ==
  /\ proc[n].step = "retrying"
  /\ row' = [a \in Action |->
               IF Retriable(a) /\ <<a, row[a].pk>> \in proc[n].old THEN Retried(a) ELSE row[a]]
  /\ queued' = queued \cup {<<id[1], n>> : id \in proc[n].picked}
  /\ proc' = [proc EXCEPT ![n].step = "watching"]
  /\ UNCHANGED <<running, bounds, handled>>

\* Each poll drops the rows that are finished.
RetryPoll(n) ==
  LET rest == {id \in proc[n].picked : ~(HasKey(id[1], id[2]) /\ row[id[1]].finished)} IN
  /\ proc[n].step = "watching"
  /\ rest # proc[n].picked
  /\ proc' = [proc EXCEPT ![n] = IF rest = {} THEN Idle ELSE [@ EXCEPT !.picked = rest]]
  /\ UNCHANGED <<row, jobVars, bounds, handled>>

RetryTimeout(n) ==
  /\ proc[n].step = "watching"
  /\ proc[n].age = Over
  /\ MarkTimedOut({a \in Action : Pending(a) /\ <<a, row[a].pk>> \in proc[n].picked})
  /\ proc' = [proc EXCEPT ![n] = Idle]
  /\ UNCHANGED <<jobVars, bounds, handled>>

---------------------------------------------------------------------------

\* A process is killed with whatever it was doing and all its jobs.
Crash(n) ==
  /\ Alive(n)
  /\ crashes < MaxCrashes
  /\ crashes' = crashes + 1
  /\ queued' = {q \in queued : q[2] # n}
  /\ running' = {j \in running : j.run # n}
  /\ proc' = [proc EXCEPT ![n] = Idle]
  /\ UNCHANGED <<row, publications, handled>>

Older(age) == IF age = Over THEN Over ELSE age + 1

Tick ==
  /\ row' = [a \in Action |-> IF Exists(a) THEN [row[a] EXCEPT !.age = Older(@)] ELSE Absent]
  /\ proc' = [n \in Run |-> IF proc[n].step = "idle" THEN proc[n]
                            ELSE [proc[n] EXCEPT !.age = Older(@)]]
  /\ UNCHANGED <<jobVars, bounds, handled>>

Init ==
  /\ row = [a \in Action |-> Absent]
  /\ queued = {}
  /\ running = {}
  /\ proc = [n \in Run |-> Idle]
  /\ publications = 0
  /\ crashes = 0
  /\ handled = {}

Publish(n) ==
  \/ BeginPublish(n) \/ EndPublish(n) \/ ReportDone(n) \/ ReportTimeout(n)
  \/ \E p \in Page : PublishPage(n, p) \/ SkipPage(n, p)

GoOn(n) ==
  \/ EndPublish(n) \/ ReportDone(n) \/ ReportTimeout(n)
  \/ RetryCommit(n) \/ RetryPoll(n) \/ RetryTimeout(n)
  \/ \E p \in Page : PublishPage(n, p) \/ SkipPage(n, p)

Next ==
  \/ \E n \in Run : Publish(n)
  \/ \E n \in Run : RetryPick(n) \/ RetryCommit(n) \/ RetryPoll(n) \/ RetryTimeout(n)
  \/ \E a \in Action, n \in Run : StartJob(a, n)
  \/ \E j \in running : FinishJob(j)
  \/ \E n \in Run : Crash(n)
  \/ Tick

Spec == Init /\ [][Next]_vars

\* Time passes, cron runs the retry command, processes and handlers go on.
Fairness ==
  /\ WF_vars(Tick)
  /\ WF_vars(\E n \in Run : RetryPick(n))
  /\ \A n \in Run : WF_vars(GoOn(n))
  /\ \A a \in Action, n \in Run :
       /\ WF_vars(StartJob(a, n))
       /\ WF_vars(\E j \in running : j.action = a /\ j.run = n /\ FinishJob(j))

FairSpec == Spec /\ Fairness

---------------------------------------------------------------------------
(* Properties                                                              *)

\* An action stands as successful only if a handler that began after its page
\* was last published has done it (run_action): no job of an earlier
\* publication, and none that is retried, speaks for it.
SuccessIsHonest ==
  \A a \in Action : Exists(a) /\ row[a].status = "SUCCESSFUL" => a \in handled

\* Whatever is lost, delayed or run twice, an action does not stay undone: it
\* succeeds, runs out of retries or makes way for a new publication, again and
\* again (retry_post_publish_actions).
Settled(a) ==
  Exists(a) => row[a].status = "SUCCESSFUL" \/ row[a].retries = MaxRetries

ActionsAreSettled == \A a \in Action : []<>Settled(a)

\* An action that has been recorded as successful stays so until its bundle is
\* published again: READY, RUNNING, then SUCCESSFUL or FAILED.
SuccessIsFinal ==
  [][\A a \in Action :
       Exists(a) /\ row[a].status = "SUCCESSFUL" /\ row'[a] # Absent /\ row'[a].pk = row[a].pk
       => row'[a].status = "SUCCESSFUL"]_vars
===========================================================================
