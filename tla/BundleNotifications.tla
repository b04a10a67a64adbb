------------------------ MODULE BundleNotifications ------------------------
(***************************************************************************)
(* What a process says on Slack about the bundles it publishes. Messages   *)
(* are sent by the tasks of the support executor, a FIFO thread pool: the  *)
(* start and the end of a publication are chained per bundle, and a report *)
(* waits for the post-publish actions, replies in the thread of the        *)
(* publication's message and, when every notification of the bundle is     *)
(* out, has the last word. A task that waits for another keeps its worker. *)
(***************************************************************************)
EXTENDS Naturals, Sequences, FiniteSets

CONSTANTS
  Bundle,       \* bundles this process publishes
  Worker,       \* threads of the support executor
  MaxTask,      \* bound: tasks submitted in all
  MaxFailures   \* bound: Slack calls that fail

ASSUME ConstantsAssumption ==
  /\ Worker # {}
  /\ MaxTask \in Nat
  /\ MaxFailures \in Nat

VARIABLES
  task,       \* the tasks submitted so far, in order
  taken,      \* how many of them a worker has taken from the queue
  done,       \* the tasks whose future is complete
  worker,     \* what each worker is doing
  last,       \* _bundle_notification_futures: a task of the bundle, or none
  opening,    \* _bundle_publication_message_futures
  publisher,  \* where the publication of each bundle has got to
  ts,         \* slack_notification_ts: the message stored for the bundle
  message,    \* the bundle's messages on Slack, by what each shows now
  replied,    \* the messages that have a summary in their thread
  failures    \* Slack calls that have failed

vars == <<task, taken, done, worker, last, opening, publisher, ts, message, replied, failures>>
poolVars  == <<task, taken, done, worker, last, opening>>
slackVars == <<ts, message, replied, failures>>

---------------------------------------------------------------------------

None == 0          \* no task, no message
Text == {"preparing", "started", "ended", "finished"}

Chained == {"started", "ended"}
Kind    == Chained \cup {"alert", "report"}

Task == [bundle : Bundle, kind : Kind, after : Nat]

\* on: the future a worker waits for; seen: the timestamp it has read.
Busy == [task : Nat \ {0}, step : {"wait", "poll", "reply", "settle", "send"},
         on : Nat, seen : Nat]
Idle == [task |-> None]

PoolTypes ==
  /\ task \in Seq(Task)
  /\ taken \in 0 .. Len(task)
  /\ done \subseteq 1 .. taken
  /\ worker \in [Worker -> Busy \cup {Idle}]
  /\ \A w \in Worker : worker[w].task \in 0 .. taken
  /\ last \in [Bundle -> 0 .. Len(task)]
  /\ opening \in [Bundle -> 0 .. Len(task)]
  /\ publisher \in [Bundle -> {"idle", "prepared", "publishing", "ended", "reporting"}]

SlackTypes ==
  /\ message \in [Bundle -> Seq(Text)]
  /\ ts \in [Bundle -> Nat]
  /\ \A b \in Bundle : ts[b] <= Len(message[b])
  /\ \A w \in Worker : worker[w] # Idle =>
       worker[w].seen <= Len(message[task[worker[w].task].bundle])
  /\ replied \in [Bundle -> SUBSET Nat]
  /\ failures \in 0 .. MaxFailures

TypeOK == PoolTypes /\ SlackTypes

Complete(t) == t = None \/ t \in done

---------------------------------------------------------------------------
(* The thread that publishes a bundle                                      *)

\* run_in_support_executor: t joins the end of the queue.
Submit(b, kind, after) ==
  /\ Len(task) < MaxTask
  /\ task' = Append(task, [bundle |-> b, kind |-> kind, after |-> after])

\* Mutant: a notification is not chained to the one before it.
Notify_Unchained(b, kind) ==
  /\ Submit(b, kind, None)
  /\ last' = [last EXCEPT ![b] = Len(task) + 1]

\* run_bundle_notification_in_support_executor
Notify(b, kind) ==
  /\ Submit(b, kind, last[b])
  /\ last' = [last EXCEPT ![b] = Len(task) + 1]

\* The command announces a bundle it will hold until its release: always a
\* new message, posted by the command's own thread.
Prepare(b) ==
  /\ publisher[b] = "idle"
  /\ Len(task) < MaxTask
  /\ publisher' = [publisher EXCEPT ![b] = "prepared"]
  /\ \/ /\ message' = [message EXCEPT ![b] = Append(@, "preparing")]
        /\ ts' = [ts EXCEPT ![b] = Len(message[b]) + 1]
        /\ UNCHANGED failures
     \/ /\ failures < MaxFailures
        /\ failures' = failures + 1
        /\ UNCHANGED <<message, ts>>
  /\ UNCHANGED <<task, taken, done, worker, last, opening, replied>>

\* run_bundle_publication_message_in_support_executor
Begin(b) ==
  /\ publisher[b] \in {"idle", "prepared"}
  /\ Notify(b, "started")
  /\ opening' = [opening EXCEPT ![b] = Len(task) + 1]
  /\ publisher' = [publisher EXCEPT ![b] = "publishing"]
  /\ UNCHANGED <<taken, done, worker, ts, message, replied, failures>>

\* A page failed: an alert in another channel, which waits for nothing.
Alert(b) ==
  /\ publisher[b] = "publishing"
  /\ Submit(b, "alert", None)
  /\ UNCHANGED <<taken, done, worker, last, opening, publisher, ts, message, replied, failures>>

\* publish_bundle says how it went.
End(b) ==
  /\ publisher[b] = "publishing"
  /\ Notify(b, "ended")
  /\ publisher' = [publisher EXCEPT ![b] = "ended"]
  /\ UNCHANGED <<taken, done, worker, opening, ts, message, replied, failures>>

\* publish_bundle raises before it could say so.
Raise(b) ==
  /\ publisher[b] = "publishing"
  /\ publisher' = [publisher EXCEPT ![b] = "ended"]
  /\ UNCHANGED <<poolVars, slackVars>>

\* Mutant: the report is submitted before the publication has ended.
Report_Early(b) ==
  /\ publisher[b] = "publishing"
  /\ Submit(b, "report", None)
  /\ publisher' = [publisher EXCEPT ![b] = "publishing"]
  /\ UNCHANGED <<taken, done, worker, last, opening, ts, message, replied, failures>>

\* The finally clause around publish_bundle submits the report.
Report(b) ==
  /\ publisher[b] = "ended"
  /\ Submit(b, "report", None)
  /\ publisher' = [publisher EXCEPT ![b] = "reporting"]
  /\ UNCHANGED <<taken, done, worker, last, opening, ts, message, replied, failures>>

\* A publication's report is out: the bundle may be published again, which the
\* process does only after waiting for the reports of the run before.
MayRepublish(b) ==
  /\ publisher[b] = "reporting"
  /\ \A t \in 1 .. Len(task) : task[t].bundle = b => t \in done
  /\ publisher' = [publisher EXCEPT ![b] = "idle"]
  /\ UNCHANGED <<poolVars, slackVars>>

---------------------------------------------------------------------------
(* The workers                                                             *)

FirstStep(kind) ==
  CASE kind \in Chained -> "wait"
    [] kind = "report"  -> "poll"
    [] kind = "alert"   -> "send"

Take(w) ==
  LET t == taken + 1 IN
  /\ worker[w] = Idle
  /\ taken < Len(task)
  /\ taken' = t
  /\ worker' = [worker EXCEPT ![w] =
                  [task |-> t, step |-> FirstStep(task[t].kind),
                   on |-> task[t].after, seen |-> None]]
  /\ UNCHANGED <<task, done, last, opening, publisher, slackVars>>

At(w, step) == worker[w] # Idle /\ worker[w].step = step
BundleOf(w) == task[worker[w].task].bundle

\* _run_after: the notification before this one is complete; send reads the
\* stored timestamp.
Wait(w) ==
  /\ At(w, "wait")
  /\ Complete(worker[w].on)
  /\ worker' = [worker EXCEPT ![w].step = "send", ![w].seen = ts[BundleOf(w)]]
  /\ UNCHANGED <<task, taken, done, last, opening, publisher, slackVars>>

\* The post-publish actions of the bundle are finished, or marked timed out.
Poll(w) ==
  /\ At(w, "poll")
  /\ worker' = [worker EXCEPT ![w].step = "reply", ![w].on = opening[BundleOf(w)]]
  /\ UNCHANGED <<task, taken, done, last, opening, publisher, slackVars>>

\* Mutant: the reply does not wait for the publication's message.
Reply_AtOnce(w) ==
  LET b == BundleOf(w) IN
  /\ At(w, "reply")
  /\ replied' = IF ts[b] = None THEN replied
                ELSE [replied EXCEPT ![b] = @ \cup {ts[b]}]
  /\ worker' = [worker EXCEPT ![w].step = "settle", ![w].on = last[b]]
  /\ last' = [last EXCEPT ![b] = None]
  /\ UNCHANGED <<task, taken, done, opening, publisher, ts, message, failures>>

\* The summary goes into the thread of the stored message, if there is one;
\* then the bundle's last notification is taken out, to be waited for.
Reply(w) ==
  LET b == BundleOf(w) IN
  /\ At(w, "reply")
  /\ Complete(worker[w].on)
  /\ \/ /\ replied' = IF ts[b] = None THEN replied
                      ELSE [replied EXCEPT ![b] = @ \cup {ts[b]}]
        /\ UNCHANGED failures
     \/ /\ ts[b] # None
        /\ failures < MaxFailures
        /\ failures' = failures + 1
        /\ UNCHANGED replied
  /\ worker' = [worker EXCEPT ![w].step = "settle", ![w].on = last[b]]
  /\ last' = [last EXCEPT ![b] = None]
  /\ UNCHANGED <<task, taken, done, opening, publisher, ts, message>>

\* wait_for_bundle_notifications is over; the last message reads the timestamp.
Settle(w) ==
  LET b == BundleOf(w) IN
  /\ At(w, "settle")
  /\ Complete(worker[w].on)
  /\ opening' = [opening EXCEPT ![b] = None]
  /\ worker' = [worker EXCEPT ![w].step = "send", ![w].seen = ts[b]]
  /\ UNCHANGED <<task, taken, done, last, publisher, slackVars>>

SentText(kind) == IF kind = "report" THEN "finished" ELSE kind

\* A new message was posted: its timestamp is stored unless another sender
\* has stored one since this one looked.
Posted(b, text, seen) ==
  /\ message' = [message EXCEPT ![b] = Append(@, text)]
  /\ ts' = IF ts[b] = seen THEN [ts EXCEPT ![b] = Len(message[b]) + 1] ELSE ts

\* Mutant: the timestamp is stored before Slack has answered.
Deliver_StoresAnyway(b, text, seen) ==
  \/ /\ seen # None
     /\ message' = [message EXCEPT ![b][seen] = text]
     /\ UNCHANGED <<ts, failures>>
  \/ /\ seen = None
     /\ ts' = [ts EXCEPT ![b] = Len(message[b]) + 1]
     /\ \/ message' = [message EXCEPT ![b] = Append(@, text)] /\ UNCHANGED failures
        \/ /\ failures < MaxFailures
           /\ failures' = failures + 1
           /\ UNCHANGED message

\* send_or_update_slack_message: update the message seen, post a new one when
\* there is none or the update fails, or fail altogether.
Deliver(b, text, seen) ==
  \/ /\ seen # None
     /\ message' = [message EXCEPT ![b][seen] = text]
     /\ UNCHANGED <<ts, failures>>
  \/ /\ seen = None
     /\ Posted(b, text, seen)
     /\ UNCHANGED failures
  \/ /\ failures < MaxFailures
     /\ failures' = failures + 1
     /\ \/ seen # None /\ Posted(b, text, seen)
        \/ UNCHANGED <<message, ts>>

Send(w) ==
  LET t == worker[w].task IN
  /\ At(w, "send")
  /\ IF task[t].kind = "alert"
     THEN UNCHANGED <<message, ts, failures>>
     ELSE Deliver(task[t].bundle, SentText(task[t].kind), worker[w].seen)
  /\ done' = done \cup {t}
  /\ worker' = [worker EXCEPT ![w] = Idle]
  /\ UNCHANGED <<task, taken, last, opening, publisher, replied>>

---------------------------------------------------------------------------

Init ==
  /\ task = <<>>
  /\ taken = 0
  /\ done = {}
  /\ worker = [w \in Worker |-> Idle]
  /\ last = [b \in Bundle |-> None]
  /\ opening = [b \in Bundle |-> None]
  /\ publisher = [b \in Bundle |-> "idle"]
  /\ ts = [b \in Bundle |-> None]
  /\ message = [b \in Bundle |-> <<>>]
  /\ replied = [b \in Bundle |-> {}]
  /\ failures = 0

Publish(b) ==
  Prepare(b) \/ Begin(b) \/ Alert(b) \/ End(b) \/ Raise(b) \/ Report(b) \/ MayRepublish(b)

Work(w) == Take(w) \/ Wait(w) \/ Poll(w) \/ Reply(w) \/ Settle(w) \/ Send(w)

Next ==
  \/ \E b \in Bundle : Publish(b)
  \/ \E w \in Worker : Work(w)

Spec == Init /\ [][Next]_vars

---------------------------------------------------------------------------
(* Properties                                                              *)

\* A worker that has a task and is not kept waiting by another one.
CanGoOn(w) ==
  /\ worker[w] # Idle
  /\ worker[w].step \in {"wait", "reply", "settle"} => Complete(worker[w].on)

\* The pool never starves: however small it is and whatever its tasks wait
\* for, while a task is unfinished some worker can take one or go on with its
\* own (executor._run_after and the report wait inside the pool).
NeverStuck ==
  done # 1 .. Len(task) =>
    \E w \in Worker : CanGoOn(w) \/ (worker[w] = Idle /\ taken < Len(task))

\* The notifications of a bundle go out in the order they were submitted, and
\* the report after all of them (run_bundle_notification_in_support_executor,
\* wait_for_bundle_notifications).
InOrder ==
  \A t, u \in 1 .. Len(task) :
    /\ t < u
    /\ task[t].bundle = task[u].bundle
    /\ task[t].kind # "alert" /\ task[u].kind # "alert"
    /\ u \in done
    => t \in done

\* If Slack has not failed, the stored message of a bundle whose publication
\* is over shows its outcome and carries the summary of its post-publish
\* actions in its thread: no earlier word overwrites the last one.
PublicationIsTold ==
  \A b \in Bundle :
    failures = 0 /\ publisher[b] = "idle" /\ message[b] # <<>>
    => message[b][ts[b]] = "finished" /\ ts[b] \in replied[b]
===========================================================================
