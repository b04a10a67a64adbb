--------------------- MODULE BundleNotificationsProofs ---------------------
(* Proofs about BundleNotifications, for any number of bundles, tasks and  *)
(* workers: types, the order of a bundle's notifications, that the pool    *)
(* never starves, and what the stored message of a bundle says in the end. *)
EXTENDS BundleNotifications, SequenceTheorems, WellFoundedInduction, TLAPS

---------------------------------------------------------------------------
(* The inductive invariant.                                                *)

Tasks == 1 .. Len(task)

\* m is a notification of b in the chain, or none.
IsNotification(b, m) ==
  m # None => m \in Tasks /\ task[m].bundle = b /\ task[m].kind \in Chained

\* The notifications and reports of b before t are out, except perhaps some
\* up to m: whoever waits for m waits for all of them.
Covered(b, t, m) ==
  \A s \in Tasks :
    s < t /\ task[s].bundle = b /\ task[s].kind # "alert" => s \in done \/ s <= m

\* Every notification waits for one that covers those before it.
ChainInv ==
  \A u \in Tasks :
    /\ task[u].kind \notin Chained => task[u].after = None
    /\ task[u].kind \in Chained =>
         /\ IsNotification(task[u].bundle, task[u].after)
         /\ task[u].after < u
         /\ Covered(task[u].bundle, u, task[u].after)

\* What the dictionaries hold, by where the publication has got to.
FuturesInv ==
  \A b \in Bundle :
    /\ IsNotification(b, last[b])
    /\ IsNotification(b, opening[b])
    /\ publisher[b] \in {"idle", "prepared"} => Covered(b, Len(task) + 1, None)
    /\ publisher[b] \in {"publishing", "ended"} => Covered(b, Len(task) + 1, last[b])

Settling(r) ==
  \E w \in Worker : worker[w].task = r /\ worker[w].step \in {"settle", "send"}

\* While a report is not out, its bundle is not published again, and until the
\* report takes the last notification out, that one covers the others.
ReportInv ==
  \A r \in Tasks \ done :
    task[r].kind = "report" =>
      /\ publisher[task[r].bundle] = "reporting"
      /\ \A s \in Tasks : task[s].bundle = task[r].bundle => s <= r
      /\ ~Settling(r) => Covered(task[r].bundle, r, last[task[r].bundle])

\* Every unfinished task that was taken has its worker, and only one.
WorkerInv ==
  /\ \A v, w \in Worker :
       worker[v] # Idle /\ worker[w] # Idle /\ worker[v].task = worker[w].task => v = w
  /\ \A t \in 1 .. taken : t \notin done => \E w \in Worker : worker[w].task = t

\* What a busy worker knows of the notifications before its own.
StepInv ==
  \A w \in Worker : worker[w] # Idle =>
    LET u == worker[w].task
        b == task[u].bundle
        on == worker[w].on
    IN /\ u \notin done
       /\ worker[w].step = "wait" => task[u].kind \in Chained /\ on = task[u].after
       /\ worker[w].step \in {"poll", "reply", "settle"} => task[u].kind = "report"
       /\ worker[w].step \in {"reply", "settle"} => IsNotification(b, on)
       /\ worker[w].step = "settle" => Covered(b, u, on)
       /\ worker[w].step = "send" /\ task[u].kind # "alert" => Covered(b, u, None)

PoolInv ==
  /\ ChainInv /\ FuturesInv /\ ReportInv /\ WorkerInv /\ StepInv /\ InOrder

---------------------------------------------------------------------------
(* Types                                                                   *)

\* A task joins the queue behind the others, which stay as they are.
LEMMA SubmitAppends ==
  ASSUME PoolTypes, NEW b \in Bundle, NEW kind \in Kind, NEW after \in Nat,
         Submit(b, kind, after)
  PROVE  /\ task' \in Seq(Task)
         /\ Len(task) \in Nat
         /\ Len(task') = Len(task) + 1
         /\ \A t \in Tasks : task'[t] = task[t]
         /\ task'[Len(task) + 1] = [bundle |-> b, kind |-> kind, after |-> after]
  <1>1. task \in Seq(Task)
    BY DEF PoolTypes
  <1>2. [bundle |-> b, kind |-> kind, after |-> after] \in Task
    BY DEF Task
  <1>3. QED
    BY <1>1, <1>2, AppendProperties, LenProperties DEF Submit, Tasks

LEMMA BusyWorker ==
  ASSUME PoolTypes, NEW w \in Worker, worker[w] # Idle
  PROVE  /\ worker[w] \in Busy
         /\ worker[w].task \in Tasks
         /\ worker[w].task <= taken
         /\ task[worker[w].task] \in Task
  <1>1. worker[w] \in Busy /\ worker[w].task \in 0 .. taken /\ taken \in 0 .. Len(task)
    BY DEF PoolTypes
  <1>2. worker[w].task \in Nat \ {0} /\ Len(task) \in Nat
    BY <1>1, LenProperties DEF Busy, PoolTypes
  <1>3. worker[w].task \in Tasks
    BY <1>1, <1>2 DEF Tasks
  <1>4. QED
    BY <1>1, <1>3, ElementOfSeq DEF PoolTypes, Tasks

LEMMA PoolTypesKept ==
  ASSUME TypeOK, [Next]_vars
  PROVE  PoolTypes'
  <1> USE DEF Chained, Kind
  <1>t. PoolTypes /\ ts \in [Bundle -> Nat]
    BY DEF TypeOK, SlackTypes
  <1> USE <1>t
  <1>len. Len(task) \in Nat
    BY LenProperties DEF PoolTypes
  <1>sub. ASSUME NEW b \in Bundle, NEW kind \in Kind, NEW after \in Nat, Submit(b, kind, after),
                 last' = last \/ last' = [last EXCEPT ![b] = Len(task) + 1],
                 opening' = opening \/ opening' = [opening EXCEPT ![b] = Len(task) + 1],
                 publisher' \in [Bundle -> {"idle", "prepared", "publishing", "ended", "reporting"}],
                 UNCHANGED <<taken, done, worker>>
          PROVE  PoolTypes'
    <2>1. task' \in Seq(Task) /\ Len(task') = Len(task) + 1
      BY <1>sub, SubmitAppends
    <2>2. /\ last' \in [Bundle -> 0 .. Len(task')]
          /\ opening' \in [Bundle -> 0 .. Len(task')]
          /\ taken' \in 0 .. Len(task')
      <3>1. 0 .. Len(task) \subseteq 0 .. Len(task') /\ Len(task) + 1 \in 0 .. Len(task')
        BY <1>len, <2>1
      <3>2. last' \in [Bundle -> 0 .. Len(task')]
        BY <1>sub, <3>1 DEF PoolTypes
      <3>3. opening' \in [Bundle -> 0 .. Len(task')]
        BY <1>sub, <3>1 DEF PoolTypes
      <3>4. QED
        BY <1>sub, <3>1, <3>2, <3>3 DEF PoolTypes
    <2>3. QED
      BY <1>sub, <2>1, <2>2 DEF PoolTypes
  <1>1. ASSUME NEW b \in Bundle, Publish(b) PROVE PoolTypes'
    <2>last. last[b] \in Nat
      BY <1>len DEF PoolTypes
    <2>1. CASE Prepare(b)
      BY <2>1 DEF Prepare, PoolTypes
    <2>2. CASE Begin(b)
      BY <2>2, <2>last, <1>sub DEF Begin, Notify, PoolTypes
    <2>3. CASE Alert(b)
      BY <2>3, <1>sub DEF Alert, PoolTypes, None
    <2>4. CASE End(b)
      BY <2>4, <2>last, <1>sub DEF End, Notify, PoolTypes
    <2>5. CASE Raise(b)
      BY <2>5 DEF Raise, PoolTypes, poolVars
    <2>6. CASE Report(b)
      BY <2>6, <1>sub DEF Report, PoolTypes, None
    <2>7. CASE MayRepublish(b)
      BY <2>7 DEF MayRepublish, PoolTypes, poolVars
    <2>8. QED
      BY <1>1, <2>1, <2>2, <2>3, <2>4, <2>5, <2>6, <2>7 DEF Publish
  <1>2. ASSUME NEW w \in Worker, Work(w) PROVE PoolTypes'
    <2>busy. ASSUME worker[w] # Idle, UNCHANGED <<task, taken, done, publisher>>,
                    NEW r \in Busy, r.task = worker[w].task, worker' = [worker EXCEPT ![w] = r],
                    last' \in [Bundle -> 0 .. Len(task)], opening' \in [Bundle -> 0 .. Len(task)]
             PROVE  PoolTypes'
      BY <2>busy DEF PoolTypes
    <2>b. ASSUME worker[w] # Idle
          PROVE  /\ worker[w] \in Busy /\ BundleOf(w) \in Bundle
                 /\ last[BundleOf(w)] \in Nat /\ opening[BundleOf(w)] \in Nat
                 /\ ts[BundleOf(w)] \in Nat
      <3>1. worker[w] \in Busy /\ BundleOf(w) \in Bundle
        BY <2>b, BusyWorker DEF BundleOf, Task
      <3>2. last[BundleOf(w)] \in 0 .. Len(task) /\ opening[BundleOf(w)] \in 0 .. Len(task)
        BY <3>1 DEF PoolTypes
      <3>3. QED
        BY <1>len, <3>1, <3>2
    <2>none. 0 \in 0 .. Len(task)
      BY <1>len
    <2>1. CASE Take(w)
      <3> DEFINE t == taken + 1
      <3>1. t \in 1 .. Len(task) /\ taken' = t
        BY <2>1, <1>len DEF Take, PoolTypes
      <3>2. task[t] \in Task
        BY <3>1, ElementOfSeq DEF PoolTypes
      <3>3. FirstStep(task[t].kind) \in {"wait", "poll", "reply", "settle", "send"}
        BY <3>2 DEF FirstStep, Task
      <3>4. [task |-> t, step |-> FirstStep(task[t].kind), on |-> task[t].after, seen |-> None] \in Busy
        BY <3>1, <3>2, <3>3 DEF Busy, Task, None
      <3>5. worker' \in [Worker -> Busy \cup {Idle}]
        BY <2>1, <3>4 DEF Take, PoolTypes
      <3>6. \A v \in Worker : worker'[v].task \in 0 .. taken'
        BY <2>1, <3>1 DEF Take, PoolTypes
      <3>7. QED
        BY <2>1, <3>1, <3>5, <3>6 DEF Take, PoolTypes
    <2>2. CASE Wait(w)
      <3> DEFINE r == [worker[w] EXCEPT !.step = "send", !.seen = ts[BundleOf(w)]]
      <3>1. worker' = [worker EXCEPT ![w] = r] /\ worker[w] # Idle
        BY <2>2 DEF Wait, At, PoolTypes
      <3>2. r \in Busy /\ r.task = worker[w].task
        BY <3>1, <2>b, <1>len DEF Busy
      <3>3. last' \in [Bundle -> 0 .. Len(task)] /\ opening' \in [Bundle -> 0 .. Len(task)]
        BY <2>2, <1>len DEF Wait, PoolTypes, None
      <3>4. QED
        BY <2>2, <2>busy, <3>1, <3>2, <3>3 DEF Wait
    <2>3. CASE Poll(w)
      <3> DEFINE r == [worker[w] EXCEPT !.step = "reply", !.on = opening[BundleOf(w)]]
      <3>1. worker' = [worker EXCEPT ![w] = r] /\ worker[w] # Idle
        BY <2>3 DEF Poll, At, PoolTypes
      <3>2. r \in Busy /\ r.task = worker[w].task
        BY <3>1, <2>b, <1>len DEF Busy
      <3>3. last' \in [Bundle -> 0 .. Len(task)] /\ opening' \in [Bundle -> 0 .. Len(task)]
        BY <2>3, <1>len DEF Poll, PoolTypes, None
      <3>4. QED
        BY <2>3, <2>busy, <3>1, <3>2, <3>3 DEF Poll
    <2>4. CASE Reply(w)
      <3> DEFINE r == [worker[w] EXCEPT !.step = "settle", !.on = last[BundleOf(w)]]
      <3>1. worker' = [worker EXCEPT ![w] = r] /\ worker[w] # Idle
        BY <2>4 DEF Reply, At, PoolTypes
      <3>2. r \in Busy /\ r.task = worker[w].task
        BY <3>1, <2>b, <1>len DEF Busy
      <3>3. last' \in [Bundle -> 0 .. Len(task)] /\ opening' \in [Bundle -> 0 .. Len(task)]
        <4>1. last' = last \/ last' = [last EXCEPT ![BundleOf(w)] = 0]
          BY <2>4 DEF Reply, None
        <4>2. opening' = opening \/ opening' = [opening EXCEPT ![BundleOf(w)] = 0]
          BY <2>4 DEF Reply, None
        <4>3. QED
          BY <2>none, <4>1, <4>2 DEF PoolTypes
      <3>4. QED
        BY <2>4, <2>busy, <3>1, <3>2, <3>3 DEF Reply
    <2>5. CASE Settle(w)
      <3> DEFINE r == [worker[w] EXCEPT !.step = "send", !.seen = ts[BundleOf(w)]]
      <3>1. worker' = [worker EXCEPT ![w] = r] /\ worker[w] # Idle
        BY <2>5 DEF Settle, At, PoolTypes
      <3>2. r \in Busy /\ r.task = worker[w].task
        BY <3>1, <2>b, <1>len DEF Busy
      <3>3. last' \in [Bundle -> 0 .. Len(task)] /\ opening' \in [Bundle -> 0 .. Len(task)]
        <4>1. last' = last \/ last' = [last EXCEPT ![BundleOf(w)] = 0]
          BY <2>5 DEF Settle, None
        <4>2. opening' = opening \/ opening' = [opening EXCEPT ![BundleOf(w)] = 0]
          BY <2>5 DEF Settle, None
        <4>3. QED
          BY <2>none, <4>1, <4>2 DEF PoolTypes
      <3>4. QED
        BY <2>5, <2>busy, <3>1, <3>2, <3>3 DEF Settle
    <2>6. CASE Send(w)
      <3>1. worker[w] # Idle /\ worker[w].task \in 1 .. taken
        BY <2>6, BusyWorker DEF Send, At, Busy, PoolTypes, Tasks
      <3>2. worker' \in [Worker -> Busy \cup {Idle}]
        BY <2>6 DEF Send, PoolTypes
      <3>3. \A v \in Worker : worker'[v].task \in 0 .. taken
        BY <2>6, <1>len DEF Send, PoolTypes, Idle, None
      <3>4. QED
        BY <2>6, <3>1, <3>2, <3>3 DEF Send, PoolTypes
    <2>7. QED
      BY <1>2, <2>1, <2>2, <2>3, <2>4, <2>5, <2>6 DEF Work
  <1>3. CASE UNCHANGED vars
    BY <1>3 DEF vars, PoolTypes
  <1>4. QED
    BY <1>1, <1>2, <1>3 DEF Next

\* What a step may do to a worker's record as far as Slack is concerned.
SeenIsStored(w) ==
  \/ worker'[w].task = worker[w].task /\ worker'[w].seen = worker[w].seen
  \/ worker'[w].seen = None
  \/ worker'[w].task = worker[w].task /\ worker'[w].seen = ts[BundleOf(w)]

LEMMA SeenStaysKnown ==
  ASSUME TypeOK,
         NEW w \in Worker, worker'[w] # Idle, worker'[w].seen # None => worker[w] # Idle,
         SeenIsStored(w),
         \A t \in Tasks : task'[t] = task[t],
         \A b \in Bundle : Len(message'[b]) \in Nat /\ Len(message[b]) <= Len(message'[b]),
         worker'[w].task \in 1 .. Len(task'), task' \in Seq(Task)
  PROVE  worker'[w].seen <= Len(message'[task'[worker'[w].task].bundle])
  <1> DEFINE c == task'[worker'[w].task].bundle
  <1>1. c \in Bundle
    <2>1. task'[worker'[w].task] \in Task
      BY ElementOfSeq
    <2>2. QED
      BY <2>1 DEF Task
  <1>2. CASE worker'[w].seen = None
    BY <1>1, <1>2 DEF None
  <1>3. CASE worker'[w].seen # None
    <2>1. /\ worker[w] \in Busy /\ worker[w].task \in Tasks /\ BundleOf(w) \in Bundle
      BY <1>3, BusyWorker DEF TypeOK, BundleOf, Task
    <2>2. worker'[w].task = worker[w].task /\ c = BundleOf(w)
      BY <1>3, <2>1 DEF SeenIsStored, BundleOf
    <2>3. worker[w].seen <= Len(message[BundleOf(w)]) /\ ts[BundleOf(w)] <= Len(message[BundleOf(w)])
      BY <1>3, <2>1 DEF TypeOK, SlackTypes, BundleOf
    <2>4. worker[w].seen \in Nat /\ ts[BundleOf(w)] \in Nat /\ Len(message[BundleOf(w)]) \in Nat
      BY <2>1, LenProperties DEF Busy, TypeOK, SlackTypes
    <2>5. QED
      BY <1>3, <2>1, <2>2, <2>3, <2>4 DEF SeenIsStored
  <1>4. QED
    BY <1>2, <1>3

\* Delivering a message adds one at most, and stores only messages there are.
LEMMA DeliverTypes ==
  ASSUME TypeOK, NEW b \in Bundle, NEW text \in Text, NEW seen \in 0 .. Len(message[b]),
         Deliver(b, text, seen)
  PROVE  /\ message' \in [Bundle -> Seq(Text)]
         /\ ts' \in [Bundle -> Nat]
         /\ \A c \in Bundle : Len(message'[c]) \in Nat /\ Len(message[c]) <= Len(message'[c])
         /\ \A c \in Bundle : ts'[c] <= Len(message'[c])
         /\ failures' \in 0 .. MaxFailures
  <1>1. /\ message[b] \in Seq(Text) /\ \A c \in Bundle : Len(message[c]) \in Nat
        /\ ts \in [Bundle -> Nat] /\ failures \in 0 .. MaxFailures
        /\ message \in [Bundle -> Seq(Text)] /\ \A c \in Bundle : ts[c] <= Len(message[c])
    BY LenProperties DEF TypeOK, SlackTypes
  <1>2. CASE seen # None /\ message' = [message EXCEPT ![b][seen] = text] /\ UNCHANGED <<ts, failures>>
    <2>1. /\ [message[b] EXCEPT ![seen] = text] \in Seq(Text)
          /\ Len([message[b] EXCEPT ![seen] = text]) = Len(message[b])
      BY <1>1, <1>2, ExceptSeq DEF None
    <2>2. message' = [message EXCEPT ![b] = [message[b] EXCEPT ![seen] = text]]
      BY <1>1, <1>2
    <2>3. \A c \in Bundle : Len(message'[c]) = Len(message[c])
      BY <1>1, <2>1, <2>2
    <2>4. QED
      BY <1>1, <1>2, <2>1, <2>2, <2>3
  <1>3. ASSUME Posted(b, text, seen), failures' \in 0 .. MaxFailures
        PROVE  /\ message' \in [Bundle -> Seq(Text)]
               /\ ts' \in [Bundle -> Nat]
               /\ \A c \in Bundle : Len(message'[c]) \in Nat /\ Len(message[c]) <= Len(message'[c])
               /\ \A c \in Bundle : ts'[c] <= Len(message'[c])
               /\ failures' \in 0 .. MaxFailures
    <2>1. Append(message[b], text) \in Seq(Text) /\ Len(Append(message[b], text)) = Len(message[b]) + 1
      BY <1>1, AppendProperties
    <2>2. message' = [message EXCEPT ![b] = Append(message[b], text)]
      BY <1>3 DEF Posted
    <2>3. /\ message' \in [Bundle -> Seq(Text)] /\ Len(message'[b]) = Len(message[b]) + 1
          /\ \A c \in Bundle \ {b} : Len(message'[c]) = Len(message[c])
      BY <1>1, <2>1, <2>2
    <2>4. /\ ts' \in [Bundle -> Nat] /\ \A c \in Bundle \ {b} : ts'[c] = ts[c]
          /\ ts'[b] \in {ts[b], Len(message[b]) + 1}
      BY <1>1, <1>3 DEF Posted
    <2>5. QED
      BY <1>1, <1>3, <2>3, <2>4
  <1>4. CASE failures' = failures + 1 /\ failures < MaxFailures
    <2>1. failures' \in 0 .. MaxFailures
      BY <1>1, <1>4, ConstantsAssumption
    <2>2. CASE UNCHANGED <<message, ts>>
      BY <1>1, <2>1, <2>2
    <2>3. QED
      BY <1>1, <1>2, <1>3, <1>4, <2>1, <2>2 DEF Deliver
  <1>5. QED
    BY <1>1, <1>2, <1>3, <1>4 DEF Deliver

LEMMA SlackTypesKept ==
  ASSUME TypeOK, [Next]_vars
  PROVE  SlackTypes'
  <1>1. PoolTypes' /\ PoolTypes /\ SlackTypes
    BY PoolTypesKept DEF TypeOK
  <1>2. \A c \in Bundle : Len(message[c]) \in Nat /\ Len(message[c]) <= Len(message[c])
    BY <1>1, LenProperties DEF SlackTypes
  <1>len. Len(task) \in Nat
    BY <1>1, LenProperties DEF PoolTypes
  <1>busy. ASSUME NEW w \in Worker, worker'[w] # Idle
           PROVE  worker'[w].task \in 1 .. Len(task') /\ worker'[w].seen \in Nat
    <2>1. worker'[w] \in Busy /\ worker'[w].task \in 0 .. taken' /\ taken' \in 0 .. Len(task')
      BY <1>1, <1>busy DEF PoolTypes
    <2>2. Len(task') \in Nat
      BY <1>1, LenProperties DEF PoolTypes
    <2>3. QED
      BY <2>1, <2>2 DEF Busy
  \* What remains to be shown of each step.
  <1>rest. ASSUME \A t \in Tasks : task'[t] = task[t],
                  \A w \in Worker : worker'[w] # Idle =>
                    /\ worker'[w].seen # None => worker[w] # Idle
                    /\ SeenIsStored(w),
                  message' \in [Bundle -> Seq(Text)],
                  ts' \in [Bundle -> Nat],
                  \A c \in Bundle : Len(message'[c]) \in Nat /\ Len(message[c]) <= Len(message'[c]),
                  \A c \in Bundle : ts'[c] <= Len(message'[c]),
                  replied' \in [Bundle -> SUBSET Nat],
                  failures' \in 0 .. MaxFailures
           PROVE  SlackTypes'
    <2>1. ASSUME NEW w \in Worker, worker'[w] # Idle
          PROVE  worker'[w].seen <= Len(message'[task'[worker'[w].task].bundle])
      <3>1. task' \in Seq(Task)
        BY <1>1 DEF PoolTypes
      <3>2. QED
        BY <1>rest, <1>busy, <2>1, <3>1, SeenStaysKnown
    <2>2. QED
      BY <1>rest, <2>1 DEF SlackTypes
  <1>same. ASSUME UNCHANGED slackVars,
                  \A t \in Tasks : task'[t] = task[t],
                  \A w \in Worker : worker'[w] # Idle =>
                    /\ worker'[w].seen # None => worker[w] # Idle
                    /\ SeenIsStored(w)
           PROVE  SlackTypes'
    BY <1>1, <1>2, <1>rest, <1>same DEF SlackTypes, slackVars
  <1>idle. ASSUME UNCHANGED worker, NEW w \in Worker
           PROVE  /\ worker'[w] # Idle => worker[w] # Idle
                  /\ SeenIsStored(w)
    BY <1>idle DEF SeenIsStored
  <1>3. ASSUME NEW b \in Bundle, Publish(b) PROVE SlackTypes'
    <2>last. last[b] \in Nat
      BY <1>1, <1>len DEF PoolTypes
    <2>1. CASE Prepare(b)
      <3>1. Append(message[b], "preparing") \in Seq(Text) /\ Len(Append(message[b], "preparing")) = Len(message[b]) + 1
        BY <1>1, AppendProperties DEF SlackTypes, Text
      <3>2. CASE /\ message' = [message EXCEPT ![b] = Append(@, "preparing")]
                 /\ ts' = [ts EXCEPT ![b] = Len(message[b]) + 1]
                 /\ UNCHANGED failures
        <4>1. /\ message' \in [Bundle -> Seq(Text)] /\ ts' \in [Bundle -> Nat]
              /\ \A c \in Bundle : Len(message'[c]) \in Nat /\ Len(message[c]) <= Len(message'[c])
              /\ \A c \in Bundle : ts'[c] <= Len(message'[c])
          BY <1>1, <1>2, <3>1, <3>2 DEF SlackTypes
        <4>2. QED
          BY <1>1, <2>1, <3>2, <4>1, <1>rest, <1>idle DEF Prepare, SlackTypes
      <3>3. CASE failures' = failures + 1 /\ failures < MaxFailures /\ UNCHANGED <<message, ts>>
        <4>1. failures' \in 0 .. MaxFailures
          BY <1>1, <3>3, ConstantsAssumption DEF SlackTypes
        <4>2. QED
          BY <1>1, <1>2, <2>1, <3>3, <4>1, <1>rest, <1>idle DEF Prepare, SlackTypes
      <3>4. QED
        BY <2>1, <3>2, <3>3 DEF Prepare
    <2>sub. ASSUME NEW kind \in Kind, NEW after \in Nat, Submit(b, kind, after), UNCHANGED <<worker, slackVars>>
            PROVE  SlackTypes'
      BY <1>1, <2>sub, SubmitAppends, <1>same, <1>idle
    <2>2. CASE Begin(b)
      BY <2>2, <2>last, <2>sub DEF Begin, Notify, Kind, Chained, slackVars
    <2>3. CASE Alert(b)
      BY <2>3, <2>sub DEF Alert, Kind, None, slackVars
    <2>4. CASE End(b)
      BY <2>4, <2>last, <2>sub DEF End, Notify, Kind, Chained, slackVars
    <2>5. CASE Report(b)
      BY <2>5, <2>sub DEF Report, Kind, None, slackVars
    <2>6. CASE Raise(b) \/ MayRepublish(b)
      BY <2>6, <1>same, <1>idle DEF Raise, MayRepublish, poolVars
    <2>7. QED
      BY <1>3, <2>1, <2>2, <2>3, <2>4, <2>5, <2>6 DEF Publish
  <1>4. ASSUME NEW w \in Worker, Work(w) PROVE SlackTypes'
    <2>other. ASSUME NEW v \in Worker \ {w}
              PROVE  worker'[v] = worker[v]
      BY <1>1, <1>4 DEF Work, Take, Wait, Poll, Reply, Settle, Send, PoolTypes
    <2>others. ASSUME NEW v \in Worker, v # w, worker'[v] # Idle
               PROVE  /\ worker'[v].seen # None => worker[v] # Idle
                      /\ SeenIsStored(v)
      BY <2>other, <2>others DEF SeenIsStored
    <2>task. task' = task
      BY <1>4 DEF Work, Take, Wait, Poll, Reply, Settle, Send
    <2>b. ASSUME worker[w] # Idle PROVE worker[w] \in Busy /\ BundleOf(w) \in Bundle
      BY <1>1, <2>b, BusyWorker DEF BundleOf, Task
    <2>1. CASE Take(w)
      <3>1. worker'[w].seen = None
        BY <1>1, <2>1 DEF Take, PoolTypes
      <3>2. QED
        BY <2>1, <2>others, <3>1, <1>same DEF Take, SeenIsStored
    <2>2. CASE Wait(w) \/ Settle(w)
      <3>1. worker[w] # Idle /\ worker[w] \in Busy
        BY <2>2, <2>b DEF Wait, Settle, At
      <3>2. worker'[w].task = worker[w].task /\ worker'[w].seen = ts[BundleOf(w)]
        BY <1>1, <2>2, <3>1 DEF Wait, Settle, PoolTypes, Busy
      <3>3. QED
        BY <2>2, <2>task, <2>others, <3>1, <3>2, <1>same DEF Wait, Settle, SeenIsStored
    <2>3. CASE Poll(w)
      <3>1. worker[w] # Idle /\ worker[w] \in Busy
        BY <2>3, <2>b DEF Poll, At
      <3>2. worker'[w].task = worker[w].task /\ worker'[w].seen = worker[w].seen
        BY <1>1, <2>3, <3>1 DEF Poll, PoolTypes, Busy
      <3>3. QED
        BY <2>3, <2>task, <2>others, <3>1, <3>2, <1>same DEF Poll, SeenIsStored
    <2>4. CASE Reply(w)
      <3>1. worker[w] # Idle /\ worker[w] \in Busy /\ BundleOf(w) \in Bundle
        BY <2>4, <2>b DEF Reply, At
      <3>2. worker'[w].task = worker[w].task /\ worker'[w].seen = worker[w].seen
        BY <1>1, <2>4, <3>1 DEF Reply, PoolTypes, Busy
      <3>3. replied' \in [Bundle -> SUBSET Nat]
        BY <1>1, <2>4, <3>1 DEF Reply, SlackTypes
      <3>4. failures' \in 0 .. MaxFailures
        BY <1>1, <2>4, ConstantsAssumption DEF Reply, SlackTypes
      <3>5. message' = message /\ ts' = ts
        BY <2>4 DEF Reply
      <3>6. QED
        BY <1>1, <1>2, <2>task, <2>others, <3>1, <3>2, <3>3, <3>4, <3>5, <1>rest DEF SeenIsStored, SlackTypes
    <2>5. CASE Send(w)
      <3> DEFINE t == worker[w].task
      <3>1. worker[w] # Idle /\ worker[w] \in Busy /\ BundleOf(w) \in Bundle /\ task[t] \in Task
        BY <1>1, <2>5, <2>b, BusyWorker DEF Send, At
      <3>2. worker'[w] = Idle /\ replied' = replied
        BY <1>1, <2>5 DEF Send, PoolTypes
      <3>3. CASE task[t].kind = "alert"
        BY <1>1, <1>2, <2>5, <2>task, <2>others, <3>2, <3>3, <1>same DEF Send, slackVars
      <3>4. CASE task[t].kind # "alert"
        <4>1. SentText(task[t].kind) \in Text
          BY <3>1, <3>4 DEF Task, Kind, Chained, SentText, Text
        <4>2. worker[w].seen \in 0 .. Len(message[task[t].bundle])
          BY <1>1, <1>2, <3>1 DEF SlackTypes, Busy, BundleOf
        <4>3. Deliver(task[t].bundle, SentText(task[t].kind), worker[w].seen)
          BY <2>5, <3>4 DEF Send
        <4>4. /\ message' \in [Bundle -> Seq(Text)]
              /\ ts' \in [Bundle -> Nat]
              /\ \A c \in Bundle : Len(message'[c]) \in Nat /\ Len(message[c]) <= Len(message'[c])
              /\ \A c \in Bundle : ts'[c] <= Len(message'[c])
              /\ failures' \in 0 .. MaxFailures
          BY <3>1, <4>1, <4>2, <4>3, DeliverTypes DEF BundleOf
        <4>5. QED
          BY <1>1, <2>task, <2>others, <3>2, <4>4, <1>rest DEF SlackTypes
      <3>5. QED
        BY <3>3, <3>4
    <2>6. QED
      BY <1>4, <2>1, <2>2, <2>3, <2>4, <2>5 DEF Work
  <1>5. CASE UNCHANGED vars
    BY <1>5, <1>same, <1>idle DEF vars, slackVars
  <1>6. QED
    BY <1>3, <1>4, <1>5 DEF Next

LEMMA InitTypes == Init => TypeOK
  <1> SUFFICES ASSUME Init PROVE TypeOK
    OBVIOUS
  <1>1. Len(task) = 0 /\ task \in Seq(Task) /\ \A b \in Bundle : message[b] \in Seq(Text) /\ Len(message[b]) = 0
    BY EmptySeq DEF Init
  <1>2. PoolTypes
    BY <1>1 DEF Init, PoolTypes, None, Idle
  <1>3. SlackTypes
    BY <1>1, ConstantsAssumption DEF Init, SlackTypes, None
  <1>4. QED
    BY <1>2, <1>3 DEF TypeOK

\* Every variable keeps its type; a stored timestamp is always that of a
\* message there is.
THEOREM NotificationTypes == Spec => []TypeOK
  <1>1. TypeOK /\ [Next]_vars => TypeOK'
    BY PoolTypesKept, SlackTypesKept DEF TypeOK
  <1>2. QED
    BY <1>1, InitTypes, PTL DEF Spec

---------------------------------------------------------------------------
(* The order of notifications                                              *)

\* Waiting for m is waiting for all that m covers.
LEMMA Uncover ==
  ASSUME NEW b \in Bundle, NEW u, NEW m, Covered(b, u, m), IsNotification(b, m),
         Complete(m), InOrder, Len(task) \in Nat
  PROVE  Covered(b, u, None)
  <1> SUFFICES ASSUME NEW s \in Tasks, s < u, task[s].bundle = b, task[s].kind # "alert", s \notin done
               PROVE  FALSE
    BY DEF Covered
  <1>1. s <= m
    BY DEF Covered
  <1>2. m # None
    BY <1>1 DEF Tasks, None
  <1>3. m \in done /\ m \in Tasks /\ task[m].bundle = b /\ task[m].kind # "alert"
    BY <1>2 DEF Complete, IsNotification, Chained
  <1>4. s < m
    BY <1>1, <1>3 DEF Tasks
  <1>5. QED
    BY <1>3, <1>4 DEF InOrder, Tasks

\* Covered and IsNotification of the state after a step, of numbers that keep
\* their value.
CoveredAfter(b, t, m) ==
  \A s \in Tasks' :
    s < t /\ task'[s].bundle = b /\ task'[s].kind # "alert" => s \in done' \/ s <= m

IsNotificationAfter(b, m) ==
  m # None => m \in Tasks' /\ task'[m].bundle = b /\ task'[m].kind \in Chained

\* The parts of the invariant, said of the state after a step.
ChainAfter(u) ==
  /\ task'[u].kind \notin Chained => task'[u].after = None
  /\ task'[u].kind \in Chained =>
       /\ IsNotificationAfter(task'[u].bundle, task'[u].after)
       /\ task'[u].after < u
       /\ CoveredAfter(task'[u].bundle, u, task'[u].after)

FuturesAfter(c) ==
  /\ IsNotificationAfter(c, last'[c])
  /\ IsNotificationAfter(c, opening'[c])
  /\ publisher'[c] \in {"idle", "prepared"} => CoveredAfter(c, Len(task') + 1, None)
  /\ publisher'[c] \in {"publishing", "ended"} => CoveredAfter(c, Len(task') + 1, last'[c])

ReportAfter(r) ==
  LET c == task'[r].bundle IN
  /\ publisher'[c] = "reporting"
  /\ \A s \in Tasks' : task'[s].bundle = c => s <= r
  /\ ~Settling(r)' => CoveredAfter(c, r, last'[c])

StepAfter(w) ==
  LET u == worker'[w].task
      c == task'[u].bundle
      on == worker'[w].on
  IN /\ u \notin done'
     /\ worker'[w].step = "wait" => task'[u].kind \in Chained /\ on = task'[u].after
     /\ worker'[w].step \in {"poll", "reply", "settle"} => task'[u].kind = "report"
     /\ worker'[w].step \in {"reply", "settle"} => IsNotificationAfter(c, on)
     /\ worker'[w].step = "settle" => CoveredAfter(c, u, on)
     /\ worker'[w].step = "send" /\ task'[u].kind # "alert" => CoveredAfter(c, u, None)

LEMMA PoolInvAfter ==
  ASSUME \A u \in Tasks' : ChainAfter(u),
         \A c \in Bundle : FuturesAfter(c),
         \A r \in Tasks' \ done' : task'[r].kind = "report" => ReportAfter(r),
         WorkerInv',
         \A w \in Worker : worker'[w] # Idle => StepAfter(w),
         InOrder'
  PROVE  PoolInv'
  <1> USE DEF Covered, CoveredAfter, IsNotification, IsNotificationAfter
  <1>1. ChainInv'
    BY DEF ChainInv, ChainAfter
  <1>2. FuturesInv'
    BY DEF FuturesInv, FuturesAfter, None
  <1>3. ReportInv'
    BY DEF ReportInv, ReportAfter
  <1>4. StepInv'
    BY DEF StepInv, StepAfter, Idle, None
  <1>5. QED
    BY <1>1, <1>2, <1>3, <1>4 DEF PoolInv

LEMMA TaskIndex ==
  ASSUME PoolTypes
  PROVE  /\ Len(task) \in Nat
         /\ taken \in Nat /\ taken <= Len(task)
         /\ \A t \in done : t \in Tasks /\ t <= taken
         /\ \A t \in Tasks : t \in Nat \ {0} /\ t <= Len(task) /\ task[t] \in Task
  <1>1. Len(task) \in Nat
    BY LenProperties DEF PoolTypes
  <1>2. \A t \in Tasks : task[t] \in Task
    BY ElementOfSeq DEF PoolTypes, Tasks
  <1>3. QED
    BY <1>1, <1>2 DEF PoolTypes, Tasks

\* A task joins the queue: what was known of the others is still known.
LEMMA SubmitKeeps ==
  ASSUME TypeOK, PoolInv, NEW b \in Bundle, NEW kind \in Kind, NEW after \in Nat,
         Submit(b, kind, after), UNCHANGED <<taken, done, worker>>,
         publisher[b] # "reporting",
         publisher'[b] \notin {"idle", "prepared"},
         \A c \in Bundle \ {b} : publisher'[c] = publisher[c] /\ last'[c] = last[c] /\ opening'[c] = opening[c],
         kind \in Chained => /\ after = last[b] /\ last'[b] = Len(task) + 1
                             /\ opening'[b] \in {opening[b], Len(task) + 1},
         kind \notin Chained => after = None /\ last'[b] = last[b] /\ opening'[b] = opening[b],
         kind = "report" => publisher'[b] = "reporting",
         Covered(b, Len(task) + 1, last[b])
  PROVE  PoolInv'
  <1> DEFINE n == Len(task) + 1
  <1>1. /\ Len(task') = n /\ \A t \in Tasks : task'[t] = task[t]
        /\ task'[n] = [bundle |-> b, kind |-> kind, after |-> after]
        /\ task'[n].bundle = b /\ task'[n].kind = kind /\ task'[n].after = after
    BY SubmitAppends DEF TypeOK
  <1>2. /\ Len(task) \in Nat /\ n \in Nat /\ n \notin Tasks
        /\ \A t \in done : t \in Tasks
        /\ \A t \in Tasks : t \in Nat \ {0} /\ t < n /\ task[t] \in Task
        /\ Tasks' = Tasks \cup {n}
    BY <1>1, TaskIndex DEF TypeOK, Tasks
  <1>cov. ASSUME NEW c \in Bundle, NEW t \in Nat, t <= n, NEW m, Covered(c, t, m)
          PROVE  CoveredAfter(c, t, m)
    BY <1>1, <1>2, <1>cov DEF Covered, CoveredAfter
  <1>cov2. ASSUME NEW c \in Bundle, NEW m, Covered(c, n, m), c # b \/ kind = "alert"
           PROVE  CoveredAfter(c, n + 1, m)
    BY <1>1, <1>2, <1>cov2 DEF Covered, CoveredAfter
  <1>not. ASSUME NEW c \in Bundle, NEW m, IsNotification(c, m)
          PROVE  IsNotificationAfter(c, m)
    BY <1>1, <1>2, <1>not DEF IsNotification, IsNotificationAfter
  <1>new. kind \in Chained => IsNotificationAfter(b, n)
    BY <1>1, <1>2 DEF IsNotificationAfter
  <1>old. /\ IsNotification(b, last[b]) /\ last[b] < n /\ last[b] \in Nat
    BY <1>2 DEF PoolInv, FuturesInv, TypeOK, PoolTypes
  <1>3. ASSUME NEW u \in Tasks' PROVE ChainAfter(u)
    <2>1. CASE u \in Tasks
      <3>1. task'[u] = task[u] /\ task[u].bundle \in Bundle
        BY <1>1, <1>2, <2>1 DEF Task
      <3>2. QED
        BY <1>2, <1>cov, <1>not, <2>1, <3>1 DEF PoolInv, ChainInv, ChainAfter
    <2>2. CASE u = n
      BY <1>1, <1>2, <1>cov, <1>not, <1>old, <2>2 DEF ChainAfter
    <2>3. QED
      BY <1>2, <1>3, <2>1, <2>2
  <1>4. ASSUME NEW c \in Bundle PROVE FuturesAfter(c)
    <2>0. /\ IsNotification(c, last[c]) /\ IsNotification(c, opening[c])
          /\ publisher[c] \in {"idle", "prepared"} => Covered(c, n, None)
          /\ publisher[c] \in {"publishing", "ended"} => Covered(c, n, last[c])
      BY DEF PoolInv, FuturesInv
    <2>1. CASE c # b
      BY <1>1, <1>not, <1>cov2, <2>0, <2>1 DEF FuturesAfter
    <2>2. CASE c = b /\ kind \in Chained
      <3>1. last'[b] = n /\ opening'[b] \in {opening[b], n}
        BY <2>2
      <3>2. CoveredAfter(b, n + 1, n)
        BY <1>2 DEF CoveredAfter
      <3>3. IsNotificationAfter(b, n) /\ IsNotificationAfter(b, opening[b])
        BY <1>not, <1>new, <2>0, <2>2
      <3>4. QED
        BY <1>1, <2>2, <3>1, <3>2, <3>3 DEF FuturesAfter
    <2>3. CASE c = b /\ kind = "alert"
      BY <1>1, <1>not, <1>cov2, <2>0, <2>3 DEF Chained, FuturesAfter
    <2>4. CASE c = b /\ kind = "report"
      BY <1>1, <1>not, <2>0, <2>4 DEF Chained, FuturesAfter
    <2>5. QED
      BY <2>1, <2>2, <2>3, <2>4 DEF Kind
  <1>5. ASSUME NEW r \in Tasks' \ done', task'[r].kind = "report" PROVE ReportAfter(r)
    <2>0. Settling(r)' <=> Settling(r)
      BY DEF Settling
    <2>1. CASE r \in Tasks
      <3>1. task'[r] = task[r] /\ task[r].bundle \in Bundle /\ task[r].kind = "report" /\ r \notin done
        BY <1>1, <1>2, <1>5, <2>1 DEF Task
      <3>2. /\ publisher[task[r].bundle] = "reporting"
            /\ \A s \in Tasks : task[s].bundle = task[r].bundle => s <= r
            /\ ~Settling(r) => Covered(task[r].bundle, r, last[task[r].bundle])
        BY <2>1, <3>1 DEF PoolInv, ReportInv
      <3>3. task[r].bundle # b /\ r \in Nat /\ r <= n
        BY <1>2, <2>1, <3>2
      <3>4. \A s \in Tasks' : task'[s].bundle = task'[r].bundle => s <= r
        BY <1>1, <1>2, <3>1, <3>2, <3>3
      <3>5. QED
        BY <1>cov, <2>0, <3>1, <3>2, <3>3, <3>4 DEF ReportAfter
    <2>2. CASE r = n
      <3>1. kind = "report" /\ publisher'[b] = "reporting" /\ last'[b] = last[b]
        BY <1>1, <1>5, <2>2 DEF Chained
      <3>2. \A s \in Tasks' : s <= n
        BY <1>2
      <3>3. CoveredAfter(b, n, last[b])
        BY <1>2, <1>cov
      <3>4. QED
        BY <1>1, <2>2, <3>1, <3>2, <3>3 DEF ReportAfter
    <2>3. QED
      BY <1>2, <1>5, <2>1, <2>2
  <1>6. WorkerInv'
    BY DEF PoolInv, WorkerInv
  <1>7. ASSUME NEW w \in Worker, worker'[w] # Idle PROVE StepAfter(w)
    <2>0. worker' = worker /\ done' = done /\ worker[w] # Idle
      BY <1>7
    <2>1. worker[w].task \in Tasks /\ task[worker[w].task] \in Task
      BY <2>0, BusyWorker DEF TypeOK
    <2>2. task'[worker[w].task] = task[worker[w].task] /\ task[worker[w].task].bundle \in Bundle
      BY <1>1, <2>1 DEF Task
    <2>3. worker[w].task \in Nat /\ worker[w].task <= n
      BY <1>2, <2>1
    <2>4. QED
      BY <1>cov, <1>not, <2>0, <2>2, <2>3 DEF PoolInv, StepInv, StepAfter
  <1>8. InOrder'
    <2>1. ASSUME NEW t \in Tasks', NEW u \in Tasks', t < u, task'[t].bundle = task'[u].bundle,
                 task'[t].kind # "alert", task'[u].kind # "alert", u \in done'
          PROVE  t \in done'
      <3>1. u \in Tasks /\ t \in Tasks
        BY <1>2, <2>1
      <3>2. QED
        BY <1>1, <2>1, <3>1 DEF PoolInv, InOrder, Tasks
    <2>2. QED
      BY <2>1 DEF InOrder, Tasks
  <1>9. QED
    BY <1>3, <1>4, <1>5, <1>6, <1>7, <1>8, PoolInvAfter

\* The steps of the publishing thread that submit nothing.
LEMMA PublisherKeeps ==
  ASSUME TypeOK, PoolInv, NEW b \in Bundle, UNCHANGED poolVars,
         NEW p, publisher' = [publisher EXCEPT ![b] = p],
         \A r \in Tasks \ done : task[r].kind = "report" => task[r].bundle # b,
         p \in {"idle", "prepared"} => Covered(b, Len(task) + 1, None),
         p \in {"publishing", "ended"} => Covered(b, Len(task) + 1, last[b])
  PROVE  PoolInv'
  <1> USE DEF poolVars
  <1>1. Tasks' = Tasks
    BY DEF Tasks
  <1>cov. ASSUME NEW c, NEW t, NEW m, Covered(c, t, m)
          PROVE  CoveredAfter(c, t, m)
    BY <1>1, <1>cov DEF Covered, CoveredAfter
  <1>not. ASSUME NEW c, NEW m, IsNotification(c, m)
          PROVE  IsNotificationAfter(c, m)
    BY <1>1, <1>not DEF IsNotification, IsNotificationAfter
  <1>pub. publisher'[b] = p /\ \A c \in Bundle \ {b} : publisher'[c] = publisher[c]
    BY DEF TypeOK, PoolTypes
  <1>2. \A u \in Tasks' : ChainAfter(u)
    BY <1>1, <1>cov, <1>not DEF PoolInv, ChainInv, ChainAfter
  <1>3. ASSUME NEW c \in Bundle PROVE FuturesAfter(c)
    <2>1. CASE c = b
      BY <1>cov, <1>not, <1>pub, <2>1 DEF PoolInv, FuturesInv, FuturesAfter
    <2>2. CASE c # b
      BY <1>cov, <1>not, <1>pub, <2>2 DEF PoolInv, FuturesInv, FuturesAfter
    <2>3. QED
      BY <2>1, <2>2
  <1>4. ASSUME NEW r \in Tasks' \ done', task'[r].kind = "report" PROVE ReportAfter(r)
    <2>1. Settling(r)' <=> Settling(r)
      BY DEF Settling
    <2>2. r \in Tasks \ done /\ task[r].kind = "report" /\ task[r].bundle \in Bundle
      BY <1>1, <1>4, TaskIndex DEF TypeOK, Task
    <2>3. QED
      BY <1>1, <1>cov, <1>pub, <2>1, <2>2 DEF PoolInv, ReportInv, ReportAfter
  <1>5. WorkerInv'
    BY DEF PoolInv, WorkerInv
  <1>6. \A w \in Worker : worker'[w] # Idle => StepAfter(w)
    BY <1>cov, <1>not DEF PoolInv, StepInv, StepAfter
  <1>7. InOrder'
    BY DEF PoolInv, InOrder
  <1>8. QED
    BY <1>2, <1>3, <1>4, <1>5, <1>6, <1>7, PoolInvAfter

\* A worker takes the next task of the queue.
LEMMA TakeKeeps ==
  ASSUME TypeOK, PoolInv, NEW w \in Worker, Take(w)
  PROVE  PoolInv'
  <1> DEFINE n == taken + 1
  <1>1. UNCHANGED <<task, done, last, opening, publisher>> /\ Tasks' = Tasks /\ worker[w] = Idle
    BY DEF Take, Tasks
  <1>2. /\ taken' = n /\ n \in Tasks /\ taken \in Nat /\ n \notin done /\ task[n] \in Task
        /\ \A v \in Worker : worker[v].task \in Nat /\ worker[v].task < n
    BY TaskIndex DEF Take, TypeOK, PoolTypes, Tasks
  <1>3. /\ worker'[w] # Idle
        /\ worker'[w].task = n /\ worker'[w].step = FirstStep(task[n].kind)
        /\ worker'[w].on = task[n].after
        /\ \A v \in Worker \ {w} : worker'[v] = worker[v]
    BY <1>2 DEF Take, TypeOK, PoolTypes, Idle, None
  <1>4. worker[w].task = None
    BY <1>1 DEF Idle
  <1>cov. ASSUME NEW c, NEW t, NEW m, Covered(c, t, m)
          PROVE  CoveredAfter(c, t, m)
    BY <1>1, <1>cov DEF Covered, CoveredAfter
  <1>not. ASSUME NEW c, NEW m, IsNotification(c, m)
          PROVE  IsNotificationAfter(c, m)
    BY <1>1, <1>not DEF IsNotification, IsNotificationAfter
  <1>5. \A u \in Tasks' : ChainAfter(u)
    BY <1>1, <1>cov, <1>not DEF PoolInv, ChainInv, ChainAfter
  <1>6. \A c \in Bundle : FuturesAfter(c)
    BY <1>1, <1>cov, <1>not DEF PoolInv, FuturesInv, FuturesAfter
  <1>7. ASSUME NEW r \in Tasks' \ done', task'[r].kind = "report" PROVE ReportAfter(r)
    <2>1. r \in Tasks \ done /\ task[r].kind = "report" /\ r # None
      BY <1>1, <1>7, TaskIndex DEF TypeOK, None
    <2>2. ASSUME Settling(r) PROVE Settling(r)'
      <3>1. PICK v \in Worker : worker[v].task = r /\ worker[v].step \in {"settle", "send"}
        BY <2>2 DEF Settling
      <3>2. v # w
        BY <1>4, <2>1, <3>1
      <3>3. QED
        BY <1>3, <3>1, <3>2 DEF Settling
    <2>3. QED
      BY <1>1, <1>cov, <2>1, <2>2 DEF PoolInv, ReportInv, ReportAfter
  <1>8. WorkerInv'
    <2>1. ASSUME NEW v \in Worker, NEW x \in Worker, worker'[v] # Idle, worker'[x] # Idle,
                 worker'[v].task = worker'[x].task
          PROVE  v = x
      BY <1>2, <1>3, <2>1 DEF PoolInv, WorkerInv
    <2>2. ASSUME NEW t \in 1 .. taken', t \notin done'
          PROVE  \E v \in Worker : worker'[v].task = t
      <3>1. CASE t = n
        BY <1>3, <3>1
      <3>2. CASE t # n
        <4>1. t \in 1 .. taken /\ t # None
          BY <1>2, <2>2, <3>2 DEF None
        <4>2. PICK v \in Worker : worker[v].task = t
          BY <1>1, <2>2, <4>1 DEF PoolInv, WorkerInv
        <4>3. QED
          BY <1>3, <1>4, <4>1, <4>2
      <3>3. QED
        BY <3>1, <3>2
    <2>3. QED
      BY <2>1, <2>2 DEF WorkerInv
  <1>9. ASSUME NEW v \in Worker, worker'[v] # Idle PROVE StepAfter(v)
    <2>1. CASE v = w
      BY <1>1, <1>2, <1>3, <2>1 DEF StepAfter, FirstStep, Task, Kind, Chained
    <2>2. CASE v # w
      BY <1>1, <1>3, <1>9, <1>cov, <1>not, <2>2 DEF PoolInv, StepInv, StepAfter
    <2>3. QED
      BY <2>1, <2>2
  <1>10. InOrder'
    BY <1>1 DEF PoolInv, InOrder
  <1>11. QED
    BY <1>5, <1>6, <1>7, <1>8, <1>9, <1>10, PoolInvAfter

\* A worker goes on with its task, from one step of it to the next.
LEMMA MoveKeeps ==
  ASSUME TypeOK, PoolInv, NEW w \in Worker, worker[w] # Idle,
         UNCHANGED <<task, taken, done, publisher>>,
         worker'[w].task = worker[w].task, worker'[w] # Idle,
         \A v \in Worker \ {w} : worker'[v] = worker[v],
         worker[w].step \in {"settle", "send"} => worker'[w].step \in {"settle", "send"},
         \A c \in Bundle : opening'[c] \in {opening[c], None},
         \/ last' = last
         \/ /\ task[worker[w].task].kind = "report"
            /\ worker'[w].step \in {"settle", "send"}
            /\ last' = [last EXCEPT ![BundleOf(w)] = None],
         StepAfter(w)
  PROVE  PoolInv'
  <1> DEFINE u == worker[w].task
             b == BundleOf(w)
  <1>1. Tasks' = Tasks /\ task' = task /\ done' = done /\ taken' = taken /\ publisher' = publisher
    BY DEF Tasks
  <1>2. u \in Tasks /\ task[u] \in Task /\ b \in Bundle /\ b = task[u].bundle /\ u \notin done
    BY BusyWorker DEF TypeOK, BundleOf, Task, PoolInv, StepInv
  <1>cov. ASSUME NEW c, NEW t, NEW m, Covered(c, t, m)
          PROVE  CoveredAfter(c, t, m)
    BY <1>1, <1>cov DEF Covered, CoveredAfter
  <1>not. ASSUME NEW c, NEW m, IsNotification(c, m)
          PROVE  IsNotificationAfter(c, m)
    BY <1>1, <1>not DEF IsNotification, IsNotificationAfter
  <1>none. \A c : IsNotificationAfter(c, None)
    BY DEF IsNotificationAfter
  <1>last. \A c \in Bundle : c # b => last'[c] = last[c]
    BY <1>2 DEF TypeOK, PoolTypes
  <1>popped. last' # last => publisher[b] = "reporting" /\ last'[b] = None
    BY <1>2 DEF PoolInv, ReportInv, TypeOK, PoolTypes
  <1>3. \A t \in Tasks' : ChainAfter(t)
    BY <1>1, <1>cov, <1>not DEF PoolInv, ChainInv, ChainAfter
  <1>4. ASSUME NEW c \in Bundle PROVE FuturesAfter(c)
    <2>1. /\ IsNotification(c, last[c]) /\ IsNotification(c, opening[c])
          /\ publisher[c] \in {"idle", "prepared"} => Covered(c, Len(task) + 1, None)
          /\ publisher[c] \in {"publishing", "ended"} => Covered(c, Len(task) + 1, last[c])
      BY DEF PoolInv, FuturesInv
    <2>2. IsNotificationAfter(c, opening'[c])
      BY <1>not, <1>none, <2>1
    <2>3. CASE last'[c] = last[c]
      BY <1>1, <1>cov, <1>not, <2>1, <2>2, <2>3 DEF FuturesAfter
    <2>4. CASE last'[c] # last[c]
      BY <1>1, <1>none, <1>last, <1>popped, <2>2, <2>4 DEF FuturesAfter
    <2>5. QED
      BY <2>3, <2>4
  <1>5. ASSUME NEW r \in Tasks' \ done', task'[r].kind = "report" PROVE ReportAfter(r)
    <2>1. r \in Tasks \ done /\ task[r].kind = "report" /\ task[r].bundle \in Bundle
      BY <1>1, <1>5, TaskIndex DEF TypeOK, Task
    <2>2. ASSUME Settling(r) PROVE Settling(r)'
      <3>1. PICK v \in Worker : worker[v].task = r /\ worker[v].step \in {"settle", "send"}
        BY <2>2 DEF Settling
      <3>2. worker'[v].task = r /\ worker'[v].step \in {"settle", "send"}
        BY <3>1
      <3>3. QED
        BY <3>2 DEF Settling
    <2>3. /\ publisher[task[r].bundle] = "reporting"
          /\ \A s \in Tasks : task[s].bundle = task[r].bundle => s <= r
          /\ ~Settling(r) => Covered(task[r].bundle, r, last[task[r].bundle])
      BY <2>1 DEF PoolInv, ReportInv
    <2>4. CASE last'[task[r].bundle] = last[task[r].bundle]
      BY <1>1, <1>cov, <2>1, <2>2, <2>3, <2>4 DEF ReportAfter
    <2>5. CASE last'[task[r].bundle] # last[task[r].bundle]
      <3>1. task[r].bundle = b /\ task[u].kind = "report" /\ worker'[w].step \in {"settle", "send"}
        BY <1>last, <2>1, <2>5
      <3>2. u <= r /\ r <= u
        BY <1>2, <2>1, <2>3, <3>1 DEF PoolInv, ReportInv
      <3>3. u = r
        BY <1>2, <2>1, <3>2, TaskIndex DEF TypeOK
      <3>4. Settling(r)'
        BY <3>1, <3>3 DEF Settling
      <3>5. QED
        BY <1>1, <2>3, <3>4 DEF ReportAfter
    <2>6. QED
      BY <2>4, <2>5
  <1>6. WorkerInv'
    <2>1. \A v \in Worker : worker'[v].task = worker[v].task /\ (worker'[v] = Idle <=> worker[v] = Idle)
      OBVIOUS
    <2>2. QED
      BY <1>1, <2>1 DEF PoolInv, WorkerInv
  <1>7. ASSUME NEW v \in Worker, worker'[v] # Idle PROVE StepAfter(v)
    <2>1. CASE v # w
      BY <1>1, <1>7, <1>cov, <1>not, <2>1 DEF PoolInv, StepInv, StepAfter
    <2>2. QED
      BY <2>1
  <1>8. InOrder'
    BY <1>1 DEF PoolInv, InOrder
  <1>9. QED
    BY <1>3, <1>4, <1>5, <1>6, <1>7, <1>8, PoolInvAfter
\* A worker's message is out and its task done.
LEMMA SendKeeps ==
  ASSUME TypeOK, PoolInv, NEW w \in Worker, Send(w)
  PROVE  PoolInv'
  <1> DEFINE u == worker[w].task
  <1>1. /\ Tasks' = Tasks /\ done' = done \cup {u} /\ worker'[w] = Idle /\ worker[w] # Idle
        /\ worker[w].step = "send"
        /\ UNCHANGED <<task, taken, last, opening, publisher>>
        /\ \A v \in Worker \ {w} : worker'[v] = worker[v]
    BY DEF Send, At, TypeOK, PoolTypes, Tasks
  <1>2. u \in Tasks /\ u # None /\ task[u] \in Task /\ u \notin done
    BY <1>1, BusyWorker, TaskIndex DEF TypeOK, PoolInv, StepInv, None
  <1>only. \A v \in Worker \ {w} : worker[v] # Idle => worker[v].task # u
    BY <1>1 DEF PoolInv, WorkerInv
  <1>cov. ASSUME NEW c, NEW t, NEW m, Covered(c, t, m)
          PROVE  CoveredAfter(c, t, m)
    BY <1>1, <1>cov DEF Covered, CoveredAfter
  <1>not. ASSUME NEW c, NEW m, IsNotification(c, m)
          PROVE  IsNotificationAfter(c, m)
    BY <1>1, <1>not DEF IsNotification, IsNotificationAfter
  <1>3. \A t \in Tasks' : ChainAfter(t)
    BY <1>1, <1>cov, <1>not DEF PoolInv, ChainInv, ChainAfter
  <1>4. \A c \in Bundle : FuturesAfter(c)
    BY <1>1, <1>cov, <1>not DEF PoolInv, FuturesInv, FuturesAfter
  <1>5. ASSUME NEW r \in Tasks' \ done', task'[r].kind = "report" PROVE ReportAfter(r)
    <2>1. r \in Tasks \ done /\ task[r].kind = "report" /\ r # u
      BY <1>1, <1>5
    <2>2. ASSUME Settling(r) PROVE Settling(r)'
      <3>1. PICK v \in Worker : worker[v].task = r /\ worker[v].step \in {"settle", "send"}
        BY <2>2 DEF Settling
      <3>2. worker'[v] = worker[v]
        BY <1>1, <2>1, <3>1
      <3>3. QED
        BY <3>1, <3>2 DEF Settling
    <2>3. QED
      BY <1>1, <1>cov, <2>1, <2>2 DEF PoolInv, ReportInv, ReportAfter
  <1>6. WorkerInv'
    <2>1. ASSUME NEW v \in Worker, NEW x \in Worker, worker'[v] # Idle, worker'[x] # Idle,
                 worker'[v].task = worker'[x].task
          PROVE  v = x
      BY <1>1, <2>1 DEF PoolInv, WorkerInv
    <2>2. ASSUME NEW t \in 1 .. taken', t \notin done'
          PROVE  \E v \in Worker : worker'[v].task = t
      <3>1. t \in 1 .. taken /\ t \notin done /\ t # u
        BY <1>1, <2>2
      <3>2. PICK v \in Worker : worker[v].task = t
        BY <3>1 DEF PoolInv, WorkerInv
      <3>3. worker'[v] = worker[v]
        BY <1>1, <3>1, <3>2
      <3>4. QED
        BY <3>2, <3>3
    <2>3. QED
      BY <2>1, <2>2 DEF WorkerInv
  <1>7. ASSUME NEW v \in Worker, worker'[v] # Idle PROVE StepAfter(v)
    <2>1. v # w /\ worker'[v] = worker[v] /\ worker[v].task # u
      BY <1>1, <1>7, <1>only
    <2>2. QED
      BY <1>1, <1>7, <1>cov, <1>not, <2>1 DEF PoolInv, StepInv, StepAfter
  <1>8. InOrder'
    <2>1. ASSUME NEW s \in Tasks, NEW t \in Tasks, s < t, task[s].bundle = task[t].bundle,
                 task[s].kind # "alert", task[t].kind # "alert", t \in done'
          PROVE  s \in done'
      <3>1. CASE t \in done
        BY <1>1, <2>1, <3>1 DEF PoolInv, InOrder, Tasks
      <3>2. CASE t = u
        <4>1. Covered(task[u].bundle, u, None)
          BY <1>1, <2>1, <3>2 DEF PoolInv, StepInv
        <4>2. s \in done \/ s <= None
          BY <2>1, <3>2, <4>1 DEF Covered
        <4>3. QED
          BY <1>1, <2>1, <4>2 DEF None, Tasks
      <3>3. QED
        BY <1>1, <2>1, <3>1, <3>2
    <2>2. QED
      BY <1>1, <2>1 DEF InOrder, Tasks
  <1>9. QED
    BY <1>3, <1>4, <1>5, <1>6, <1>7, <1>8, PoolInvAfter

LEMMA PoolInvKept ==
  ASSUME TypeOK, PoolInv, [Next]_vars
  PROVE  PoolInv'
  <1>len. Len(task) \in Nat
    BY TaskIndex DEF TypeOK
  <1>1. ASSUME NEW b \in Bundle, Publish(b) PROVE PoolInv'
    <2>1. /\ IsNotification(b, last[b])
          /\ publisher[b] \in {"idle", "prepared"} => Covered(b, Len(task) + 1, None)
          /\ publisher[b] \in {"publishing", "ended"} => Covered(b, Len(task) + 1, last[b])
          /\ last[b] \in Nat
      BY <1>len DEF PoolInv, FuturesInv, TypeOK, PoolTypes
    <2>2. publisher[b] # "reporting" => \A r \in Tasks \ done : task[r].kind = "report" => task[r].bundle # b
      BY DEF PoolInv, ReportInv
    <2>3. publisher[b] \in {"idle", "prepared"} => Covered(b, Len(task) + 1, last[b])
      BY <2>1, TaskIndex DEF Covered, TypeOK, None
    <2>4. CASE Prepare(b)
      BY <2>1, <2>2, <2>4, PublisherKeeps DEF Prepare, poolVars
    <2>5. CASE Begin(b)
      BY <2>1, <2>3, <2>5, SubmitKeeps DEF Begin, Notify, Kind, Chained, TypeOK, PoolTypes
    <2>6. CASE Alert(b)
      BY <2>1, <2>6, SubmitKeeps DEF Alert, Kind, Chained, None
    <2>7. CASE End(b)
      BY <2>1, <2>7, SubmitKeeps DEF End, Notify, Kind, Chained, TypeOK, PoolTypes
    <2>8. CASE Raise(b)
      BY <2>1, <2>2, <2>8, PublisherKeeps DEF Raise
    <2>9. CASE Report(b)
      BY <2>1, <2>9, SubmitKeeps DEF Report, Kind, Chained, None, TypeOK, PoolTypes
    <2>10. CASE MayRepublish(b)
      <3>1. \A t \in Tasks : task[t].bundle = b => t \in done
        BY <2>10 DEF MayRepublish, Tasks
      <3>2. Covered(b, Len(task) + 1, None)
        BY <3>1 DEF Covered
      <3>3. QED
        BY <2>10, <3>1, <3>2, PublisherKeeps DEF MayRepublish
    <2>11. QED
      BY <1>1, <2>4, <2>5, <2>6, <2>7, <2>8, <2>9, <2>10 DEF Publish
  <1>2. ASSUME NEW w \in Worker, Work(w) PROVE PoolInv'
    <2> DEFINE u == worker[w].task
               b == BundleOf(w)
    <2>b. ASSUME worker[w] # Idle
          PROVE  /\ worker[w] \in Busy /\ u \in Tasks /\ task[u] \in Task
                 /\ b \in Bundle /\ b = task[u].bundle /\ u \notin done
      BY <2>b, BusyWorker DEF TypeOK, BundleOf, Task, PoolInv, StepInv
    <2>not. ASSUME NEW c, NEW m, IsNotification(c, m), task' = task
            PROVE  IsNotificationAfter(c, m)
      BY <2>not DEF IsNotification, IsNotificationAfter, Tasks
    <2>cov. ASSUME NEW c, NEW t, NEW m, Covered(c, t, m), task' = task, done' = done
            PROVE  CoveredAfter(c, t, m)
      BY <2>cov DEF Covered, CoveredAfter, Tasks
    <2>1. CASE Take(w)
      BY <2>1, TakeKeeps
    <2>2. CASE Wait(w)
      <3>1. /\ worker[w] # Idle /\ worker[w].step = "wait" /\ Complete(worker[w].on)
            /\ UNCHANGED <<task, taken, done, publisher>> /\ last' = last /\ opening' = opening
            /\ \A v \in Worker \ {w} : worker'[v] = worker[v]
        BY <2>2 DEF Wait, At, TypeOK, PoolTypes
      <3>2. worker'[w].task = u /\ worker'[w].step = "send" /\ worker'[w] # Idle
        BY <2>2, <2>b, <3>1 DEF Wait, TypeOK, PoolTypes, Busy, Idle
      <3>3. task[u].kind \in Chained /\ worker[w].on = task[u].after
        BY <3>1 DEF PoolInv, StepInv
      <3>4. IsNotification(b, task[u].after) /\ Covered(b, u, task[u].after)
        BY <2>b, <3>1, <3>3 DEF PoolInv, ChainInv
      <3>5. Covered(b, u, None)
        BY <1>len, <2>b, <3>1, <3>3, <3>4, Uncover DEF PoolInv
      <3>6. StepAfter(w)
        BY <2>b, <2>cov, <3>1, <3>2, <3>5 DEF StepAfter
      <3>7. /\ worker[w].step \in {"settle", "send"} => worker'[w].step \in {"settle", "send"}
            /\ \A c \in Bundle : opening'[c] \in {opening[c], None}
            /\ \/ last' = last
               \/ /\ task[worker[w].task].kind = "report"
                  /\ worker'[w].step \in {"settle", "send"}
                  /\ last' = [last EXCEPT ![BundleOf(w)] = None]
        BY <3>1, <3>2
      <3>8. QED
        BY <3>1, <3>2, <3>6, <3>7, MoveKeeps
    <2>3. CASE Poll(w)
      <3>1. /\ worker[w] # Idle /\ worker[w].step = "poll"
            /\ UNCHANGED <<task, taken, done, publisher>> /\ last' = last /\ opening' = opening
            /\ \A v \in Worker \ {w} : worker'[v] = worker[v]
        BY <2>3 DEF Poll, At, TypeOK, PoolTypes
      <3>2. worker'[w].task = u /\ worker'[w].step = "reply" /\ worker'[w].on = opening[b] /\ worker'[w] # Idle
        BY <2>3, <2>b, <3>1 DEF Poll, TypeOK, PoolTypes, Busy, Idle
      <3>3. task[u].kind = "report" /\ IsNotification(b, opening[b])
        BY <2>b, <3>1 DEF PoolInv, StepInv, FuturesInv
      <3>4. StepAfter(w)
        BY <2>b, <2>not, <3>1, <3>2, <3>3 DEF StepAfter
      <3>5. /\ worker[w].step \in {"settle", "send"} => worker'[w].step \in {"settle", "send"}
            /\ \A c \in Bundle : opening'[c] \in {opening[c], None}
            /\ \/ last' = last
               \/ /\ task[worker[w].task].kind = "report"
                  /\ worker'[w].step \in {"settle", "send"}
                  /\ last' = [last EXCEPT ![BundleOf(w)] = None]
        BY <3>1, <3>2
      <3>6. QED
        BY <3>1, <3>2, <3>4, <3>5, MoveKeeps
    <2>4. CASE Reply(w)
      <3>1. /\ worker[w] # Idle /\ worker[w].step = "reply"
            /\ UNCHANGED <<task, taken, done, publisher, opening>>
            /\ last' = [last EXCEPT ![b] = None]
            /\ \A v \in Worker \ {w} : worker'[v] = worker[v]
        BY <2>4 DEF Reply, At, TypeOK, PoolTypes
      <3>2. worker'[w].task = u /\ worker'[w].step = "settle" /\ worker'[w].on = last[b] /\ worker'[w] # Idle
        BY <2>4, <2>b, <3>1 DEF Reply, TypeOK, PoolTypes, Busy, Idle
      <3>3. task[u].kind = "report" /\ IsNotification(b, last[b])
        BY <2>b, <3>1 DEF PoolInv, StepInv, FuturesInv
      <3>4. ~Settling(u)
        <4>1. SUFFICES ASSUME NEW v \in Worker, worker[v].task = u, worker[v].step \in {"settle", "send"}
                       PROVE  FALSE
          BY DEF Settling
        <4>2. worker[v] # Idle
          BY <2>b, <3>1, <4>1, TaskIndex DEF Idle, TypeOK, None
        <4>3. v = w
          BY <3>1, <4>1, <4>2 DEF PoolInv, WorkerInv
        <4>4. QED
          BY <3>1, <4>1, <4>3
      <3>5. Covered(b, u, last[b])
        BY <2>b, <3>1, <3>3, <3>4 DEF PoolInv, ReportInv
      <3>6. StepAfter(w)
        BY <2>b, <2>cov, <2>not, <3>1, <3>2, <3>3, <3>5 DEF StepAfter
      <3>7. QED
        BY <3>1, <3>2, <3>3, <3>6, MoveKeeps
    <2>5. CASE Settle(w)
      <3>1. /\ worker[w] # Idle /\ worker[w].step = "settle" /\ Complete(worker[w].on)
            /\ UNCHANGED <<task, taken, done, publisher>> /\ last' = last
            /\ opening' = [opening EXCEPT ![b] = None]
            /\ \A v \in Worker \ {w} : worker'[v] = worker[v]
        BY <2>5 DEF Settle, At, TypeOK, PoolTypes
      <3>2. worker'[w].task = u /\ worker'[w].step = "send" /\ worker'[w] # Idle
        BY <2>5, <2>b, <3>1 DEF Settle, TypeOK, PoolTypes, Busy, Idle
      <3>3. IsNotification(b, worker[w].on) /\ Covered(b, u, worker[w].on)
        BY <2>b, <3>1 DEF PoolInv, StepInv
      <3>4. Covered(b, u, None)
        BY <1>len, <2>b, <3>1, <3>3, Uncover DEF PoolInv
      <3>5. StepAfter(w)
        BY <2>b, <2>cov, <3>1, <3>2, <3>4 DEF StepAfter
      <3>6. /\ worker[w].step \in {"settle", "send"} => worker'[w].step \in {"settle", "send"}
            /\ \A c \in Bundle : opening'[c] \in {opening[c], None}
            /\ \/ last' = last
               \/ /\ task[worker[w].task].kind = "report"
                  /\ worker'[w].step \in {"settle", "send"}
                  /\ last' = [last EXCEPT ![BundleOf(w)] = None]
        BY <3>1, <3>2 DEF TypeOK, PoolTypes
      <3>7. QED
        BY <3>1, <3>2, <3>5, <3>6, MoveKeeps
    <2>6. CASE Send(w)
      BY <2>6, SendKeeps
    <2>7. QED
      BY <1>2, <2>1, <2>2, <2>3, <2>4, <2>5, <2>6 DEF Work
  <1>3. CASE UNCHANGED vars
    BY <1>3 DEF vars, PoolInv, ChainInv, FuturesInv, ReportInv, WorkerInv, StepInv, InOrder,
                Covered, IsNotification, Settling, Tasks
  <1>4. QED
    BY <1>1, <1>2, <1>3 DEF Next

LEMMA InitPool ==
  ASSUME Init
  PROVE  PoolInv
  <1>1. Len(task) = 0 /\ Tasks = {} /\ done = {} /\ taken = 0
    BY EmptySeq DEF Init, Tasks
  <1>2. FuturesInv
    BY <1>1 DEF Init, FuturesInv, IsNotification, Covered, None
  <1>3. WorkerInv /\ StepInv /\ ChainInv /\ ReportInv /\ InOrder
    BY <1>1 DEF Init, WorkerInv, StepInv, ChainInv, ReportInv, InOrder, Tasks
  <1>4. QED
    BY <1>2, <1>3 DEF PoolInv

LEMMA PoolKept == Spec => [](TypeOK /\ PoolInv)
  <1>1. Init => TypeOK /\ PoolInv
    BY InitTypes, InitPool
  <1>2. TypeOK /\ PoolInv /\ [Next]_vars => (TypeOK /\ PoolInv)'
    BY PoolTypesKept, SlackTypesKept, PoolInvKept DEF TypeOK
  <1>3. QED
    BY <1>1, <1>2, PTL DEF Spec

\* The notifications of a bundle go out in the order they were submitted, and
\* its report after all of them, whatever the pool's size and however many
\* bundles are published at once.
THEOREM NotificationsInOrder == Spec => []InOrder
  <1>1. TypeOK /\ PoolInv => InOrder
    BY DEF PoolInv
  <1>2. QED
    BY <1>1, PoolKept, PTL

---------------------------------------------------------------------------
(* The pool never starves                                                  *)

\* What a busy worker waits for was submitted before its own task.
LEMMA WaitsForEarlier ==
  ASSUME TypeOK, PoolInv, NEW w \in Worker, worker[w] # Idle,
         worker[w].step \in {"wait", "reply", "settle"}, worker[w].on # None
  PROVE  worker[w].on \in Tasks /\ worker[w].on < worker[w].task
  <1> DEFINE u == worker[w].task
             on == worker[w].on
  <1>1. u \in Tasks /\ task[u] \in Task /\ u \notin done /\ Len(task) \in Nat
    BY BusyWorker, TaskIndex DEF TypeOK, PoolInv, StepInv
  <1>2. CASE worker[w].step = "wait"
    BY <1>1, <1>2 DEF PoolInv, StepInv, ChainInv, IsNotification
  <1>3. CASE worker[w].step \in {"reply", "settle"}
    <2>1. task[u].kind = "report" /\ on \in Tasks /\ task[on].bundle = task[u].bundle /\ task[on].kind \in Chained
      BY <1>3 DEF PoolInv, StepInv, IsNotification
    <2>2. on <= u
      BY <1>1, <2>1 DEF PoolInv, ReportInv
    <2>3. on # u
      BY <2>1 DEF Chained
    <2>4. QED
      BY <1>1, <2>1, <2>2, <2>3, TaskIndex DEF TypeOK
  <1>4. QED
    BY <1>2, <1>3

\* The oldest unfinished task is not waiting: every one before it is done.
LEMMA OldestGoesOn ==
  ASSUME TypeOK, PoolInv, NEW m \in Tasks, m \notin done,
         \A t \in Tasks : t < m => t \in done
  PROVE  \E w \in Worker : CanGoOn(w) \/ (worker[w] = Idle /\ taken < Len(task))
  <1>1. Len(task) \in Nat /\ taken \in Nat /\ m \in Nat \ {0} /\ m <= Len(task)
    BY TaskIndex DEF TypeOK
  <1>2. CASE m <= taken
    <2>1. PICK w \in Worker : worker[w].task = m
      BY <1>1, <1>2 DEF PoolInv, WorkerInv
    <2>2. worker[w] # Idle
      BY <1>1, <2>1 DEF Idle, None
    <2>3. worker[w].step \in {"wait", "reply", "settle"} => Complete(worker[w].on)
      BY <2>1, <2>2, WaitsForEarlier DEF Complete
    <2>4. QED
      BY <2>2, <2>3 DEF CanGoOn
  <1>3. CASE m > taken
    <2>1. PICK w : w \in Worker
      BY ConstantsAssumption
    <2>2. CASE worker[w] = Idle
      BY <1>1, <1>3, <2>1, <2>2
    <2>3. CASE worker[w] # Idle
      <3>1. worker[w].task \in Tasks /\ worker[w].task <= taken /\ worker[w].task \notin done
        BY <2>1, <2>3, BusyWorker DEF TypeOK, PoolInv, StepInv
      <3>2. worker[w].task \in Nat /\ worker[w].task < m
        BY <1>1, <1>3, <3>1 DEF Tasks
      <3>3. QED
        BY <3>1, <3>2
    <2>4. QED
      BY <2>2, <2>3
  <1>4. QED
    BY <1>1, <1>2, <1>3

LEMMA PoolNotStuck ==
  ASSUME TypeOK, PoolInv
  PROVE  NeverStuck
  <1> DEFINE U == Tasks \ done
  <1>1. SUFFICES ASSUME done # 1 .. Len(task)
                 PROVE  \E w \in Worker : CanGoOn(w) \/ (worker[w] = Idle /\ taken < Len(task))
    BY DEF NeverStuck
  <1>2. U \subseteq Nat /\ U # {}
    BY <1>1, TaskIndex DEF TypeOK, Tasks
  <1> DEFINE Less == {p \in Nat \X Nat : p[1] < p[2]}
  <1>less. IsWellFoundedOn(Less, Nat)
    BY NatLessThanWellFounded DEF OpToRel
  <1> HIDE DEF U
  <1>3. PICK m \in U : \A t \in U : <<t, m>> \notin Less
    BY <1>2, <1>less, WFMin
  <1>4. \A t \in U : ~ (t < m)
    BY <1>2, <1>3
  <1> USE DEF U
  <1>5. QED
    BY <1>3, <1>4, OldestGoesOn

\* The support pool never starves, whatever its size: a worker may wait for
\* another task only if that one is older, so the oldest can always go on.
THEOREM PoolNeverStuck == Spec => []NeverStuck
  <1>1. TypeOK /\ PoolInv => NeverStuck
    BY PoolNotStuck
  <1>2. QED
    BY <1>1, PoolKept, PTL

---------------------------------------------------------------------------
(* What is told of a publication                                           *)

\* The stored message shows the outcome and has the summary in its thread.
Told(b) == message[b][ts[b]] = "finished" /\ ts[b] \in replied[b]

Sending(t) == \E w \in Worker : At(w, "send") /\ worker[w].task = t

\* The report of the publication that is over, or about to be.
IsLatest(b, r) ==
  /\ r \in Tasks /\ task[r].bundle = b /\ task[r].kind = "report"
  /\ \A s \in Tasks : task[s].bundle = b => s <= r

\* Until its report is out a publication has a message to reply to.
TellOf(b) ==
  /\ publisher[b] = "idle" => message[b] = <<>> \/ Told(b)
  /\ publisher[b] \in {"publishing", "ended"} => opening[b] # None
  /\ publisher[b] = "reporting" =>
       \E r \in Tasks :
         /\ IsLatest(b, r)
         /\ r \in done => Told(b)
         /\ r \in done \/ Sending(r) \/ opening[b] # None

\* A sender knows the stored message; the report replies to the first
\* notification's, and that one stays.
SeenOf(w) == worker[w] # Idle =>
  /\ At(w, "send") /\ task[worker[w].task].kind # "alert" => worker[w].seen = ts[BundleOf(w)]
  /\ At(w, "reply") => worker[w].on # None
  /\ At(w, "settle") \/ (At(w, "send") /\ task[worker[w].task].kind = "report")
       => ts[BundleOf(w)] # None /\ ts[BundleOf(w)] \in replied[BundleOf(w)]

\* Once a notification is out, there is a stored message.
StoredInv == \A t \in done : task[t].kind # "alert" => ts[task[t].bundle] # None

TellInv ==
  failures = 0 =>
    /\ StoredInv
    /\ \A b \in Bundle : TellOf(b)
    /\ \A w \in Worker : SeenOf(w)

LEMMA FailuresGrow ==
  ASSUME TypeOK, [Next]_vars, failures' = 0
  PROVE  failures = 0
  <1>1. failures \in Nat
    BY ConstantsAssumption DEF TypeOK, SlackTypes
  <1>2. failures' \in {failures, failures + 1}
    BY DEF Next, Publish, Work, Prepare, Begin, Alert, End, Raise, Report, MayRepublish, Take, Wait,
           Poll, Reply, Settle, Send, Deliver, slackVars, vars
  <1>3. QED
    BY <1>1, <1>2

LEMMA DoneAreTasks ==
  ASSUME TypeOK
  PROVE  done \subseteq Tasks /\ Len(task) \in Nat /\ Len(task) + 1 \notin done
  BY TaskIndex DEF TypeOK, PoolTypes, Tasks

LEMMA WorkerKnows ==
  ASSUME TypeOK, NEW w \in Worker, worker[w] # Idle
  PROVE  worker[w] \in Busy /\ worker[w].task \in Tasks /\ BundleOf(w) \in Bundle
  BY BusyWorker DEF TypeOK, BundleOf, Task

\* A step of a publication: nothing is said of the other bundles.
LEMMA QuietTell ==
  ASSUME TypeOK, NEW c \in Bundle, TellOf(c), UNCHANGED <<worker, done>>,
         ts'[c] = ts[c], message'[c] = message[c], replied'[c] = replied[c],
         publisher'[c] = publisher[c], opening'[c] = opening[c],
         Tasks \subseteq Tasks', \A t \in Tasks : task'[t] = task[t],
         \A t \in Tasks' \ Tasks : task'[t].bundle # c
  PROVE  TellOf(c)'
  <1>1. Told(c)' <=> Told(c)
    BY DEF Told
  <1>2. ASSUME NEW r \in Tasks, IsLatest(c, r)
        PROVE  r \in Tasks' /\ IsLatest(c, r)'
    BY <1>2 DEF IsLatest
  <1>3. \A r : Sending(r) => Sending(r)'
    BY DEF Sending, At
  <1>4. QED
    BY <1>1, <1>2, <1>3 DEF TellOf

LEMMA QuietSeen ==
  ASSUME TypeOK, NEW w \in Worker, SeenOf(w), worker'[w] = worker[w],
         worker[w] # Idle => /\ ts'[BundleOf(w)] = ts[BundleOf(w)]
                             /\ replied[BundleOf(w)] \subseteq replied'[BundleOf(w)],
         \A t \in Tasks : task'[t] = task[t]
  PROVE  SeenOf(w)'
  <1>1. CASE worker[w] # Idle
    <2>1. worker[w].task \in Tasks
      BY <1>1, WorkerKnows
    <2>2. task'[worker'[w].task] = task[worker[w].task] /\ BundleOf(w)' = BundleOf(w)
      BY <2>1 DEF BundleOf
    <2>3. QED
      BY <1>1, <2>2 DEF SeenOf, At
  <1>2. CASE worker[w] = Idle
    BY <1>2 DEF SeenOf
  <1>3. QED
    BY <1>1, <1>2

LEMMA QuietStored ==
  ASSUME TypeOK, StoredInv, UNCHANGED done, \A t \in Tasks : task'[t] = task[t],
         \A b \in Bundle : ts[b] # None => ts'[b] # None
  PROVE  StoredInv'
  <1>1. \A t \in done : t \in Tasks /\ task[t].bundle \in Bundle
    BY DoneAreTasks, TaskIndex DEF TypeOK, Task
  <1>2. QED
    BY <1>1 DEF StoredInv

\* What a step of the publication of b leaves to be shown.
LEMMA PublishTell ==
  ASSUME TypeOK, StoredInv, \A c \in Bundle : TellOf(c), \A w \in Worker : SeenOf(w),
         NEW b \in Bundle, UNCHANGED <<worker, done, ts, message, replied>>,
         \A c \in Bundle \ {b} : publisher'[c] = publisher[c] /\ opening'[c] = opening[c],
         Tasks \subseteq Tasks', \A t \in Tasks : task'[t] = task[t],
         \A t \in Tasks' \ Tasks : task'[t].bundle = b,
         TellOf(b)'
  PROVE  /\ StoredInv'
         /\ \A c \in Bundle : TellOf(c)'
         /\ \A w \in Worker : SeenOf(w)'
  <1>1. StoredInv'
    BY QuietStored
  <1>2. \A c \in Bundle : TellOf(c)'
    BY QuietTell
  <1>3. \A w \in Worker : SeenOf(w)'
    BY QuietSeen
  <1>4. QED
    BY <1>1, <1>2, <1>3

\* While a bundle is not being published, no notification of it is at work.
LEMMA NoneAtWork ==
  ASSUME TypeOK, PoolInv, NEW w \in Worker, worker[w] # Idle,
         publisher[BundleOf(w)] \in {"idle", "prepared"}
  PROVE  task[worker[w].task].kind = "alert" /\ worker[w].step \notin {"reply", "settle"}
  <1> DEFINE u == worker[w].task
  <1>1. u \in Tasks /\ u \notin done /\ BundleOf(w) \in Bundle /\ BundleOf(w) = task[u].bundle
    BY WorkerKnows DEF PoolInv, StepInv, BundleOf
  <1>2. Covered(BundleOf(w), Len(task) + 1, None)
    BY <1>1 DEF PoolInv, FuturesInv
  <1>3. task[u].kind = "alert"
    BY <1>1, <1>2, TaskIndex DEF Covered, Tasks, None, TypeOK
  <1>4. QED
    BY <1>3 DEF PoolInv, StepInv

LEMMA PublishTells ==
  ASSUME TypeOK, PoolInv, StoredInv, \A c \in Bundle : TellOf(c), \A w \in Worker : SeenOf(w),
         NEW b \in Bundle, Publish(b), failures' = failures
  PROVE  /\ StoredInv'
         /\ \A c \in Bundle : TellOf(c)'
         /\ \A w \in Worker : SeenOf(w)'
  <1>t. /\ TellOf(b) /\ Len(task) \in Nat
        /\ opening \in [Bundle -> 0 .. Len(task)] /\ last[b] \in Nat
        /\ publisher \in [Bundle -> {"idle", "prepared", "publishing", "ended", "reporting"}]
        /\ ts \in [Bundle -> Nat] /\ message \in [Bundle -> Seq(Text)]
    BY DoneAreTasks DEF TypeOK, PoolTypes, SlackTypes
  <1>same. UNCHANGED task => /\ Tasks \subseteq Tasks' /\ \A t \in Tasks : task'[t] = task[t]
                             /\ \A t \in Tasks' \ Tasks : task'[t].bundle = b
    BY DEF Tasks
  <1>sub. ASSUME NEW kind \in Kind, NEW after \in Nat, Submit(b, kind, after)
          PROVE  /\ Len(task') = Len(task) + 1
                 /\ Tasks \subseteq Tasks' /\ \A t \in Tasks : task'[t] = task[t]
                 /\ task'[Len(task) + 1] = [bundle |-> b, kind |-> kind, after |-> after]
                 /\ \A t \in Tasks' : t \in Tasks \/ t = Len(task) + 1
                 /\ \A t \in Tasks' \ Tasks : task'[t].bundle = b
    <2>1. /\ Len(task') = Len(task) + 1 /\ \A t \in Tasks : task'[t] = task[t]
          /\ task'[Len(task) + 1] = [bundle |-> b, kind |-> kind, after |-> after]
      BY <1>sub, SubmitAppends DEF TypeOK
    <2>2. \A t \in Tasks' : t \in Tasks \/ t = Len(task) + 1
      BY <1>t, <2>1 DEF Tasks
    <2>3. Tasks \subseteq Tasks'
      BY <1>t, <2>1 DEF Tasks
    <2>4. QED
      BY <2>1, <2>2, <2>3
  <1>1. CASE Prepare(b)
    <2>1. /\ UNCHANGED <<task, worker, done, opening, replied>> /\ publisher'[b] = "prepared"
          /\ ts' = [ts EXCEPT ![b] = Len(message[b]) + 1] /\ message' = [message EXCEPT ![b] = Append(@, "preparing")]
          /\ \A c \in Bundle \ {b} : publisher'[c] = publisher[c]
          /\ publisher[b] = "idle"
      <3>1. failures' # failures + 1
        BY ConstantsAssumption DEF TypeOK, SlackTypes
      <3>2. QED
        BY <1>1, <1>t, <3>1 DEF Prepare
    <2>2. ts'[b] # None /\ \A c \in Bundle \ {b} : ts'[c] = ts[c] /\ message'[c] = message[c]
      <3>1. Len(message[b]) \in Nat
        BY <1>t, LenProperties
      <3>2. QED
        BY <1>t, <2>1, <3>1 DEF None
    <2>3. StoredInv'
      BY <1>same, <2>1, <2>2, QuietStored
    <2>4. \A c \in Bundle : TellOf(c)'
      <3>1. TellOf(b)'
        BY <2>1 DEF TellOf
      <3>2. ASSUME NEW c \in Bundle \ {b} PROVE TellOf(c)'
        BY <1>same, <2>1, <2>2, QuietTell
      <3>3. QED
        BY <3>1, <3>2
    <2>5. ASSUME NEW w \in Worker PROVE SeenOf(w)'
      <3>1. CASE worker[w] # Idle /\ BundleOf(w) = b
        <4>1. task[worker[w].task].kind = "alert" /\ worker[w].step \notin {"reply", "settle"}
          BY <2>1, <3>1, NoneAtWork
        <4>2. QED
          BY <2>1, <4>1 DEF SeenOf, At
      <3>2. CASE worker[w] # Idle /\ BundleOf(w) # b
        BY <1>same, <2>1, <2>2, <3>2, WorkerKnows, QuietSeen
      <3>3. CASE worker[w] = Idle
        BY <2>1, <3>3 DEF SeenOf
      <3>4. QED
        BY <3>1, <3>2, <3>3
    <2>6. QED
      BY <2>3, <2>4, <2>5
  <1>2. CASE Begin(b)
    <2>1. TellOf(b)'
      BY <1>2, <1>t DEF Begin, TellOf, None
    <2>2. Submit(b, "started", last[b]) /\ "started" \in Kind
      BY <1>2 DEF Begin, Notify, Kind, Chained
    <2>3. QED
      BY <1>2, <1>t, <1>sub, <2>1, <2>2, PublishTell DEF Begin
  <1>3. CASE Alert(b)
    <2>1. TellOf(b)'
      BY <1>3, <1>t DEF Alert, TellOf
    <2>2. Submit(b, "alert", None) /\ "alert" \in Kind /\ None \in Nat
      BY <1>3 DEF Alert, Kind, None
    <2>3. QED
      BY <1>3, <1>sub, <2>1, <2>2, PublishTell DEF Alert
  <1>4. CASE End(b)
    <2>1. TellOf(b)'
      BY <1>4, <1>t DEF End, TellOf
    <2>2. Submit(b, "ended", last[b]) /\ "ended" \in Kind
      BY <1>4 DEF End, Notify, Kind, Chained
    <2>3. QED
      BY <1>4, <1>t, <1>sub, <2>1, <2>2, PublishTell DEF End
  <1>5. CASE Raise(b)
    <2>1. TellOf(b)'
      BY <1>5, <1>t DEF Raise, TellOf, poolVars
    <2>2. QED
      BY <1>5, <1>t, <1>same, <2>1, PublishTell DEF Raise, poolVars, slackVars
  <1>6. CASE Report(b)
    <2>r. PICK r : r = Len(task) + 1
      OBVIOUS
    <2>1. Submit(b, "report", None) /\ "report" \in Kind /\ None \in Nat
      BY <1>6 DEF Report, Kind, None
    <2>2. /\ Len(task') = r /\ task'[r] = [bundle |-> b, kind |-> "report", after |-> None]
          /\ \A t \in Tasks' : t \in Tasks \/ t = r
      BY <1>sub, <2>r, <2>1
    <2>3. r \in Tasks' /\ \A s \in Tasks' : s <= r
      BY <1>t, <2>r, <2>2 DEF Tasks
    <2>4. IsLatest(b, r)'
      BY <2>2, <2>3 DEF IsLatest
    <2>5. r \notin done' /\ opening'[b] # None /\ publisher'[b] = "reporting"
      BY <1>6, <1>t, <2>r, DoneAreTasks DEF Report, TellOf
    <2>6. TellOf(b)'
      BY <2>3, <2>4, <2>5 DEF TellOf
    <2>7. QED
      BY <1>6, <1>t, <1>sub, <2>1, <2>6, PublishTell DEF Report
  <1>7. CASE MayRepublish(b)
    <2>1. PICK r \in Tasks : task[r].bundle = b /\ (r \in done => Told(b))
      BY <1>7, <1>t DEF MayRepublish, TellOf, IsLatest
    <2>2. Told(b)
      BY <1>7, <2>1 DEF MayRepublish, Tasks
    <2>3. TellOf(b)'
      BY <1>7, <1>t, <2>2 DEF MayRepublish, TellOf, Told, slackVars
    <2>4. QED
      BY <1>7, <1>t, <1>same, <2>3, PublishTell DEF MayRepublish, poolVars, slackVars
  <1>8. QED
    BY <1>1, <1>2, <1>3, <1>4, <1>5, <1>6, <1>7 DEF Publish

\* A step of a worker that sends nothing.
LEMMA WorkTell ==
  ASSUME TypeOK, NEW c \in Bundle, TellOf(c), UNCHANGED <<task, publisher, done, ts, message>>,
         replied[c] \subseteq replied'[c],
         \A t : Sending(t) => Sending(t)',
         \/ opening'[c] = opening[c]
         \/ publisher[c] = "reporting" /\ \A r \in Tasks \ done : IsLatest(c, r) => Sending(r)'
  PROVE  TellOf(c)'
  <1>1. Told(c) => Told(c)'
    BY DEF Told
  <1>2. \A r : IsLatest(c, r) => IsLatest(c, r)'
    BY DEF IsLatest, Tasks
  <1>3. publisher'[c] = "reporting" =>
          \E r \in Tasks : IsLatest(c, r)' /\ (r \in done' => Told(c)') /\ (r \in done' \/ Sending(r)' \/ opening'[c] # None)
    <2>1. SUFFICES ASSUME publisher[c] = "reporting"
                   PROVE  \E r \in Tasks : IsLatest(c, r)' /\ (r \in done' => Told(c)')
                                           /\ (r \in done' \/ Sending(r)' \/ opening'[c] # None)
      OBVIOUS
    <2>2. PICK r \in Tasks : IsLatest(c, r) /\ (r \in done => Told(c)) /\ (r \in done \/ Sending(r) \/ opening[c] # None)
      BY <2>1 DEF TellOf
    <2>3. QED
      BY <1>1, <1>2, <2>2
  <1>4. publisher'[c] \in {"publishing", "ended"} => opening'[c] # None
    BY DEF TellOf
  <1>5. QED
    BY <1>1, <1>3, <1>4 DEF TellOf, Tasks

\* The report a worker has is the last thing submitted for its bundle.
LEMMA TheReport ==
  ASSUME TypeOK, PoolInv, NEW w \in Worker, worker[w] # Idle, task[worker[w].task].kind = "report"
  PROVE  /\ publisher[BundleOf(w)] = "reporting"
         /\ worker[w].task \in Tasks \ done
         /\ IsLatest(BundleOf(w), worker[w].task)
         /\ \A r : IsLatest(BundleOf(w), r) => r = worker[w].task
         /\ \A v \in Worker : worker[v].task = worker[w].task => v = w
  <1> DEFINE u == worker[w].task
  <1>1. u \in Tasks \ done /\ BundleOf(w) = task[u].bundle /\ \A r \in Tasks : r \in Nat \ {0}
    BY WorkerKnows, TaskIndex DEF PoolInv, StepInv, BundleOf, TypeOK
  <1>2. publisher[BundleOf(w)] = "reporting" /\ \A s \in Tasks : task[s].bundle = BundleOf(w) => s <= u
    BY <1>1 DEF PoolInv, ReportInv
  <1>3. IsLatest(BundleOf(w), u)
    BY <1>1, <1>2 DEF IsLatest
  <1>4. \A r : IsLatest(BundleOf(w), r) => r = u
    BY <1>1, <1>2 DEF IsLatest
  <1>5. ASSUME NEW v \in Worker, worker[v].task = u
        PROVE  v = w
    <2>1. worker[v] # Idle
      BY <1>1, <1>5 DEF Idle, None
    <2>2. QED
      BY <1>5, <2>1 DEF PoolInv, WorkerInv
  <1>6. QED
    BY <1>1, <1>2, <1>3, <1>4, <1>5

\* No two messages of a bundle are on their way at once.
LEMMA SendsAlone ==
  ASSUME TypeOK, PoolInv, NEW w \in Worker, At(w, "send"), task[worker[w].task].kind # "alert",
         NEW v \in Worker, v # w, At(v, "send"), BundleOf(v) = BundleOf(w)
  PROVE  task[worker[v].task].kind = "alert"
  <1> DEFINE t == worker[v].task
             u == worker[w].task
  <1>1. SUFFICES ASSUME task[t].kind # "alert" PROVE FALSE
    OBVIOUS
  <1>2. /\ u \in Tasks \ done /\ worker[w] # Idle /\ worker[v] # Idle
        /\ t \in Tasks \ done /\ task[t].bundle = task[u].bundle
        /\ \A r \in Tasks : r \in Nat \ {0}
    BY WorkerKnows, TaskIndex DEF PoolInv, StepInv, BundleOf, TypeOK, At
  <1>3. Covered(task[u].bundle, u, None) /\ Covered(task[u].bundle, t, None)
    BY <1>1, <1>2 DEF PoolInv, StepInv, At
  <1>4. t # u
    BY <1>2 DEF PoolInv, WorkerInv
  <1>5. u < t \/ t < u
    BY <1>2, <1>4
  <1>6. QED
    BY <1>1, <1>2, <1>3, <1>5 DEF Covered, None

\* A message of task u goes out: what stays true of a bundle whose report is another.
LEMMA OutTell ==
  ASSUME TypeOK, NEW w \in Worker, NEW u, u = worker[w].task, NEW c \in Bundle, TellOf(c),
         UNCHANGED <<task, publisher, opening, replied>>, done' = done \cup {u},
         \A v \in Worker : v # w => worker'[v] = worker[v],
         \A r : IsLatest(c, r) => r # u,
         \/ ts'[c] = ts[c] /\ message'[c] = message[c]
         \/ publisher[c] # "idle" /\ \A r : IsLatest(c, r) => r \notin done
  PROVE  TellOf(c)'
  <1>1. ts'[c] = ts[c] /\ message'[c] = message[c] => (Told(c)' <=> Told(c))
    BY DEF Told
  <1>2. \A r : IsLatest(c, r) => IsLatest(c, r)'
    BY DEF IsLatest, Tasks
  <1>3. ASSUME NEW r, Sending(r), r # u
        PROVE  Sending(r)'
    BY <1>3 DEF Sending, At
  <1>4. publisher[c] = "reporting" =>
          \E r \in Tasks : IsLatest(c, r)' /\ (r \in done' => Told(c)') /\ (r \in done' \/ Sending(r)' \/ opening'[c] # None)
    <2>1. SUFFICES ASSUME publisher[c] = "reporting"
                   PROVE  \E r \in Tasks : IsLatest(c, r)' /\ (r \in done' => Told(c)')
                                           /\ (r \in done' \/ Sending(r)' \/ opening'[c] # None)
      OBVIOUS
    <2>2. PICK r \in Tasks : IsLatest(c, r) /\ (r \in done => Told(c)) /\ (r \in done \/ Sending(r) \/ opening[c] # None)
      BY <2>1 DEF TellOf
    <2>3. r # u
      BY <2>2
    <2>4. QED
      BY <1>1, <1>2, <1>3, <2>2, <2>3
  <1>5. publisher[c] = "idle" => message'[c] = <<>> \/ Told(c)'
    BY <1>1 DEF TellOf
  <1>6. QED
    BY <1>4, <1>5 DEF TellOf, Tasks

LEMMA SendTells ==
  ASSUME TypeOK, PoolInv, StoredInv, \A c \in Bundle : TellOf(c), \A v \in Worker : SeenOf(v),
         NEW w \in Worker, Send(w), failures' = failures
  PROVE  /\ StoredInv'
         /\ \A c \in Bundle : TellOf(c)'
         /\ \A v \in Worker : SeenOf(v)'
  <1> DEFINE u == worker[w].task
             b == BundleOf(w)
             kind == task[u].kind
  <1>t. /\ worker \in [Worker -> Busy \cup {Idle}]
        /\ ts \in [Bundle -> Nat] /\ message \in [Bundle -> Seq(Text)]
        /\ \A c \in Bundle : ts[c] \in Nat /\ ts[c] <= Len(message[c]) /\ Len(message[c]) \in Nat
    BY LenProperties DEF TypeOK, PoolTypes, SlackTypes
  <1>s. /\ worker[w] # Idle /\ At(w, "send") /\ UNCHANGED <<task, publisher, opening, replied>>
        /\ done' = done \cup {u} /\ worker'[w] = Idle
        /\ \A v \in Worker : v # w => worker'[v] = worker[v]
    BY <1>t DEF Send, At
  <1>u. u \in Tasks \ done /\ b \in Bundle /\ b = task[u].bundle /\ task[u] \in Task
    BY <1>s, WorkerKnows, TaskIndex DEF PoolInv, StepInv, BundleOf, TypeOK
  <1>own. SeenOf(w)'
    BY <1>s DEF SeenOf
  <1>quiet. ASSUME NEW v \in Worker, v # w, worker[v] = Idle \/ ts'[BundleOf(v)] = ts[BundleOf(v)]
            PROVE  SeenOf(v)'
    BY <1>s, <1>quiet, QuietSeen
  <1>d. \A t \in done' : t \in done \/ t = u
    BY <1>s
  <1>1. CASE kind = "alert"
    <2>1. UNCHANGED <<ts, message>>
      BY <1>1 DEF Send
    <2>2. StoredInv'
      BY <1>1, <1>d, <1>s, <2>1 DEF StoredInv
    <2>3. ASSUME NEW c \in Bundle PROVE TellOf(c)'
      <3>1. \A r : IsLatest(c, r) => r # u
        BY <1>1 DEF IsLatest
      <3>2. QED
        BY <1>s, <2>1, <3>1, OutTell
    <2>4. QED
      BY <1>own, <1>quiet, <2>1, <2>2, <2>3
  <1>2. CASE kind # "alert"
    <2>1. worker[w].seen = ts[b]
      BY <1>2, <1>s DEF SeenOf
    <2>2. Deliver(b, SentText(kind), ts[b])
      BY <1>2, <1>u, <2>1 DEF Send
    <2>3. failures' # failures + 1
      BY ConstantsAssumption DEF TypeOK, SlackTypes
    <2>4. /\ ts[b] # None => message' = [message EXCEPT ![b][ts[b]] = SentText(kind)] /\ ts' = ts
          /\ ts[b] = None => /\ message' = [message EXCEPT ![b] = Append(@, SentText(kind))]
                             /\ ts' = [ts EXCEPT ![b] = Len(message[b]) + 1]
      BY <1>u, <2>2, <2>3 DEF Deliver, Posted
    <2>5. /\ ts'[b] # None
          /\ \A c \in Bundle \ {b} : ts'[c] = ts[c] /\ message'[c] = message[c]
          /\ ts[b] # None => ts' = ts
      BY <1>t, <1>u, <2>4 DEF None
    <2>6. StoredInv'
      <3>1. \A t \in done : task[t].bundle \in Bundle
        BY TaskIndex DEF TypeOK, Task
      <3>2. QED
        BY <1>d, <1>s, <1>u, <2>5, <3>1 DEF StoredInv
    <2>7. ASSUME NEW v \in Worker PROVE SeenOf(v)'
      <3>1. CASE v = w
        BY <1>own, <3>1
      <3>2. CASE v # w /\ worker[v] # Idle /\ BundleOf(v) = b /\ ts[b] = None
        <4>1. At(v, "send") => task[worker[v].task].kind = "alert"
          BY <1>2, <1>s, <3>2, SendsAlone
        <4>2. ~At(v, "settle")
          BY <3>2 DEF SeenOf
        <4>3. worker'[v] = worker[v] /\ (At(v, "reply") => worker[v].on # None)
          BY <1>s, <3>2 DEF SeenOf
        <4>4. QED
          BY <1>s, <4>1, <4>2, <4>3 DEF SeenOf, At
      <3>3. CASE v # w /\ ~(worker[v] # Idle /\ BundleOf(v) = b /\ ts[b] = None)
        <4>1. worker[v] = Idle \/ ts'[BundleOf(v)] = ts[BundleOf(v)]
          BY <2>5, <3>3, WorkerKnows
        <4>2. QED
          BY <1>quiet, <3>3, <4>1
      <3>4. QED
        BY <3>1, <3>2, <3>3
    <2>8. ASSUME NEW c \in Bundle \ {b} PROVE TellOf(c)'
      <3>1. \A r : IsLatest(c, r) => r # u
        BY <1>u DEF IsLatest
      <3>2. QED
        BY <1>s, <2>5, <3>1, OutTell
    <2>9. CASE kind = "report"
      <3>1. ts[b] # None /\ ts[b] \in replied[b]
        BY <1>s, <2>9 DEF SeenOf
      <3>2. message' = [message EXCEPT ![b][ts[b]] = "finished"] /\ ts' = ts
        BY <2>4, <2>9, <3>1 DEF SentText
      <3>3. message'[b] = [message[b] EXCEPT ![ts[b]] = "finished"]
        BY <1>t, <1>u, <3>2
      <3>4. ts[b] \in 1 .. Len(message[b]) /\ message[b] \in Seq(Text) /\ "finished" \in Text
        BY <1>t, <1>u, <3>1 DEF None, Text
      <3>5. message'[b][ts[b]] = "finished"
        BY <3>3, <3>4, ExceptSeq
      <3>6. publisher[b] = "reporting" /\ IsLatest(b, u)
        BY <1>s, <2>9, TheReport
      <3>7. PICK x \in Bundle, r \in Tasks : x = b /\ r = u
        BY <1>u
      <3>8. Told(x)'
        BY <1>s, <3>1, <3>2, <3>5, <3>7 DEF Told
      <3>9. IsLatest(x, r)' /\ r \in done' /\ publisher'[x] = "reporting"
        BY <1>s, <3>6, <3>7 DEF IsLatest, Tasks
      <3>10. TellOf(x)'
        BY <1>s, <3>8, <3>9 DEF TellOf, Tasks
      <3>11. QED
        BY <2>6, <2>7, <2>8, <3>7, <3>10
    <2>10. CASE kind # "report"
      <3>1. publisher[b] # "idle"
        BY <1>2, <1>s, NoneAtWork
      <3>2. ASSUME NEW r, IsLatest(b, r) PROVE r # u /\ r \notin done
        <4>1. r # u /\ u <= r /\ r \in Tasks /\ task[r].bundle = b /\ task[r].kind = "report"
          BY <1>u, <2>10, <3>2 DEF IsLatest
        <4>2. u < r
          BY <1>u, <4>1, TaskIndex DEF TypeOK
        <4>3. QED
          BY <1>2, <1>u, <4>1, <4>2 DEF PoolInv, InOrder, Tasks
      <3>3. \A c \in Bundle : c = b => TellOf(c)'
        <4>1. SUFFICES ASSUME NEW c \in Bundle, c = b PROVE TellOf(c)'
          OBVIOUS
        <4>2. publisher[c] # "idle" /\ \A r : IsLatest(c, r) => r # u /\ r \notin done
          BY <3>1, <3>2, <4>1
        <4>3. QED
          BY <1>s, <4>2, OutTell
      <3>4. QED
        BY <2>6, <2>7, <2>8, <3>3
    <2>11. QED
      BY <2>9, <2>10
  <1>3. QED
    BY <1>1, <1>2

LEMMA WorkTells ==
  ASSUME TypeOK, PoolInv, StoredInv, \A c \in Bundle : TellOf(c), \A v \in Worker : SeenOf(v),
         NEW w \in Worker, Work(w), failures' = failures
  PROVE  /\ StoredInv'
         /\ \A c \in Bundle : TellOf(c)'
         /\ \A v \in Worker : SeenOf(v)'
  <1> DEFINE u == worker[w].task
             b == BundleOf(w)
  <1>t. /\ worker \in [Worker -> Busy \cup {Idle}]
        /\ opening \in [Bundle -> 0 .. Len(task)] /\ replied \in [Bundle -> SUBSET Nat]
        /\ \A c \in Bundle : ts[c] \in Nat
    BY DEF TypeOK, PoolTypes, SlackTypes
  <1>u. worker[w] # Idle => u \in Tasks \ done /\ b \in Bundle /\ b = task[u].bundle /\ worker[w] \in Busy
    BY WorkerKnows DEF PoolInv, StepInv, BundleOf
  \* What remains to be shown of the steps that send nothing.
  <1>rest. ASSUME UNCHANGED <<task, publisher, done, ts, message>>, ~At(w, "send"),
                  \A c \in Bundle : replied[c] \subseteq replied'[c],
                  \A v \in Worker : v # w => worker'[v] = worker[v],
                  \A c \in Bundle : \/ opening'[c] = opening[c]
                                    \/ /\ publisher[c] = "reporting"
                                       /\ \A r \in Tasks \ done : IsLatest(c, r) => Sending(r)',
                  SeenOf(w)'
           PROVE  /\ StoredInv'
                  /\ \A c \in Bundle : TellOf(c)'
                  /\ \A v \in Worker : SeenOf(v)'
    <2>1. StoredInv'
      BY <1>rest, QuietStored
    <2>2. \A r : Sending(r) => Sending(r)'
      BY <1>rest DEF Sending, At
    <2>3. \A c \in Bundle : TellOf(c)'
      BY <1>rest, <2>2, WorkTell
    <2>4. \A v \in Worker : v # w => SeenOf(v)'
      BY <1>rest, WorkerKnows, QuietSeen
    <2>5. QED
      BY <1>rest, <2>1, <2>3, <2>4
  <1>1. CASE Take(w)
    <2>1. /\ worker[w] = Idle /\ UNCHANGED <<task, publisher, done, ts, message, replied, opening>>
          /\ \A v \in Worker : v # w => worker'[v] = worker[v]
          /\ worker'[w] = [task |-> taken + 1, step |-> FirstStep(task[taken + 1].kind),
                           on |-> task[taken + 1].after, seen |-> None]
      BY <1>1, <1>t DEF Take, slackVars
    <2>2. task[taken + 1] \in Task
      BY <1>1, TaskIndex DEF Take, TypeOK, Tasks
    <2>3. worker'[w].step \in {"wait", "poll", "send"} /\ (worker'[w].step = "send" => task[taken + 1].kind = "alert")
      BY <2>1, <2>2 DEF FirstStep, Task, Kind, Chained
    <2>4. SeenOf(w)'
      BY <2>1, <2>3 DEF SeenOf, At
    <2>5. QED
      BY <1>rest, <2>1, <2>4 DEF At
  <1>2. CASE Wait(w)
    <2>1. /\ worker[w] # Idle /\ worker[w].step = "wait"
          /\ UNCHANGED <<task, publisher, done, ts, message, replied, opening>>
          /\ \A v \in Worker : v # w => worker'[v] = worker[v]
      BY <1>2, <1>t DEF Wait, At, slackVars
    <2>2. worker'[w].task = u /\ worker'[w].step = "send" /\ worker'[w].seen = ts[b]
      BY <1>2, <1>t, <1>u, <2>1 DEF Wait, Busy
    <2>3. task[u].kind \in Chained
      BY <2>1 DEF PoolInv, StepInv
    <2>4. SeenOf(w)'
      BY <2>1, <2>2, <2>3 DEF SeenOf, At, BundleOf, Chained
    <2>5. QED
      BY <1>rest, <2>1, <2>4 DEF At
  <1>3. CASE Poll(w)
    <2>1. /\ worker[w] # Idle /\ worker[w].step = "poll"
          /\ UNCHANGED <<task, publisher, done, ts, message, replied, opening>>
          /\ \A v \in Worker : v # w => worker'[v] = worker[v]
      BY <1>3, <1>t DEF Poll, At, slackVars
    <2>2. worker'[w].task = u /\ worker'[w].step = "reply" /\ worker'[w].on = opening[b]
      BY <1>3, <1>t, <1>u, <2>1 DEF Poll, Busy
    <2>3. task[u].kind = "report"
      BY <2>1 DEF PoolInv, StepInv
    <2>4. opening[b] # None
      <3>1. publisher[b] = "reporting" /\ u \notin done /\ (\A r : IsLatest(b, r) => r = u)
            /\ \A v \in Worker : worker[v].task = u => v = w
        BY <2>1, <2>3, TheReport
      <3>2. ~Sending(u)
        BY <2>1, <3>1 DEF Sending, At
      <3>3. QED
        BY <1>u, <2>1, <3>1, <3>2 DEF TellOf
    <2>5. SeenOf(w)'
      BY <2>2, <2>4 DEF SeenOf, At
    <2>6. QED
      BY <1>rest, <2>1, <2>5 DEF At
  <1>4. CASE Reply(w)
    <2>1. /\ worker[w] # Idle /\ worker[w].step = "reply" /\ At(w, "reply") /\ Complete(worker[w].on)
          /\ UNCHANGED <<task, publisher, done, ts, message, opening>>
          /\ \A v \in Worker : v # w => worker'[v] = worker[v]
      BY <1>4, <1>t DEF Reply, At
    <2>2. worker'[w].task = u /\ worker'[w].step = "settle"
      BY <1>4, <1>t, <1>u, <2>1 DEF Reply, Busy
    <2>3. worker[w].on \in done /\ IsNotification(b, worker[w].on)
      <3>1. worker[w].on # None
        BY <2>1 DEF SeenOf
      <3>2. QED
        BY <1>u, <2>1, <3>1 DEF Complete, PoolInv, StepInv
    <2>4. ts[b] # None
      <3>1. task[worker[w].on].bundle = b /\ task[worker[w].on].kind # "alert"
        BY <2>1, <2>3 DEF IsNotification, Chained, SeenOf
      <3>2. QED
        BY <2>3, <3>1 DEF StoredInv
    <2>5. replied' = [replied EXCEPT ![b] = @ \cup {ts[b]}]
      <3>1. failures' # failures + 1
        BY ConstantsAssumption DEF TypeOK, SlackTypes
      <3>2. QED
        BY <1>4, <2>4, <3>1 DEF Reply
    <2>6. ts[b] \in replied'[b] /\ \A c \in Bundle : replied[c] \subseteq replied'[c]
      BY <1>t, <1>u, <2>1, <2>5
    <2>7. SeenOf(w)'
      BY <2>1, <2>2, <2>4, <2>6 DEF SeenOf, At, BundleOf
    <2>8. QED
      BY <1>rest, <2>1, <2>6, <2>7 DEF At
  <1>5. CASE Settle(w)
    <2>1. /\ worker[w] # Idle /\ worker[w].step = "settle" /\ At(w, "settle")
          /\ UNCHANGED <<task, publisher, done, ts, message, replied>>
          /\ opening' = [opening EXCEPT ![b] = None]
          /\ \A v \in Worker : v # w => worker'[v] = worker[v]
      BY <1>5, <1>t DEF Settle, At, slackVars
    <2>2. worker'[w].task = u /\ worker'[w].step = "send" /\ worker'[w].seen = ts[b] /\ worker'[w] # Idle
      BY <1>5, <1>t, <1>u, <2>1 DEF Settle, Busy, Idle, None
    <2>3. task[u].kind = "report"
      BY <2>1 DEF PoolInv, StepInv
    <2>4. ts[b] # None /\ ts[b] \in replied[b]
      BY <2>1 DEF SeenOf
    <2>5. SeenOf(w)'
      BY <2>1, <2>2, <2>4 DEF SeenOf, At, BundleOf
    <2>6. publisher[b] = "reporting" /\ \A r \in Tasks \ done : IsLatest(b, r) => Sending(r)'
      <3>1. publisher[b] = "reporting" /\ \A r : IsLatest(b, r) => r = u
        BY <2>1, <2>3, TheReport
      <3>2. \A r : r = u => Sending(r)'
        BY <2>2 DEF Sending, At
      <3>3. QED
        BY <3>1, <3>2
    <2>7. \A c \in Bundle : \/ opening'[c] = opening[c]
                            \/ /\ publisher[c] = "reporting"
                               /\ \A r \in Tasks \ done : IsLatest(c, r) => Sending(r)'
      BY <1>t, <2>1, <2>6
    <2>8. QED
      BY <1>rest, <2>1, <2>5, <2>7 DEF At
  <1>6. CASE Send(w)
    BY <1>6, SendTells
  <1>7. QED
    BY <1>1, <1>2, <1>3, <1>4, <1>5, <1>6 DEF Work

LEMMA TellKept ==
  ASSUME TypeOK, PoolInv, TellInv, [Next]_vars
  PROVE  TellInv'
  <1>1. SUFFICES ASSUME failures' = 0
                 PROVE  /\ StoredInv'
                        /\ \A c \in Bundle : TellOf(c)'
                        /\ \A v \in Worker : SeenOf(v)'
    BY DEF TellInv
  <1>2. failures = 0
    BY <1>1, FailuresGrow
  <1>3. StoredInv /\ (\A c \in Bundle : TellOf(c)) /\ (\A v \in Worker : SeenOf(v)) /\ failures' = failures
    BY <1>1, <1>2 DEF TellInv
  <1>4. CASE UNCHANGED vars
    BY <1>3, <1>4 DEF vars, StoredInv, TellOf, SeenOf, Told, Sending, IsLatest, Tasks, At, BundleOf
  <1>5. ASSUME NEW b \in Bundle, Publish(b)
        PROVE  /\ StoredInv'
               /\ \A c \in Bundle : TellOf(c)'
               /\ \A v \in Worker : SeenOf(v)'
    BY <1>3, <1>5, PublishTells
  <1>6. ASSUME NEW w \in Worker, Work(w)
        PROVE  /\ StoredInv'
               /\ \A c \in Bundle : TellOf(c)'
               /\ \A v \in Worker : SeenOf(v)'
    BY <1>3, <1>6, WorkTells
  <1>7. QED
    BY <1>4, <1>5, <1>6 DEF Next

\* If no call to Slack has failed, a bundle whose publication is over has a stored
\* message that shows the outcome and carries the summary of its post-publish
\* actions, whatever the pool's size, however many bundles are published at once
\* and however often: no two senders of a bundle overlap, and a report replies to a
\* message that is there and speaks last.
THEOREM PublicationsAreTold == Spec => []PublicationIsTold
  <1>1. Init => TellInv
    <2>1. ASSUME Init PROVE StoredInv /\ (\A b \in Bundle : TellOf(b)) /\ (\A w \in Worker : SeenOf(w))
      BY <2>1 DEF Init, StoredInv, TellOf, SeenOf
    <2>2. QED
      BY <2>1 DEF TellInv
  <1>2. TellInv => PublicationIsTold
    BY DEF TellInv, TellOf, Told, PublicationIsTold
  <1>3. QED
    BY <1>1, <1>2, PoolKept, TellKept, PTL DEF Spec

===========================================================================
