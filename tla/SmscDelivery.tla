---------------------------- MODULE SmscDelivery ----------------------------
(***************************************************************************)
(* Store-and-forward delivery in the SMSC (crates/cdma-smsc).              *)
(*                                                                         *)
(* A submission and its delivery attempts live in the database; everything *)
(* else (the dispatch queue, the two tasks that run a dispatch, the        *)
(* delivery stream to the MSC) is in memory and is lost in a crash.  Two   *)
(* tasks dispatch concurrently: the worker of the DispatchQueue and the    *)
(* Scheduler's sweep.  They meet only in the repository, whose two         *)
(* transactions claim_delivery and finish_delivery decide who owns an      *)
(* attempt and which outcome counts.  Each await of the code that touches  *)
(* shared state is a step of its own.                                      *)
(*                                                                         *)
(* Which rows a page of the sweep holds is left open here (any set of rows *)
(* in the listed state); SmscSweep models the pagination itself.           *)
(***************************************************************************)
EXTENDS Naturals, Sequences, FiniteSets

CONSTANTS
    Sms,                  \* submission ids
    Kinds,                \* the kinds of destination that occur (see AllKinds)
    Interconnect,         \* BOOLEAN: an interconnect egress is configured
    DispatchQueueLen,     \* DISPATCH_QUEUE
    PushQueueLen,         \* PUSH_QUEUE
    RetryAfter,           \* retry_after, in sweep intervals
    StaleAfter,           \* stale_after, in sweep intervals
    SubmitTimeout,        \* INTERCONNECT_SUBMIT_TIMEOUT, in sweep intervals
    DbErrors,             \* BOOLEAN: a repository call may fail
    MaxAttempts,          \* bound: claims of one submission
    MaxCrashes,           \* bound: restarts of the SMSC process
    MaxStreams            \* bound: delivery stream tasks alive at once

\* "imsi": addressed by IMSI or ESN; "local": a number stored with its
\* subscriber; "number": a number to resolve; "empty": a blank number;
\* "ingress": a number, arrived over the interconnect.
AllKinds == {"imsi", "local", "number", "empty", "ingress"}

ASSUME ConstantsAssumption ==
    /\ Kinds \subseteq AllKinds
    /\ "none" \notin Sms
    /\ Interconnect \in BOOLEAN
    /\ DbErrors \in BOOLEAN
    /\ DispatchQueueLen \in Nat
    /\ PushQueueLen \in Nat
    /\ RetryAfter \in Nat
    /\ StaleAfter \in Nat
    /\ SubmitTimeout \in Nat
    /\ MaxAttempts \in Nat
    /\ MaxCrashes \in Nat
    /\ MaxStreams \in Nat

VARIABLES
    state,      \* sms_submissions.state ("absent" before the row exists)
    kind,       \* how the submission is addressed, fixed when it is stored
    attempts,   \* sms_delivery_attempts.state, by attempt_number
    age,        \* sweep intervals since the latest attempt was last updated
    queue,      \* the DispatchQueue channel
    pc, job, plan, held, result,  \* the two dispatching tasks
    phase,      \* where the Scheduler's loop is
    page,       \* rows of the current page not visited yet
    slot,       \* DeliveryHub.msc: "none", "open" or "closed" (receiver gone)
    pushed,     \* commands buffered in the channel behind the slot
    tasks,      \* delivery_stream tasks reading outcomes
    wire,       \* commands taken by the stream, not answered
    outcomes,   \* outcomes on their way back
    acked,      \* history: attempts the handset acknowledged
    submits,    \* interconnect submissions the hub has not decided
    hubOwned,   \* history: attempts the hub accepted
    hubOk,      \* history: submissions for which egress.submit returned Ok
    crashes

db      == <<state, kind, attempts, age>>
task    == <<pc, job, plan, held, result>>
sweep   == <<phase, page>>
stream  == <<slot, pushed, tasks>>
msc     == <<wire, outcomes, acked>>
hub     == <<submits, hubOwned>>
vars    == <<db, queue, task, sweep, stream, msc, hub, hubOk, crashes>>

Terminal == {"delivered", "forwarded", "failed"}
SmsState == {"absent", "accepted", "paging"} \cup Terminal
AttemptState == {"paging", "failed", "forward_sent"}

Workers == {"queue", "sweep"}
Steps   == {"idle", "dispatch", "address", "claim", "push", "submit",
            "submitted", "finish"}
Plans   == {"none", "push", "forward", "fail"}

Attempt == Sms \X (1 .. MaxAttempts)

\* No comparison with a cutoff tells ages beyond this one apart.
MaxAge ==
    LET longest == IF RetryAfter > StaleAfter THEN RetryAfter ELSE StaleAfter
    IN  1 + (IF longest > SubmitTimeout THEN longest ELSE SubmitTimeout)

Latest(s) == Len(attempts[s])

-----------------------------------------------------------------------------
(* The repository *)

Completions == {"Delivered", "Forwarded", "Retry", "Failed"}

\* The (submission, attempt) states a completion leaves.
States(c) ==
    CASE c = "Delivered" -> <<"delivered", "forward_sent">>
      [] c = "Forwarded" -> <<"forwarded", "forward_sent">>
      [] c = "Retry"     -> <<"accepted", "failed">>
      [] c = "Failed"    -> <<"failed", "failed">>

CreateSubmission(s, k) ==
    /\ state[s] = "absent"
    /\ state' = [state EXCEPT ![s] = "accepted"]
    /\ kind' = [kind EXCEPT ![s] = k]
    /\ UNCHANGED <<attempts, age>>

\* The claim transaction, on a submission it finds accepted.
ClaimDelivery(s) ==
    /\ state[s] = "accepted"
    /\ Latest(s) < MaxAttempts
    /\ state' = [state EXCEPT ![s] = "paging"]
    /\ attempts' = [attempts EXCEPT ![s] = Append(@, "paging")]
    /\ age' = [age EXCEPT ![s] = 0]
    /\ UNCHANGED kind

\* Variant: an outcome is still accepted after the submission failed.
FinishesAfterFailure(s, n) ==
    /\ state[s] \in {"paging", "failed"}
    /\ n = Latest(s)
    /\ attempts[s][n] \in {"paging", "failed"}

\* finish_delivery applies an outcome only to a paging submission and only to
\* its latest attempt, still paging; anything else is a stale outcome.
Finishes(s, n) ==
    /\ state[s] = "paging"
    /\ n = Latest(s)
    /\ attempts[s][n] = "paging"

\* Variant: the outcome goes to whatever attempt is the latest.
FinishLatest(s, n, c) ==
    LET paging == state[s] = "paging"
    IN  /\ state' = [state EXCEPT ![s] = IF paging THEN States(c)[1] ELSE @]
        /\ attempts' =
             [attempts EXCEPT ![s] =
                IF paging THEN [@ EXCEPT ![Latest(s)] = States(c)[2]] ELSE @]
        /\ age' = [age EXCEPT ![s] = IF paging THEN 0 ELSE @]
        /\ UNCHANGED kind

\* Variant: a retry returns the submission and forgets the attempt row.
FinishLeavesAttempt(s, n, c) ==
    /\ state' = [state EXCEPT ![s] = IF Finishes(s, n) THEN States(c)[1] ELSE @]
    /\ attempts' =
         [attempts EXCEPT ![s] =
            IF Finishes(s, n) /\ c # "Retry" THEN [@ EXCEPT ![n] = States(c)[2]] ELSE @]
    /\ age' = [age EXCEPT ![s] = IF Finishes(s, n) THEN 0 ELSE @]
    /\ UNCHANGED kind

FinishDelivery(s, n, c) ==
    /\ state' = [state EXCEPT ![s] = IF Finishes(s, n) THEN States(c)[1] ELSE @]
    /\ attempts' =
         [attempts EXCEPT ![s] =
            IF Finishes(s, n) THEN [@ EXCEPT ![n] = States(c)[2]] ELSE @]
    /\ age' = [age EXCEPT ![s] = IF Finishes(s, n) THEN 0 ELSE @]
    /\ UNCHANGED kind

-----------------------------------------------------------------------------
(* Acceptance *)

\* submit_mo and submit_mt: store, then offer to the dispatch queue, which
\* drops what it has no room for.
Submit(s, k) ==
    /\ CreateSubmission(s, k)
    /\ queue' = IF Len(queue) < DispatchQueueLen THEN Append(queue, s) ELSE queue
    /\ UNCHANGED <<task, sweep, stream, msc, hub, hubOk, crashes>>

\* RepositoryMtSink::deliver and the gRPC creators: stored, not queued.
Store(s, k) ==
    /\ CreateSubmission(s, k)
    /\ UNCHANGED <<queue, task, sweep, stream, msc, hub, hubOk, crashes>>

-----------------------------------------------------------------------------
(* One dispatch, run by task w *)

Goto(w, step) == pc' = [pc EXCEPT ![w] = step]

Take(w, s) ==
    /\ Goto(w, "dispatch")
    /\ job' = [job EXCEPT ![w] = s]
    /\ UNCHANGED <<plan, held, result>>

Done(w) ==
    /\ Goto(w, "idle")
    /\ job' = [job EXCEPT ![w] = "none"]
    /\ plan' = [plan EXCEPT ![w] = "none"]
    /\ held' = [held EXCEPT ![w] = 0]
    /\ result' = [result EXCEPT ![w] = "none"]

ClaimWith(w, p) ==
    /\ Goto(w, "claim")
    /\ plan' = [plan EXCEPT ![w] = p]
    /\ UNCHANGED <<job, held, result>>

FinishWith(w, c) ==
    /\ Goto(w, "finish")
    /\ result' = [result EXCEPT ![w] = c]
    /\ UNCHANGED <<job, plan, held>>

Dequeue ==
    /\ pc["queue"] = "idle"
    /\ queue # <<>>
    /\ queue' = Tail(queue)
    /\ Take("queue", Head(queue))
    /\ UNCHANGED <<db, sweep, stream, msc, hub, hubOk, crashes>>

Resolutions == {"Ready", "Deferred", "Unknown", "Unavailable"}

\* Variant: where the submission came from is not looked at.
RouteBack(k, local) ==
    CASE k = "empty" -> "fail"
      [] k # "empty" /\ local -> "local"
      [] k # "empty" /\ ~local /\ Interconnect -> "forward"
      [] OTHER -> "fail"

\* route(): blank numbers first, then local subscribers, then the
\* interconnect, which never takes back what came from it.
Route(k, local) ==
    CASE k = "empty" -> "fail"
      [] k # "empty" /\ local -> "local"
      [] k \notin {"empty", "ingress"} /\ ~local /\ Interconnect -> "forward"
      [] OTHER -> "fail"

\* dispatch() up to the claim.  available is what egress.is_available() says.
Dispatch(w, r, available) ==
    /\ pc[w] = "dispatch"
    /\ LET k == kind[job[w]]
           route == Route(k, r # "Unknown")
       IN  \/ /\ k = "imsi"
              /\ ClaimWith(w, "push")
           \/ /\ k = "local"
              /\ Goto(w, "address") /\ UNCHANGED <<job, plan, held, result>>
           \/ /\ k \notin {"imsi", "local"}
              /\ \/ r = "Unavailable" /\ Done(w)
                 \/ /\ r # "Unavailable"
                    /\ \/ /\ route = "local"
                          /\ Goto(w, "address")
                          /\ UNCHANGED <<job, plan, held, result>>
                       \/ /\ route = "forward"
                          /\ IF available THEN ClaimWith(w, "forward") ELSE Done(w)
                       \/ route = "fail" /\ ClaimWith(w, "fail")
    /\ UNCHANGED <<db, queue, sweep, stream, msc, hub, hubOk, crashes>>

\* address(): the number is resolved a second time, now for its binding.
Address(w, r) ==
    /\ pc[w] = "address"
    /\ IF r = "Ready" THEN ClaimWith(w, "push") ELSE Done(w)
    /\ UNCHANGED <<db, queue, sweep, stream, msc, hub, hubOk, crashes>>

Claim(w) ==
    /\ pc[w] = "claim"
    /\ ClaimDelivery(job[w])
    /\ held' = [held EXCEPT ![w] = Latest(job[w]) + 1]
    /\ Goto(w, CASE plan[w] = "push" -> "push"
                 [] plan[w] = "forward" -> "submit"
                 [] OTHER -> "finish")
    /\ result' = [result EXCEPT ![w] = IF plan[w] = "fail" THEN "Failed" ELSE @]
    /\ UNCHANGED <<job, plan, queue, sweep, stream, msc, hub, hubOk, crashes>>

\* Another task holds the submission, or it is complete.
ClaimNone(w) ==
    /\ pc[w] = "claim"
    /\ state[job[w]] # "accepted"
    /\ Done(w)
    /\ UNCHANGED <<db, queue, sweep, stream, msc, hub, hubOk, crashes>>

\* The claim fails before its commit, or the commit's answer is lost: the
\* dispatch ends either way, and in the second case leaves the row paging.
ClaimError(w) ==
    /\ DbErrors
    /\ pc[w] = "claim"
    /\ Done(w)
    /\ ClaimDelivery(job[w]) \/ UNCHANGED db
    /\ UNCHANGED <<queue, sweep, stream, msc, hub, hubOk, crashes>>

\* Variant: the channel behind the slot is unbounded.
PushUnbounded(w) ==
    /\ pc[w] = "push"
    /\ IF slot = "open"
         THEN /\ pushed' = Append(pushed, <<job[w], held[w]>>)
              /\ Done(w)
         ELSE /\ FinishWith(w, "Retry")
              /\ UNCHANGED pushed
    /\ UNCHANGED <<db, queue, sweep, slot, tasks, msc, hub, hubOk, crashes>>

\* DeliveryHub::push, and the retry when no MSC takes the command.
Push(w) ==
    /\ pc[w] = "push"
    /\ IF slot = "open" /\ Len(pushed) < PushQueueLen
         THEN /\ pushed' = Append(pushed, <<job[w], held[w]>>)
              /\ Done(w)
         ELSE /\ FinishWith(w, "Retry")
              /\ UNCHANGED pushed
    /\ UNCHANGED <<db, queue, sweep, slot, tasks, msc, hub, hubOk, crashes>>

\* egress.submit: handed to the link, or refused by it at once.
SubmitToHub(w) ==
    /\ pc[w] = "submit"
    /\ \/ /\ submits' = submits \cup {<<job[w], held[w]>>}
          /\ Goto(w, "submitted")
          /\ UNCHANGED <<job, plan, held, result>>
       \/ /\ FinishWith(w, "Retry")
          /\ UNCHANGED submits
    /\ UNCHANGED <<db, queue, sweep, stream, msc, hubOwned, hubOk, crashes>>

\* Variant: a submission without an answer counts as taken.
SubmitAnswerAssumed(w) ==
    /\ pc[w] = "submitted"
    /\ hubOk' = hubOk \cup {job[w]}
    /\ FinishWith(w, "Forwarded")
    /\ UNCHANGED <<db, queue, sweep, stream, msc, hub, crashes>>

\* The link's answer: Ok only for what the hub accepted, a rejection only for
\* what it did not; a transient error or the timeout says nothing about it.
SubmitAnswer(w) ==
    LET a == <<job[w], held[w]>>
    IN  /\ pc[w] = "submitted"
        /\ \/ /\ a \in hubOwned
              /\ hubOk' = hubOk \cup {job[w]}
              /\ FinishWith(w, "Forwarded")
              /\ UNCHANGED submits
           \/ /\ a \in submits
              /\ submits' = submits \ {a}
              /\ FinishWith(w, "Failed")
              /\ UNCHANGED hubOk
           \/ /\ FinishWith(w, "Retry")
              /\ UNCHANGED <<hubOk, submits>>
        /\ UNCHANGED <<db, queue, sweep, stream, msc, hubOwned, crashes>>

Finish(w) ==
    /\ pc[w] = "finish"
    /\ FinishDelivery(job[w], held[w], result[w])
    /\ Done(w)
    /\ UNCHANGED <<queue, sweep, stream, msc, hub, hubOk, crashes>>

FinishError(w) ==
    /\ DbErrors
    /\ pc[w] = "finish"
    /\ Done(w)
    /\ UNCHANGED <<db, queue, sweep, stream, msc, hub, hubOk, crashes>>

-----------------------------------------------------------------------------
(* The Scheduler: recover_stuck once at boot, then recover_stuck and         *)
(* retry_sweep on every tick                                                *)


\* A tick.  Time is counted in sweep intervals.  No forward outlives its
\* timeout: it is answered, and the answer is stored, before the tick that
\* would take it past SubmitTimeout.
Tick ==
    /\ phase = "tick"
    /\ \A w \in Workers :
           plan[w] = "forward" /\ held[w] > 0 => age[job[w]] < SubmitTimeout
    /\ phase' = "recover"
    /\ age' = [s \in Sms |-> IF age[s] < MaxAge THEN age[s] + 1 ELSE age[s]]
    /\ UNCHANGED <<state, kind, attempts, queue, task, page, stream, msc, hub,
                   hubOk, crashes>>

\* list_submissions for the state the phase works on.
Listed == IF phase = "sweep" THEN "accepted" ELSE "paging"

ListPage(rows) ==
    /\ phase # "tick"
    /\ pc["sweep"] = "idle"
    /\ page = {}
    /\ rows # {} /\ rows \subseteq {s \in Sms : state[s] = Listed}
    /\ page' = rows
    /\ UNCHANGED <<db, queue, task, phase, stream, msc, hub, hubOk, crashes>>

\* recover_stuck on one row: a paging attempt older than the cutoff is to be
\* finished with Retry, by a second call to the repository.
RecoverRow(s) ==
    /\ phase \in {"boot", "recover"}
    /\ pc["sweep"] = "idle"
    /\ s \in page
    /\ page' = page \ {s}
    /\ IF Latest(s) > 0 /\ attempts[s][Latest(s)] = "paging" /\ age[s] > StaleAfter
         THEN /\ Goto("sweep", "finish")
              /\ job' = [job EXCEPT !["sweep"] = s]
              /\ held' = [held EXCEPT !["sweep"] = Latest(s)]
              /\ result' = [result EXCEPT !["sweep"] = "Retry"]
              /\ UNCHANGED plan
         ELSE UNCHANGED task
    /\ UNCHANGED <<db, queue, phase, stream, msc, hub, hubOk, crashes>>

\* retry_sweep on one row: dispatched when never attempted, or when its latest
\* attempt failed long enough ago.
RetryRow(s) ==
    /\ phase = "sweep"
    /\ pc["sweep"] = "idle"
    /\ s \in page
    /\ page' = page \ {s}
    /\ IF Latest(s) = 0 \/ (attempts[s][Latest(s)] = "failed" /\ age[s] > RetryAfter)
         THEN Take("sweep", s)
         ELSE UNCHANGED task
    /\ UNCHANGED <<db, queue, phase, stream, msc, hub, hubOk, crashes>>

\* No page is left, or listing failed.
EndPhase ==
    /\ phase # "tick"
    /\ pc["sweep"] = "idle"
    /\ page = {}
    /\ phase' = IF phase = "recover" THEN "sweep" ELSE "tick"
    /\ UNCHANGED <<db, queue, task, page, stream, msc, hub, hubOk, crashes>>

-----------------------------------------------------------------------------
(* The delivery stream *)

\* Variant: the new stream shares the channel of the old one.
AttachShared ==
    /\ tasks < MaxStreams
    /\ tasks' = tasks + 1
    /\ slot' = "open"
    /\ wire' = wire \cup {pushed[i] : i \in 1 .. Len(pushed)}
    /\ UNCHANGED <<db, queue, task, sweep, pushed, outcomes, acked, hub, hubOk, crashes>>

\* delivery_stream: attach replaces the slot; what the replaced channel still
\* buffers drains to its own stream.
Attach ==
    /\ tasks < MaxStreams
    /\ tasks' = tasks + 1
    /\ slot' = "open"
    /\ pushed' = <<>>
    /\ wire' = wire \cup {pushed[i] : i \in 1 .. Len(pushed)}
    /\ UNCHANGED <<db, queue, task, sweep, outcomes, acked, hub, hubOk, crashes>>

\* The stream behind the slot dies: its receiver is dropped with its buffer.
StreamBreaks ==
    /\ slot = "open"
    /\ slot' = "closed"
    /\ pushed' = <<>>
    /\ UNCHANGED <<db, queue, task, sweep, tasks, msc, hub, hubOk, crashes>>


\* A stream task ends, possibly the task of a stream already replaced, and
\* calls DeliveryHub::detach.
Detach ==
    /\ tasks > 0
    /\ tasks' = tasks - 1
    /\ slot' = IF slot = "closed" THEN "none" ELSE slot
    /\ UNCHANGED <<db, queue, task, sweep, pushed, msc, hub, hubOk, crashes>>

SendCommand ==
    /\ slot = "open"
    /\ pushed # <<>>
    /\ wire' = wire \cup {Head(pushed)}
    /\ pushed' = Tail(pushed)
    /\ UNCHANGED <<db, queue, task, sweep, slot, tasks, outcomes, acked, hub, hubOk,
                   crashes>>

\* record_outcome, in the task of whichever stream carried it.
RecordOutcome(o) ==
    /\ tasks > 0
    /\ o \in outcomes
    /\ outcomes' = outcomes \ {o}
    /\ \/ FinishDelivery(o.sms, o.attempt,
            CASE o.result = "Delivered" -> "Delivered"
              [] o.result = "Failed" -> "Failed"
              [] OTHER -> "Retry")
       \/ DbErrors /\ UNCHANGED db
    /\ UNCHANGED <<queue, task, sweep, stream, wire, acked, hub, hubOk, crashes>>

-----------------------------------------------------------------------------
(* External: the MSC, the hub, and the process itself *)

Results == {"Delivered", "NotReachable", "Failed"}

MscAnswers(c, r) ==
    /\ c \in wire
    /\ wire' = wire \ {c}
    /\ outcomes' = outcomes \cup {[sms |-> c[1], attempt |-> c[2], result |-> r]}
    /\ acked' = IF r = "Delivered" THEN acked \cup {c} ELSE acked
    /\ UNCHANGED <<db, queue, task, sweep, stream, hub, hubOk, crashes>>

\* The MSC restarts with the command, or its answer finds no stream.
MscLoses ==
    /\ \/ \E c \in wire : wire' = wire \ {c} /\ UNCHANGED outcomes
       \/ \E o \in outcomes : outcomes' = outcomes \ {o} /\ UNCHANGED wire
    /\ UNCHANGED <<db, queue, task, sweep, stream, acked, hub, hubOk, crashes>>

\* The hub takes a submission, which may be after its caller gave up on it.
HubAccepts(a) ==
    /\ a \in submits
    /\ submits' = submits \ {a}
    /\ hubOwned' = hubOwned \cup {a}
    /\ UNCHANGED <<db, queue, task, sweep, stream, msc, hubOk, crashes>>

\* The SMSC stops and starts again: the database is all that is left, and the
\* Scheduler begins with recover_stuck.
Crash ==
    /\ crashes < MaxCrashes
    /\ crashes' = crashes + 1
    /\ queue' = <<>>
    /\ pc' = [w \in Workers |-> "idle"]
    /\ job' = [w \in Workers |-> "none"]
    /\ plan' = [w \in Workers |-> "none"]
    /\ held' = [w \in Workers |-> 0]
    /\ result' = [w \in Workers |-> "none"]
    /\ phase' = "boot"
    /\ page' = {}
    /\ slot' = "none"
    /\ pushed' = <<>>
    /\ tasks' = 0
    /\ UNCHANGED <<db, msc, hub, hubOk>>

-----------------------------------------------------------------------------
Init ==
    /\ state = [s \in Sms |-> "absent"]
    /\ kind = [s \in Sms |-> "imsi"]
    /\ attempts = [s \in Sms |-> <<>>]
    /\ age = [s \in Sms |-> 0]
    /\ queue = <<>>
    /\ pc = [w \in Workers |-> "idle"]
    /\ job = [w \in Workers |-> "none"]
    /\ plan = [w \in Workers |-> "none"]
    /\ held = [w \in Workers |-> 0]
    /\ result = [w \in Workers |-> "none"]
    /\ phase = "boot"
    /\ page = {}
    /\ slot = "none"
    /\ pushed = <<>>
    /\ tasks = 0
    /\ wire = {}
    /\ outcomes = {}
    /\ acked = {}
    /\ submits = {}
    /\ hubOwned = {}
    /\ hubOk = {}
    /\ crashes = 0

Accepting ==
    \/ \E s \in Sms, k \in Kinds \ {"ingress"} : Submit(s, k)
    \/ \E s \in Sms, k \in Kinds : Store(s, k)

Dispatching(w) ==
    \/ \E r \in Resolutions, available \in BOOLEAN : Dispatch(w, r, available)
    \/ \E r \in Resolutions : Address(w, r)
    \/ Claim(w) \/ ClaimNone(w) \/ ClaimError(w)
    \/ Push(w) \/ SubmitToHub(w) \/ SubmitAnswer(w)
    \/ Finish(w) \/ FinishError(w)

Scheduling ==
    \/ Tick
    \/ \E rows \in SUBSET Sms : ListPage(rows)
    \/ \E s \in Sms : RecoverRow(s)
    \/ \E s \in Sms : RetryRow(s)
    \/ EndPhase

Streaming ==
    \/ Attach \/ StreamBreaks \/ Detach \/ SendCommand
    \/ \E o \in outcomes : RecordOutcome(o)

Environment ==
    \/ \E c \in wire, r \in Results : MscAnswers(c, r)
    \/ MscLoses
    \/ \E a \in submits : HubAccepts(a)
    \/ Crash

Next ==
    \/ Accepting
    \/ Dequeue
    \/ \E w \in Workers : Dispatching(w)
    \/ Scheduling
    \/ Streaming
    \/ Environment

Spec == Init /\ [][Next]_vars

-----------------------------------------------------------------------------
(* Properties *)

TypeOK ==
    /\ state \in [Sms -> SmsState]
    /\ kind \in [Sms -> AllKinds]
    /\ attempts \in [Sms -> Seq(AttemptState)]
    /\ \A s \in Sms : Latest(s) <= MaxAttempts
    /\ age \in [Sms -> 0 .. MaxAge]
    /\ queue \in Seq(Sms) /\ Len(queue) <= DispatchQueueLen
    /\ pc \in [Workers -> Steps]
    /\ job \in [Workers -> Sms \cup {"none"}]
    /\ plan \in [Workers -> Plans]
    /\ held \in [Workers -> 0 .. MaxAttempts]
    /\ result \in [Workers -> Completions \cup {"none"}]
    /\ phase \in {"boot", "tick", "recover", "sweep"}
    /\ page \in SUBSET Sms
    /\ slot \in {"none", "open", "closed"}
    /\ pushed \in Seq(Attempt) /\ Len(pushed) <= PushQueueLen
    /\ tasks \in 0 .. MaxStreams
    /\ wire \in SUBSET Attempt
    /\ outcomes \in SUBSET [sms : Sms, attempt : 1 .. MaxAttempts, result : Results]
    /\ acked \in SUBSET Attempt
    /\ submits \in SUBSET Attempt
    /\ hubOwned \in SUBSET Attempt
    /\ hubOk \in SUBSET Sms
    /\ crashes \in 0 .. MaxCrashes

\* The submission row and its attempt rows always tell the same story: every
\* attempt but the latest failed, and the latest is what the submission's state
\* says.  retry_sweep skips an accepted row whose latest attempt is not failed,
\* and recover_stuck a paging row whose latest is not paging, so a row for
\* which this breaks would never be delivered (migration 007 repairs such rows).
AttemptsMatchState ==
    \A s \in Sms :
        /\ \A n \in 1 .. Latest(s) - 1 : attempts[s][n] = "failed"
        /\ state[s] = "absent" => Latest(s) = 0
        /\ state[s] = "accepted" /\ Latest(s) > 0 => attempts[s][Latest(s)] = "failed"
        /\ state[s] \notin {"absent", "accepted"} => Latest(s) > 0
        /\ state[s] = "paging" => attempts[s][Latest(s)] = "paging"
        /\ state[s] \in {"delivered", "forwarded"}
             => attempts[s][Latest(s)] = "forward_sent"
        /\ state[s] = "failed" => attempts[s][Latest(s)] = "failed"

\* A message recorded as delivered was acknowledged by the handset in the very
\* attempt that is recorded as sent: no outcome of an attempt given up by
\* recover_stuck completes its successor (finish_delivery).
DeliveredIsAcknowledged ==
    \A s \in Sms : state[s] = "delivered" => <<s, Latest(s)>> \in acked

\* A message recorded as forwarded is owned by the hub, which accepted the
\* attempt recorded as sent (forward and finish_delivery).
ForwardedIsOwned ==
    \A s \in Sms : state[s] = "forwarded" => <<s, Latest(s)>> \in hubOwned

\* Where attempt a can be: in a task that has claimed it and not handed it on,
\* in the stream's buffer, at the MSC, in an outcome, at the hub.
Places(a) ==
    {<<"task", w>> : w \in {v \in Workers : /\ pc[v] \in {"push", "submit"}
                                            /\ <<job[v], held[v]>> = a}}
    \cup {<<"pushed", i>> : i \in {j \in 1 .. Len(pushed) : pushed[j] = a}}
    \cup {<<"wire", c>> : c \in wire \cap {a}}
    \cup {<<"outcome", o>> : o \in {p \in outcomes : <<p.sms, p.attempt>> = a}}
    \cup {<<"hub", b>> : b \in (submits \cup hubOwned) \cap {a}}

\* An attempt is handed out once: whatever the two tasks, replaced streams and
\* restarts do, at most one of them carries it (claim_delivery's row lock and
\* attempt numbering).
OneCarrier ==
    \A a \in Attempt : \A p, q \in Places(a) : p = q

\* What arrived over the interconnect never goes back out, whatever the HLR
\* says of its number by the time it is dispatched ("or they loop", ingress.rs).
IngressNeverForwarded ==
    \A a \in submits \cup hubOwned : kind[a[1]] # "ingress"

\* Ok from the hub transfers ownership: the submission is not submitted again
\* (egress.rs, "Do not retry").
OkNotRetried ==
    [][\A a \in submits' \ submits : a[1] \notin hubOk]_vars


\* What the SMSC promises of each message: SmsLifecycle.
Lifecycle == INSTANCE SmsLifecycle
               WITH tries <- [s \in Sms |-> Latest(s)]

\* The database, claimed and finished by racing tasks, streams and restarts,
\* implements the lifecycle of independent messages.
ImplementsLifecycle == Lifecycle!Spec
=============================================================================
