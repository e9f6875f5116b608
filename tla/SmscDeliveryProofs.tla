-------------------------- MODULE SmscDeliveryProofs --------------------------
(***************************************************************************)
(* What SmscDelivery keeps for any number of messages, queue lengths,      *)
(* timings, restarts and streams.                                          *)
(*                                                                         *)
(* The argument has two halves.  Every step of the system leaves the rows  *)
(* of the database alone or is one of the repository's three transactions  *)
(* (DbStep), and the transactions keep the rows consistent whoever calls   *)
(* them.  That the callers pass arguments for which this is true (a task   *)
(* that finishes holds an attempt it claimed; an outcome that says         *)
(* Delivered was acknowledged; a task that finishes with Forwarded had the *)
(* hub's acceptance) is the invariant of the memory half.                  *)
(***************************************************************************)
EXTENDS SmscDelivery, SequenceTheorems, TLAPS

\* The database half: the row types and AttemptsMatchState.
DbOK ==
    /\ state \in [Sms -> SmsState]
    /\ kind \in [Sms -> AllKinds]
    /\ attempts \in [Sms -> Seq(AttemptState)]
    /\ \A s \in Sms : Latest(s) <= MaxAttempts
    /\ age \in [Sms -> 0 .. MaxAge]
    /\ AttemptsMatchState

\* The memory half: the other variables of TypeOK.
TaskTypes ==
    /\ pc \in [Workers -> Steps]
    /\ job \in [Workers -> Sms \cup {"none"}]
    /\ plan \in [Workers -> Plans]
    /\ held \in [Workers -> 0 .. MaxAttempts]
    /\ result \in [Workers -> Completions \cup {"none"}]

LinkTypes ==
    /\ queue \in Seq(Sms) /\ Len(queue) <= DispatchQueueLen
    /\ phase \in {"boot", "tick", "recover", "sweep"}
    /\ page \in SUBSET Sms
    /\ slot \in {"none", "open", "closed"}
    /\ pushed \in Seq(Attempt) /\ Len(pushed) <= PushQueueLen
    /\ tasks \in 0 .. MaxStreams
    /\ wire \in SUBSET Attempt
    /\ outcomes \in SUBSET [sms : Sms, attempt : 1 .. MaxAttempts, result : Results]
    /\ acked \in SUBSET Attempt
    /\ submits \in SUBSET Attempt
    /\ hubOwned \in SUBSET Attempt
    /\ hubOk \in SUBSET Sms
    /\ crashes \in 0 .. MaxCrashes

\* What a task at each step of a dispatch holds.
TasksHold ==
    \A w \in Workers :
        /\ pc[w] # "idle" => job[w] \in Sms
        /\ pc[w] = "claim" => plan[w] # "none"
        /\ pc[w] \in {"push", "submit", "submitted", "finish"} => held[w] > 0
        /\ pc[w] = "finish" =>
             /\ result[w] \in {"Forwarded", "Retry", "Failed"}
             /\ result[w] = "Forwarded" => <<job[w], held[w]>> \in hubOwned

\* An outcome that says Delivered was acknowledged by the handset.
OutcomesTrue ==
    \A o \in outcomes : o.result = "Delivered" => <<o.sms, o.attempt>> \in acked

IInv ==
    /\ DbOK
    /\ TaskTypes
    /\ LinkTypes
    /\ TasksHold
    /\ OutcomesTrue
    /\ DeliveredIsAcknowledged
    /\ ForwardedIsOwned

\* What a step does to the rows.
DbStep ==
    \/ \E s \in Sms, k \in AllKinds : CreateSubmission(s, k)
    \/ \E s \in Sms : ClaimDelivery(s)
    \/ \E s \in Sms, n \in 1 .. MaxAttempts, c \in Completions :
          /\ FinishDelivery(s, n, c)
          /\ c = "Delivered" => <<s, n>> \in acked
          /\ c = "Forwarded" => <<s, n>> \in hubOwned
    \/ UNCHANGED <<state, kind, attempts>> /\ age' \in [Sms -> 0 .. MaxAge]

-----------------------------------------------------------------------------
(* The repository *)

LEMMA MaxAgeNat == MaxAge \in Nat /\ MaxAge > 0
BY ConstantsAssumption DEF MaxAge

\* What finish_delivery does to the attempts of the submission it applies to.
LEMMA FinishAttempt ==
    ASSUME DbOK, NEW s \in Sms, NEW n \in Nat, Finishes(s, n),
           NEW a \in AttemptState
    PROVE  LET t == [attempts[s] EXCEPT ![n] = a]
           IN  /\ n \in 1 .. Latest(s)
               /\ t \in Seq(AttemptState)
               /\ Len(t) = Latest(s)
               /\ t[n] = a
               /\ \A i \in 1 .. Latest(s) : i # n => t[i] = attempts[s][i]
<1>1. attempts[s] \in Seq(AttemptState) /\ Latest(s) \in Nat
  BY DEF DbOK, Latest
<1>2. state[s] = "paging" /\ n = Latest(s)
  BY DEF Finishes
<1>3. Latest(s) > 0
  BY <1>2 DEF DbOK, AttemptsMatchState
<1>4. n \in 1 .. Latest(s)
  BY <1>1, <1>2, <1>3
<1>. QED
  BY <1>1, <1>4, ExceptSeq DEF Latest

\* A new submission has no attempts: create_submission keeps the rows in step.
LEMMA CreateKeeps ==
    ASSUME DbOK, NEW s \in Sms, NEW k \in AllKinds, CreateSubmission(s, k)
    PROVE  DbOK'
<1>1. state' \in [Sms -> SmsState] /\ kind' \in [Sms -> AllKinds]
  BY DEF DbOK, CreateSubmission, SmsState
<1>2. \A r \in Sms : Latest(r)' = Latest(r)
  BY DEF CreateSubmission, Latest
<1>3. AttemptsMatchState'
  BY <1>2 DEF DbOK, AttemptsMatchState, CreateSubmission, SmsState
<1>. QED
  BY <1>1, <1>2, <1>3 DEF DbOK, CreateSubmission

\* claim_delivery appends a paging attempt behind failed ones.
LEMMA ClaimKeeps ==
    ASSUME DbOK, NEW s \in Sms, ClaimDelivery(s)
    PROVE  DbOK'
<1> DEFINE t == Append(attempts[s], "paging")
<1>1. /\ attempts[s] \in Seq(AttemptState)
      /\ "paging" \in AttemptState
      /\ Latest(s) \in Nat
  BY DEF DbOK, AttemptState, Latest
<1>2. /\ t \in Seq(AttemptState)
      /\ Len(t) = Latest(s) + 1
      /\ t[Latest(s) + 1] = "paging"
      /\ \A i \in 1 .. Latest(s) : t[i] = attempts[s][i]
  BY <1>1, AppendProperties DEF Latest
<1>3. attempts' = [attempts EXCEPT ![s] = t]
  BY DEF ClaimDelivery
<1>4. /\ state' \in [Sms -> SmsState]
      /\ kind' \in [Sms -> AllKinds]
      /\ age' \in [Sms -> 0 .. MaxAge]
  BY MaxAgeNat DEF DbOK, ClaimDelivery, SmsState
<1>5. attempts' \in [Sms -> Seq(AttemptState)]
  BY <1>2, <1>3 DEF DbOK
<1>6. /\ Latest(s)' = Latest(s) + 1
      /\ \A r \in Sms : r # s => attempts'[r] = attempts[r] /\ Latest(r)' = Latest(r)
      /\ attempts'[s] = t
  BY <1>2, <1>3 DEF DbOK, Latest
<1>7. \A r \in Sms : Latest(r)' <= MaxAttempts
  <2>1. Latest(s)' <= MaxAttempts
    BY <1>1, <1>6, ConstantsAssumption DEF ClaimDelivery
  <2>. QED
    BY <2>1, <1>6 DEF DbOK
<1>8. \A i \in 1 .. Latest(s) : attempts[s][i] = "failed"
  BY <1>1 DEF DbOK, AttemptsMatchState, ClaimDelivery
<1>9. AttemptsMatchState'
  <2> SUFFICES ASSUME NEW r \in Sms
               PROVE  AttemptsMatchState!(r)'
    BY DEF AttemptsMatchState
  <2>1. CASE r = s
    BY <2>1, <1>1, <1>2, <1>6, <1>8 DEF DbOK, ClaimDelivery
  <2>2. CASE r # s
    BY <2>2, <1>6 DEF DbOK, AttemptsMatchState, ClaimDelivery
  <2>. QED
    BY <2>1, <2>2
<1>. QED
  BY <1>4, <1>5, <1>7, <1>9 DEF DbOK

\* finish_delivery changes the latest attempt and the submission together, or
\* nothing.
LEMMA FinishKeeps ==
    ASSUME DbOK, NEW s \in Sms, NEW n \in Nat, NEW c \in Completions,
           FinishDelivery(s, n, c)
    PROVE  DbOK'
<1>1. CASE ~Finishes(s, n)
  <2>1. state' = state /\ attempts' = attempts /\ age' = age /\ kind' = kind
    BY <1>1 DEF DbOK, FinishDelivery
  <2>. QED
    BY <2>1 DEF DbOK, AttemptsMatchState, Latest
<1>2. CASE Finishes(s, n)
  <2> DEFINE t == [attempts[s] EXCEPT ![n] = States(c)[2]]
  <2>1. /\ States(c)[1] \in {"delivered", "forwarded", "accepted", "failed"}
        /\ States(c)[2] \in AttemptState
        /\ States(c)[1] \in {"delivered", "forwarded"} => States(c)[2] = "forward_sent"
        /\ States(c)[1] \in {"accepted", "failed"} => States(c)[2] = "failed"
    BY DEF Completions, States, AttemptState
  <2>2. /\ n \in 1 .. Latest(s)
        /\ t \in Seq(AttemptState)
        /\ Len(t) = Latest(s)
        /\ t[n] = States(c)[2]
        /\ \A i \in 1 .. Latest(s) : i # n => t[i] = attempts[s][i]
    BY <1>2, <2>1, FinishAttempt
  <2>3. /\ state' = [state EXCEPT ![s] = States(c)[1]]
        /\ attempts' = [attempts EXCEPT ![s] = t]
        /\ age' = [age EXCEPT ![s] = 0]
        /\ kind' = kind
    BY <1>2 DEF FinishDelivery
  <2>4. /\ state' \in [Sms -> SmsState]
        /\ kind' \in [Sms -> AllKinds]
        /\ age' \in [Sms -> 0 .. MaxAge]
    BY <2>1, <2>3, MaxAgeNat DEF DbOK, SmsState, Terminal
  <2>5. attempts' \in [Sms -> Seq(AttemptState)]
    BY <2>2, <2>3 DEF DbOK
  <2>6. /\ Latest(s)' = Latest(s)
        /\ attempts'[s] = t
        /\ \A r \in Sms : r # s => attempts'[r] = attempts[r] /\ Latest(r)' = Latest(r)
    BY <2>2, <2>3 DEF DbOK, Latest
  <2>7. Latest(s) \in Nat /\ n = Latest(s)
    BY <1>2, <2>2 DEF Finishes
  <2>8. AttemptsMatchState'
    <3> SUFFICES ASSUME NEW r \in Sms
                 PROVE  AttemptsMatchState!(r)'
      BY DEF AttemptsMatchState
    <3>1. CASE r = s
      BY <3>1, <2>1, <2>2, <2>3, <2>6, <2>7 DEF DbOK, AttemptsMatchState
    <3>2. CASE r # s
      BY <3>2, <2>3, <2>6 DEF DbOK, AttemptsMatchState
    <3>. QED
      BY <3>1, <3>2
  <2>. QED
    BY <2>4, <2>5, <2>6, <2>8 DEF DbOK
<1>. QED
  BY <1>1, <1>2

\* However the rows change, they stay consistent.
LEMMA DbStepKeeps == DbOK /\ DbStep => DbOK'
<1> SUFFICES ASSUME DbOK, DbStep
             PROVE  DbOK'
  OBVIOUS
<1>1. ASSUME NEW s \in Sms, NEW k \in AllKinds, CreateSubmission(s, k)
      PROVE  DbOK'
  BY <1>1, CreateKeeps
<1>2. ASSUME NEW s \in Sms, ClaimDelivery(s)
      PROVE  DbOK'
  BY <1>2, ClaimKeeps
<1>3. ASSUME NEW s \in Sms, NEW n \in 1 .. MaxAttempts, NEW c \in Completions,
             FinishDelivery(s, n, c)
      PROVE  DbOK'
  <2>1. n \in Nat
    BY ConstantsAssumption
  <2>. QED
    BY <1>3, <2>1, FinishKeeps
<1>4. CASE UNCHANGED <<state, kind, attempts>> /\ age' \in [Sms -> 0 .. MaxAge]
  BY <1>4 DEF DbOK, AttemptsMatchState, Latest
<1>. QED
  BY <1>1, <1>2, <1>3, <1>4 DEF DbStep

\* The state and the number of attempts of a row change together, in one of
\* three ways: the transactions seen through SmsLifecycle.
LEMMA RowSteps ==
    ASSUME DbOK, DbStep, NEW s \in Sms
    PROVE  \/ state'[s] = state[s] /\ Latest(s)' = Latest(s)
           \/ state[s] = "absent" /\ state'[s] = "accepted" /\ Latest(s)' = Latest(s)
           \/ state[s] = "accepted" /\ state'[s] = "paging" /\ Latest(s)' = Latest(s) + 1
           \/ /\ state[s] = "paging"
              /\ Latest(s)' = Latest(s)
              /\ \/ state'[s] \in {"accepted", "failed"}
                 \/ state'[s] = "delivered" /\ <<s, Latest(s)>> \in acked
                 \/ state'[s] = "forwarded" /\ <<s, Latest(s)>> \in hubOwned
<1>1. ASSUME NEW r \in Sms, NEW k \in AllKinds, CreateSubmission(r, k)
      PROVE  \/ state'[s] = state[s] /\ Latest(s)' = Latest(s)
             \/ /\ state[s] = "absent" /\ state'[s] = "accepted"
                /\ Latest(s)' = Latest(s)
  BY <1>1 DEF DbOK, CreateSubmission, Latest
<1>2. ASSUME NEW r \in Sms, ClaimDelivery(r)
      PROVE  \/ state'[s] = state[s] /\ Latest(s)' = Latest(s)
             \/ /\ state[s] = "accepted" /\ state'[s] = "paging"
                /\ Latest(s)' = Latest(s) + 1
  <2>1. attempts[r] \in Seq(AttemptState) /\ "paging" \in AttemptState
    BY DEF DbOK, AttemptState
  <2>2. Len(Append(attempts[r], "paging")) = Len(attempts[r]) + 1
    BY <2>1, AppendProperties
  <2>. QED
    BY <1>2, <2>2 DEF DbOK, ClaimDelivery, Latest
<1>3. ASSUME NEW r \in Sms, NEW n \in 1 .. MaxAttempts, NEW c \in Completions,
             FinishDelivery(r, n, c),
             c = "Delivered" => <<r, n>> \in acked,
             c = "Forwarded" => <<r, n>> \in hubOwned
      PROVE  \/ state'[s] = state[s] /\ Latest(s)' = Latest(s)
             \/ /\ state[s] = "paging"
                /\ Latest(s)' = Latest(s)
                /\ \/ state'[s] \in {"accepted", "failed"}
                   \/ state'[s] = "delivered" /\ <<s, Latest(s)>> \in acked
                   \/ state'[s] = "forwarded" /\ <<s, Latest(s)>> \in hubOwned
  <2>1. CASE ~Finishes(r, n) \/ r # s
    BY <1>3, <2>1 DEF DbOK, FinishDelivery, Latest
  <2>2. CASE Finishes(s, n) /\ r = s
    <3>1. n \in Nat /\ States(c)[2] \in AttemptState
      BY ConstantsAssumption DEF Completions, States, AttemptState
    <3>2. Len([attempts[s] EXCEPT ![n] = States(c)[2]]) = Latest(s)
      BY <2>2, <3>1, FinishAttempt
    <3>3. state[s] = "paging" /\ n = Latest(s)
      BY <2>2 DEF Finishes
    <3>4. state'[s] = States(c)[1] /\ Latest(s)' = Latest(s)
      BY <1>3, <2>2, <3>2 DEF DbOK, FinishDelivery, Latest
    <3>. QED
      BY <1>3, <2>2, <3>3, <3>4 DEF Completions, States
  <2>. QED
    BY <2>1, <2>2
<1>4. CASE UNCHANGED <<state, kind, attempts>>
  BY <1>4 DEF Latest
<1>. QED
  BY <1>1, <1>2, <1>3, <1>4 DEF DbStep

-----------------------------------------------------------------------------
(* The callers: every step is a DbStep and keeps the memory half *)

MemOK == TaskTypes /\ LinkTypes /\ TasksHold /\ OutcomesTrue

StepOK ==
    /\ DbStep
    /\ MemOK'
    /\ acked \subseteq acked'
    /\ hubOwned \subseteq hubOwned'

LEMMA SameRows ==
    ASSUME DbOK, UNCHANGED db
    PROVE  DbStep
BY DEF DbOK, DbStep, db

\* submit_mo, submit_mt, the interconnect's sink and the gRPC creators.
LEMMA AcceptingStep ==
    ASSUME IInv, Accepting
    PROVE  StepOK
<1>1. ASSUME NEW s \in Sms, NEW k \in Kinds, CreateSubmission(s, k)
      PROVE  DbStep
  BY <1>1, ConstantsAssumption DEF DbStep
<1>2. ASSUME NEW s \in Sms, NEW k \in Kinds, Submit(s, k)
      PROVE  StepOK
  <2>1. queue' \in Seq(Sms) /\ Len(queue') <= DispatchQueueLen
    BY <1>2, AppendProperties, ConstantsAssumption DEF IInv, LinkTypes, Submit
  <2>2. MemOK'
    BY <1>2, <2>1 DEF IInv, MemOK, TaskTypes, LinkTypes, TasksHold, OutcomesTrue,
                      Submit, task, sweep, stream, msc, hub
  <2>. QED
    BY <1>1, <1>2, <2>2 DEF StepOK, Submit, msc, hub
<1>3. ASSUME NEW s \in Sms, NEW k \in Kinds, Store(s, k)
      PROVE  StepOK
  <2>1. MemOK'
    BY <1>3 DEF IInv, MemOK, TaskTypes, LinkTypes, TasksHold, OutcomesTrue,
                Store, task, sweep, stream, msc, hub
  <2>. QED
    BY <1>1, <1>3, <2>1 DEF StepOK, Store, msc, hub
<1>. QED
  BY <1>2, <1>3 DEF Accepting

\* The DispatchQueue's worker takes the next submission.
LEMMA DequeueStep ==
    ASSUME IInv, Dequeue
    PROVE  StepOK
<1>1. /\ Head(queue) \in Sms
      /\ queue' \in Seq(Sms)
      /\ Len(queue') <= DispatchQueueLen
  BY HeadTailProperties, ConstantsAssumption DEF IInv, LinkTypes, Dequeue
<1>2. TaskTypes'
  BY <1>1 DEF IInv, TaskTypes, Dequeue, Take, Goto, Workers, Steps
<1>3. TasksHold'
  BY <1>1 DEF IInv, TaskTypes, TasksHold, Dequeue, Take, Goto, Workers, hub
<1>4. LinkTypes' /\ OutcomesTrue'
  BY <1>1 DEF IInv, LinkTypes, OutcomesTrue, Dequeue, sweep, stream, msc, hub
<1>. QED
  BY <1>2, <1>3, <1>4, SameRows DEF IInv, StepOK, MemOK, Dequeue, msc, hub

\* The ways a dispatch moves on, seen from the tasks alone.
LEMMA DoneKeeps ==
    ASSUME TaskTypes, TasksHold, NEW w \in Workers, Done(w), hubOwned \subseteq hubOwned'
    PROVE  TaskTypes' /\ TasksHold'
BY ConstantsAssumption DEF TaskTypes, TasksHold, Done, Goto, Steps, Plans

LEMMA ClaimWithKeeps ==
    ASSUME TaskTypes, TasksHold, NEW w \in Workers, pc[w] # "idle",
           NEW p \in Plans \ {"none"}, ClaimWith(w, p), hubOwned \subseteq hubOwned'
    PROVE  TaskTypes' /\ TasksHold'
BY DEF TaskTypes, TasksHold, ClaimWith, Goto, Steps

LEMMA FinishWithKeeps ==
    ASSUME TaskTypes, TasksHold, NEW w \in Workers, pc[w] \in {"push", "submit", "submitted"},
           NEW c \in {"Forwarded", "Retry", "Failed"}, FinishWith(w, c),
           c = "Forwarded" => <<job[w], held[w]>> \in hubOwned,
           hubOwned \subseteq hubOwned'
    PROVE  TaskTypes' /\ TasksHold'
<1>1. TaskTypes'
  BY DEF TaskTypes, FinishWith, Goto, Steps, Completions
<1>2. TasksHold'
  BY DEF TaskTypes, TasksHold, FinishWith, Goto
<1>. QED
  BY <1>1, <1>2

LEMMA GotoKeeps ==
    ASSUME TaskTypes, TasksHold, NEW w \in Workers, NEW step \in {"address", "submitted"},
           pc[w] # "idle", step = "submitted" => pc[w] = "submit",
           Goto(w, step), UNCHANGED <<job, plan, held, result>>,
           hubOwned \subseteq hubOwned'
    PROVE  TaskTypes' /\ TasksHold'
BY DEF TaskTypes, TasksHold, Goto, Steps

\* dispatch() and address() decide from the kind of destination and the HLR.
LEMMA DispatchStep ==
    ASSUME IInv, NEW w \in Workers, NEW r \in Resolutions,
           Address(w, r) \/ \E available \in BOOLEAN : Dispatch(w, r, available)
    PROVE  StepOK
<1>1. UNCHANGED <<db, queue, sweep, stream, msc, hub, hubOk, crashes>>
  BY DEF Address, Dispatch
<1> DEFINE Moves == /\ pc[w] # "idle"
                    /\ \/ Done(w)
                       \/ \E p \in Plans \ {"none"} : ClaimWith(w, p)
                       \/ Goto(w, "address") /\ UNCHANGED <<job, plan, held, result>>
<1>2. Moves
  <2>1. CASE Address(w, r)
    BY <2>1 DEF Address, Plans
  <2>2. ASSUME NEW available \in BOOLEAN, Dispatch(w, r, available)
        PROVE  Moves
    BY <2>2 DEF Dispatch, Plans
  <2>. QED
    BY <2>1, <2>2
<1>3. TaskTypes' /\ TasksHold'
  BY <1>1, <1>2, DoneKeeps, ClaimWithKeeps, GotoKeeps DEF IInv, hub
<1>4. LinkTypes' /\ OutcomesTrue'
  BY <1>1 DEF IInv, LinkTypes, OutcomesTrue, sweep, stream, msc, hub
<1>. QED
  BY <1>1, <1>3, <1>4, SameRows DEF IInv, StepOK, MemOK, msc, hub

\* try_deliver, forward and the failing routes claim before anything else.
LEMMA ClaimStep ==
    ASSUME IInv, NEW w \in Workers, Claim(w) \/ ClaimNone(w) \/ ClaimError(w)
    PROVE  StepOK
<1>1. job[w] \in Sms
  BY DEF IInv, TasksHold, Claim, ClaimNone, ClaimError
<1>2. DbStep
  <2>1. CASE ClaimDelivery(job[w])
    BY <1>1, <2>1 DEF DbStep
  <2>2. CASE UNCHANGED db
    BY <2>2, SameRows DEF IInv
  <2>. QED
    BY <2>1, <2>2 DEF Claim, ClaimNone, ClaimError
<1>3. UNCHANGED <<queue, sweep, stream, msc, hub, hubOk, crashes>>
  BY DEF Claim, ClaimNone, ClaimError
<1>4. TaskTypes' /\ TasksHold'
  <2>1. CASE Claim(w)
    <3>1. Latest(job[w]) + 1 \in 1 .. MaxAttempts
      BY <1>1, <2>1, ConstantsAssumption DEF IInv, DbOK, Claim, ClaimDelivery, Latest
    <3>2. plan[w] \in {"push", "forward", "fail"}
      BY <2>1 DEF IInv, TaskTypes, TasksHold, Plans, Claim
    <3>3. TaskTypes'
      BY <2>1, <3>1, <3>2 DEF IInv, TaskTypes, Claim, Goto, Steps, Completions
    <3>4. TasksHold'
      BY <1>1, <1>3, <2>1, <3>1, <3>2 DEF IInv, TaskTypes, TasksHold, Claim, Goto, hub
    <3>. QED
      BY <3>3, <3>4
  <2>2. CASE ClaimNone(w) \/ ClaimError(w)
    BY <1>3, <2>2, DoneKeeps DEF IInv, ClaimNone, ClaimError, hub
  <2>. QED
    BY <2>1, <2>2
<1>5. LinkTypes' /\ OutcomesTrue'
  BY <1>3 DEF IInv, LinkTypes, OutcomesTrue, sweep, stream, msc, hub
<1>. QED
  BY <1>2, <1>3, <1>4, <1>5 DEF StepOK, MemOK, msc, hub

\* push and forward hand the claimed attempt on, or go to finish with it.
LEMMA HandOverStep ==
    ASSUME IInv, NEW w \in Workers, Push(w) \/ SubmitToHub(w) \/ SubmitAnswer(w)
    PROVE  StepOK
<1>1. pc[w] \in {"push", "submit", "submitted"}
  BY DEF Push, SubmitToHub, SubmitAnswer
<1>2. <<job[w], held[w]>> \in Attempt /\ job[w] \in Sms
  BY <1>1, ConstantsAssumption DEF IInv, TaskTypes, TasksHold, Attempt
<1>3. UNCHANGED <<db, queue, sweep, slot, tasks, msc, hubOwned, crashes>>
  BY DEF Push, SubmitToHub, SubmitAnswer, hub, stream
<1>4. TaskTypes' /\ TasksHold'
  <2>1. CASE Push(w)
    BY <1>3, <2>1, DoneKeeps, FinishWithKeeps DEF IInv, Push
  <2>2. CASE SubmitToHub(w)
    BY <1>3, <2>2, GotoKeeps, FinishWithKeeps DEF IInv, SubmitToHub
  <2>3. CASE SubmitAnswer(w)
    BY <1>3, <2>3, FinishWithKeeps DEF IInv, SubmitAnswer
  <2>. QED
    BY <2>1, <2>2, <2>3
<1>5. pushed' \in Seq(Attempt) /\ Len(pushed') <= PushQueueLen
  <2> DEFINE t == Append(pushed, <<job[w], held[w]>>)
  <2>1. pushed' = pushed \/ (Len(pushed) < PushQueueLen /\ pushed' = t)
    BY DEF Push, SubmitToHub, SubmitAnswer, stream
  <2>2. t \in Seq(Attempt) /\ Len(t) = Len(pushed) + 1 /\ Len(pushed) \in Nat
    BY <1>2, AppendProperties DEF IInv, LinkTypes
  <2> HIDE DEF t
  <2>. QED
    BY <2>1, <2>2, ConstantsAssumption DEF IInv, LinkTypes
<1>6. submits' \in SUBSET Attempt /\ hubOk' \in SUBSET Sms
  BY <1>2 DEF IInv, LinkTypes, Push, SubmitToHub, SubmitAnswer, hub
<1>7. LinkTypes' /\ OutcomesTrue'
  BY <1>3, <1>5, <1>6 DEF IInv, LinkTypes, OutcomesTrue, sweep, msc
<1>. QED
  BY <1>3, <1>4, <1>7, SameRows DEF IInv, StepOK, MemOK, msc

\* finish() stores the result of the attempt the task holds.
LEMMA FinishStep ==
    ASSUME IInv, NEW w \in Workers, Finish(w) \/ FinishError(w)
    PROVE  StepOK
<1>1. UNCHANGED <<queue, sweep, stream, msc, hub, hubOk, crashes>>
  BY DEF Finish, FinishError
<1>2. DbStep
  <2>1. CASE Finish(w)
    <3>1. /\ job[w] \in Sms
          /\ held[w] \in 1 .. MaxAttempts
          /\ result[w] \in Completions
          /\ result[w] # "Delivered"
          /\ result[w] = "Forwarded" => <<job[w], held[w]>> \in hubOwned
      BY <2>1, ConstantsAssumption DEF IInv, TaskTypes, TasksHold, Finish, Completions
    <3>. QED
      BY <2>1, <3>1 DEF DbStep, Finish
  <2>2. CASE FinishError(w)
    BY <2>2, SameRows DEF IInv, FinishError
  <2>. QED
    BY <2>1, <2>2
<1>3. TaskTypes' /\ TasksHold'
  BY <1>1, DoneKeeps DEF IInv, Finish, FinishError, hub
<1>4. LinkTypes' /\ OutcomesTrue'
  BY <1>1 DEF IInv, LinkTypes, OutcomesTrue, sweep, stream, msc, hub
<1>. QED
  BY <1>1, <1>2, <1>3, <1>4 DEF StepOK, MemOK, msc, hub

\* The Scheduler's loop: the page it works on and the rows it hands to its task.
LEMMA SchedulingStep ==
    ASSUME IInv, Scheduling
    PROVE  StepOK
<1>1. UNCHANGED <<state, kind, attempts, queue, stream, msc, hub, hubOk, crashes>>
  BY DEF Scheduling, Tick, ListPage, RecoverRow, RetryRow, EndPhase, db
<1>2. age' \in [Sms -> 0 .. MaxAge]
  BY MaxAgeNat DEF IInv, DbOK, Scheduling, Tick, ListPage, RecoverRow, RetryRow,
                   EndPhase, db
<1>3. phase' \in {"boot", "tick", "recover", "sweep"} /\ page' \in SUBSET Sms
  BY DEF IInv, LinkTypes, Scheduling, Tick, ListPage, RecoverRow, RetryRow, EndPhase
<1>4. TaskTypes' /\ TasksHold'
  <2>1. CASE UNCHANGED task
    BY <1>1, <2>1 DEF IInv, TaskTypes, TasksHold, task, hub
  <2>2. ASSUME NEW s \in Sms, Take("sweep", s)
        PROVE  TaskTypes' /\ TasksHold'
    BY <1>1, <2>2 DEF IInv, TaskTypes, TasksHold, Take, Goto, Workers, Steps, hub
  <2>3. ASSUME NEW s \in Sms, RecoverRow(s), ~UNCHANGED task
        PROVE  TaskTypes' /\ TasksHold'
    <3>1. Latest(s) \in 1 .. MaxAttempts
      BY <2>3, ConstantsAssumption DEF IInv, DbOK, RecoverRow, Latest
    <3>2. /\ pc' = [pc EXCEPT !["sweep"] = "finish"]
          /\ job' = [job EXCEPT !["sweep"] = s]
          /\ held' = [held EXCEPT !["sweep"] = Latest(s)]
          /\ result' = [result EXCEPT !["sweep"] = "Retry"]
          /\ plan' = plan
      BY <2>3 DEF RecoverRow, Goto
    <3>. QED
      BY <1>1, <3>1, <3>2
         DEF IInv, TaskTypes, TasksHold, Workers, Steps, Completions, hub
  <2>4. Tick \/ EndPhase \/ (\E rows \in SUBSET Sms : ListPage(rows)) => UNCHANGED task
    BY DEF Tick, EndPhase, ListPage
  <2>5. \A s \in Sms : RetryRow(s) => UNCHANGED task \/ Take("sweep", s)
    BY DEF RetryRow
  <2>. QED
    BY <2>1, <2>2, <2>3, <2>4, <2>5 DEF Scheduling
<1>5. LinkTypes' /\ OutcomesTrue'
  BY <1>1, <1>3 DEF IInv, LinkTypes, OutcomesTrue, stream, msc, hub
<1>. QED
  BY <1>1, <1>2, <1>4, <1>5 DEF StepOK, MemOK, DbStep, msc, hub

\* Streams come and go and carry commands out.
LEMMA StreamStep ==
    ASSUME IInv, Attach \/ StreamBreaks \/ Detach \/ SendCommand
    PROVE  StepOK
<1>1. UNCHANGED <<db, queue, task, sweep, outcomes, acked, hub, hubOk, crashes>>
  BY DEF Attach, StreamBreaks, Detach, SendCommand, msc
<1>2. /\ slot' \in {"none", "open", "closed"}
      /\ tasks' \in 0 .. MaxStreams
  BY ConstantsAssumption
     DEF IInv, LinkTypes, Attach, StreamBreaks, Detach, SendCommand
<1>3. \A i \in 1 .. Len(pushed) : pushed[i] \in Attempt
  BY ElementOfSeq DEF IInv, LinkTypes
<1>4. pushed # <<>> => /\ Head(pushed) \in Attempt
                       /\ Tail(pushed) \in Seq(Attempt)
                       /\ Len(Tail(pushed)) = Len(pushed) - 1
  BY HeadTailProperties DEF IInv, LinkTypes
<1>5. pushed' \in Seq(Attempt) /\ Len(pushed') <= PushQueueLen
  <2>1. pushed' = <<>> \/ pushed' = pushed \/ (pushed # <<>> /\ pushed' = Tail(pushed))
    BY DEF Attach, StreamBreaks, Detach, SendCommand
  <2>2. CASE pushed' = <<>>
    BY <2>2, ConstantsAssumption
  <2>3. CASE pushed' = pushed
    BY <2>3 DEF IInv, LinkTypes
  <2>4. CASE pushed # <<>> /\ pushed' = Tail(pushed)
    <3>1. pushed' \in Seq(Attempt) /\ Len(pushed') = Len(pushed) - 1
      BY <1>4, <2>4
    <3>2. Len(pushed) \in Nat /\ Len(pushed) <= PushQueueLen
      BY DEF IInv, LinkTypes
    <3>. QED
      BY <3>1, <3>2, ConstantsAssumption
  <2>. QED
    BY <2>1, <2>2, <2>3, <2>4
<1>6. wire' \in SUBSET Attempt
  BY <1>3, <1>4 DEF IInv, LinkTypes, Attach, StreamBreaks, Detach, SendCommand, msc
<1>7. LinkTypes' /\ OutcomesTrue'
  BY <1>1, <1>2, <1>5, <1>6 DEF IInv, LinkTypes, OutcomesTrue, sweep, hub
<1>8. TaskTypes' /\ TasksHold'
  BY <1>1 DEF IInv, TaskTypes, TasksHold, task, hub
<1>. QED
  BY <1>1, <1>7, <1>8, SameRows DEF IInv, StepOK, MemOK, hub

\* record_outcome finishes the attempt the outcome names.
LEMMA OutcomeStep ==
    ASSUME IInv, NEW o \in outcomes, RecordOutcome(o)
    PROVE  StepOK
<1>1. UNCHANGED <<queue, task, sweep, stream, wire, acked, hub, hubOk, crashes>>
  BY DEF RecordOutcome
<1>2. /\ o.sms \in Sms
      /\ o.attempt \in 1 .. MaxAttempts
      /\ o.result \in Results
      /\ o.result = "Delivered" => <<o.sms, o.attempt>> \in acked
  BY DEF IInv, LinkTypes, OutcomesTrue
<1>3. DbStep
  <2> DEFINE c == CASE o.result = "Delivered" -> "Delivered"
                    [] o.result = "Failed" -> "Failed"
                    [] OTHER -> "Retry"
  <2>1. /\ c \in Completions
        /\ c # "Forwarded"
        /\ c = "Delivered" => <<o.sms, o.attempt>> \in acked
    BY <1>2 DEF Completions, Results
  <2>2. FinishDelivery(o.sms, o.attempt, c) \/ UNCHANGED db
    BY DEF RecordOutcome
  <2> HIDE DEF c
  <2>. QED
    BY <1>2, <2>1, <2>2, SameRows DEF IInv, DbStep
<1>4. LinkTypes' /\ OutcomesTrue'
  BY <1>1 DEF IInv, LinkTypes, OutcomesTrue, RecordOutcome, sweep, stream, hub
<1>5. TaskTypes' /\ TasksHold'
  BY <1>1 DEF IInv, TaskTypes, TasksHold, task, hub
<1>. QED
  BY <1>1, <1>3, <1>4, <1>5 DEF StepOK, MemOK, hub

\* The MSC, the hub and a restart do not touch the rows.
LEMMA EnvironmentStep ==
    ASSUME IInv, Environment
    PROVE  StepOK
<1>1. ASSUME NEW c \in wire, NEW r \in Results, MscAnswers(c, r)
      PROVE  StepOK
  <2> DEFINE o == [sms |-> c[1], attempt |-> c[2], result |-> r]
  <2>1. c \in Attempt /\ c = <<c[1], c[2]>> /\ c[1] \in Sms /\ c[2] \in 1 .. MaxAttempts
    BY DEF IInv, LinkTypes, Attempt
  <2>2. outcomes' = outcomes \cup {o} /\ (r = "Delivered" => c \in acked')
    BY <1>1 DEF MscAnswers
  <2>3. acked \subseteq acked' /\ acked' \in SUBSET Attempt /\ wire' \in SUBSET Attempt
    BY <1>1, <2>1 DEF IInv, LinkTypes, MscAnswers
  <2>4. OutcomesTrue'
    BY <2>1, <2>2, <2>3 DEF IInv, OutcomesTrue
  <2>5. LinkTypes'
    BY <1>1, <2>1, <2>2, <2>3 DEF IInv, LinkTypes, MscAnswers, sweep, stream, hub
  <2>6. TaskTypes' /\ TasksHold'
    BY <1>1 DEF IInv, TaskTypes, TasksHold, MscAnswers, task, hub
  <2>. QED
    BY <1>1, <2>3, <2>4, <2>5, <2>6, SameRows
       DEF IInv, StepOK, MemOK, MscAnswers, hub
<1>2. CASE MscLoses
  <2>1. LinkTypes' /\ OutcomesTrue'
    BY <1>2 DEF IInv, LinkTypes, OutcomesTrue, MscLoses, sweep, stream, hub
  <2>2. TaskTypes' /\ TasksHold'
    BY <1>2 DEF IInv, TaskTypes, TasksHold, MscLoses, task, hub
  <2>. QED
    BY <1>2, <2>1, <2>2, SameRows DEF IInv, StepOK, MemOK, MscLoses, hub
<1>3. ASSUME NEW a \in submits, HubAccepts(a)
      PROVE  StepOK
  <2>1. LinkTypes' /\ OutcomesTrue'
    BY <1>3 DEF IInv, LinkTypes, OutcomesTrue, HubAccepts, sweep, stream, msc
  <2>2. TaskTypes' /\ TasksHold'
    BY <1>3 DEF IInv, TaskTypes, TasksHold, HubAccepts, task
  <2>. QED
    BY <1>3, <2>1, <2>2, SameRows DEF IInv, StepOK, MemOK, HubAccepts, msc
<1>4. CASE Crash
  <2>1. LinkTypes' /\ OutcomesTrue'
    BY <1>4, ConstantsAssumption, EmptySeq
       DEF IInv, LinkTypes, OutcomesTrue, Crash, msc, hub
  <2>2. TaskTypes' /\ TasksHold'
    BY <1>4, ConstantsAssumption DEF TaskTypes, TasksHold, Crash, Steps, Plans
  <2>. QED
    BY <1>4, <2>1, <2>2, SameRows DEF IInv, StepOK, MemOK, Crash, msc, hub
<1>. QED
  BY <1>1, <1>2, <1>3, <1>4 DEF Environment

LEMMA EveryStep == IInv /\ [Next]_vars => StepOK
<1> SUFFICES ASSUME IInv, [Next]_vars
             PROVE  StepOK
  OBVIOUS
<1>1. CASE UNCHANGED vars
  <2>1. TaskTypes' /\ LinkTypes' /\ TasksHold' /\ OutcomesTrue'
    BY <1>1 DEF IInv, TaskTypes, LinkTypes, TasksHold, OutcomesTrue, vars, db, task,
                sweep, stream, msc, hub
  <2>. QED
    BY <1>1, <2>1, SameRows DEF IInv, StepOK, MemOK, vars, msc, hub
<1>2. ASSUME NEW w \in Workers, Dispatching(w)
      PROVE  StepOK
  BY <1>2, DispatchStep, ClaimStep, HandOverStep, FinishStep DEF Dispatching
<1>3. CASE Streaming
  BY <1>3, StreamStep, OutcomeStep DEF Streaming
<1>. QED
  BY <1>1, <1>2, <1>3, AcceptingStep, DequeueStep, SchedulingStep, EnvironmentStep
     DEF Next

-----------------------------------------------------------------------------
(* The theorems *)

LEMMA InitOK == Init => IInv
<1> SUFFICES ASSUME Init
             PROVE  IInv
  OBVIOUS
<1>1. \A s \in Sms : attempts[s] = <<>> /\ Latest(s) = 0
  BY DEF Init, Latest
<1>2. DbOK
  BY <1>1, MaxAgeNat, ConstantsAssumption
     DEF Init, DbOK, AttemptsMatchState, SmsState, AllKinds
<1>3. TaskTypes /\ TasksHold /\ OutcomesTrue
  BY ConstantsAssumption DEF Init, TaskTypes, TasksHold, OutcomesTrue, Steps, Plans
<1>4. LinkTypes
  BY ConstantsAssumption DEF Init, LinkTypes
<1>5. DeliveredIsAcknowledged /\ ForwardedIsOwned
  BY DEF Init, DeliveredIsAcknowledged, ForwardedIsOwned
<1>. QED
  BY <1>2, <1>3, <1>4, <1>5 DEF IInv

LEMMA StepKeeps == IInv /\ [Next]_vars => IInv'
<1> SUFFICES ASSUME IInv, [Next]_vars
             PROVE  IInv'
  OBVIOUS
<1>1. StepOK
  BY EveryStep
<1>2. DbOK'
  BY <1>1, DbStepKeeps DEF IInv, StepOK
<1>3. ASSUME NEW s \in Sms, state'[s] \in {"delivered", "forwarded"}
      PROVE  /\ Latest(s)' = Latest(s)
             /\ state'[s] = "delivered" => <<s, Latest(s)>> \in acked
             /\ state'[s] = "forwarded" => <<s, Latest(s)>> \in hubOwned
  BY <1>1, <1>3, RowSteps
     DEF IInv, StepOK, DeliveredIsAcknowledged, ForwardedIsOwned
<1>4. DeliveredIsAcknowledged' /\ ForwardedIsOwned'
  BY <1>1, <1>3 DEF StepOK, DeliveredIsAcknowledged, ForwardedIsOwned
<1>. QED
  BY <1>1, <1>2, <1>4 DEF IInv, StepOK, MemOK

LEMMA Invariance == Spec => []IInv
BY InitOK, StepKeeps, PTL DEF Spec

\* The types, and with them the bounds of the dispatch queue and of the
\* delivery channel, hold for every setting of the constants.
THEOREM TypeCorrect == Spec => []TypeOK
<1>1. IInv => TypeOK
  BY DEF IInv, DbOK, TaskTypes, LinkTypes, TypeOK
<1>. QED
  BY <1>1, Invariance, PTL

\* claim_delivery and finish_delivery keep every submission row and its attempt
\* rows consistent under any interleaving of tasks, streams and restarts.
THEOREM RowsConsistent == Spec => []AttemptsMatchState
<1>1. IInv => AttemptsMatchState
  BY DEF IInv, DbOK
<1>. QED
  BY <1>1, Invariance, PTL

\* No outcome of an abandoned attempt completes its successor.
THEOREM DeliveredMeansAcknowledged == Spec => []DeliveredIsAcknowledged
<1>1. IInv => DeliveredIsAcknowledged
  BY DEF IInv
<1>. QED
  BY <1>1, Invariance, PTL

\* A row says forwarded only when the hub accepted that very attempt.
THEOREM ForwardedMeansOwned == Spec => []ForwardedIsOwned
<1>1. IInv => ForwardedIsOwned
  BY DEF IInv
<1>. QED
  BY <1>1, Invariance, PTL

\* The database under racing tasks, streams and restarts implements the
\* lifecycle of independent messages: every step is Accept, Try or Complete of
\* one message, or changes none.
THEOREM Refinement == Spec => ImplementsLifecycle
<1>1. Init => Lifecycle!Init
  BY DEF Init, Lifecycle!Init, Latest
<1>2. IInv /\ [Next]_vars => [Lifecycle!Next]_(Lifecycle!lifecycle)
  <2> SUFFICES ASSUME IInv, [Next]_vars
               PROVE  [Lifecycle!Next]_(Lifecycle!lifecycle)
    OBVIOUS
  <2>1. DbStep /\ DbOK
    BY EveryStep DEF IInv, StepOK
  <2>2. ASSUME NEW s \in Sms, NEW k \in AllKinds, CreateSubmission(s, k)
        PROVE  Lifecycle!Accept(s)
    BY <2>2 DEF CreateSubmission, Lifecycle!Accept, Latest
  <2>3. ASSUME NEW s \in Sms, ClaimDelivery(s)
        PROVE  Lifecycle!Try(s)
    <3>1. attempts[s] \in Seq(AttemptState) /\ "paging" \in AttemptState
      BY <2>1 DEF DbOK, AttemptState
    <3>2. Len(Append(attempts[s], "paging")) = Len(attempts[s]) + 1
      BY <3>1, AppendProperties
    <3>3. \A r \in Sms : Latest(r)' = IF r = s THEN Latest(r) + 1 ELSE Latest(r)
      BY <2>1, <2>3, <3>2 DEF DbOK, ClaimDelivery, Latest
    <3>. QED
      BY <2>3, <3>3 DEF ClaimDelivery, Lifecycle!Try
  <2>4. ASSUME NEW s \in Sms, NEW n \in 1 .. MaxAttempts, NEW c \in Completions,
               FinishDelivery(s, n, c)
        PROVE  \/ Lifecycle!Complete(s, States(c)[1])
               \/ UNCHANGED Lifecycle!lifecycle
    <3>1. \A r \in Sms : Latest(r)' = Latest(r)
      BY <2>1, <2>4, FinishAttempt, ConstantsAssumption
         DEF DbOK, FinishDelivery, Latest, States, Completions, AttemptState
    <3>2. CASE Finishes(s, n)
      BY <2>4, <3>1, <3>2 DEF Finishes, FinishDelivery, Lifecycle!Complete
    <3>3. CASE ~Finishes(s, n)
      BY <2>1, <2>4, <3>1, <3>3 DEF DbOK, FinishDelivery, Lifecycle!lifecycle
    <3>. QED
      BY <3>2, <3>3
  <2>5. \A c \in Completions :
            States(c)[1] \in {"accepted", "delivered", "forwarded", "failed"}
    BY DEF Completions, States
  <2>6. CASE UNCHANGED <<state, kind, attempts>>
    BY <2>6 DEF Lifecycle!lifecycle, Latest
  <2>. QED
    BY <2>1, <2>2, <2>3, <2>4, <2>5, <2>6 DEF DbStep, Lifecycle!Next
<1>. QED
  BY <1>1, <1>2, Invariance, PTL DEF Spec, ImplementsLifecycle, Lifecycle!Spec
=============================================================================
