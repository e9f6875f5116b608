------------------------------ MODULE SmscSweep ------------------------------
(***************************************************************************)
(* The pagination of the SMSC's Scheduler (scheduler.rs) and what it means *)
(* for progress.  retry_sweep and recover_stuck walk list_submissions, the *)
(* newest row first, with an offset that grows by the rows seen, while the *)
(* rows they handle leave the listed state under the walk and come back as *)
(* the MSC answers.  SmscDelivery shows which steps a row can take; here a *)
(* delivery is one step and the order of the rows is what matters.         *)
(***************************************************************************)
EXTENDS Naturals, Sequences

CONSTANTS
    Rows,         \* the stored submissions, newest first (ORDER BY created_at DESC)
    Reachable,    \* those whose handset answers
    PageSize,     \* PAGE_SIZE
    RetryAfter,   \* retry_after, in sweep intervals (by default 1)
    StaleAfter    \* stale_after, in sweep intervals

Ids == {Rows[i] : i \in 1 .. Len(Rows)}

ASSUME SweepAssumption ==
    /\ \A i, j \in 1 .. Len(Rows) : Rows[i] = Rows[j] => i = j
    /\ Reachable \subseteq Ids
    /\ PageSize \in Nat \ {0}
    /\ RetryAfter \in Nat \ {0}
    /\ StaleAfter \in Nat

VARIABLES
    state,    \* "accepted", "paging" or "delivered"
    failed,   \* whether the row has a (failed) attempt behind it
    age,      \* ticks since the latest attempt was last updated: an attempt that
              \* has seen n ticks is more than n - 1 intervals old
    lost,     \* paging rows whose command or outcome is lost
    phase,    \* "tick", "recover" or "sweep"
    offset,   \* rows seen in this walk
    total,    \* matching rows when the current page was listed
    page      \* the rest of the current page; "list" before it is read

vars == <<state, failed, age, lost, phase, offset, total, page>>

MaxAge == 1 + (IF RetryAfter > StaleAfter THEN RetryAfter ELSE StaleAfter)

Older == [s \in Ids |-> IF age[s] < MaxAge THEN age[s] + 1 ELSE age[s]]

Init ==
    /\ state = [s \in Ids |-> "accepted"]
    /\ failed \in [Ids -> BOOLEAN]
    /\ age = [s \in Ids |-> 0]
    /\ lost = {}
    /\ phase = "tick"
    /\ offset = 0
    /\ total = 0
    /\ page = <<"list">>

\* The interval elapses: recover_stuck begins at offset 0.
Tick ==
    /\ phase = "tick"
    /\ phase' = "recover"
    /\ age' = Older
    /\ offset' = 0
    /\ page' = <<"list">>
    /\ UNCHANGED <<state, failed, lost, total>>

Matching ==
    SelectSeq(Rows, LAMBDA s : state[s] = IF phase = "recover" THEN "paging"
                                                              ELSE "accepted")

\* Variant: the offset grows by the page size, not by the rows seen.
ListFixedStride ==
    /\ phase # "tick"
    /\ page = <<"list">>
    /\ total' = Len(Matching)
    /\ page' = SubSeq(Matching, offset + 1,
                      IF offset + PageSize < Len(Matching) THEN offset + PageSize
                                                           ELSE Len(Matching))
    /\ offset' = offset + PageSize
    /\ UNCHANGED <<state, failed, age, lost, phase>>

\* list_submissions(PAGE_SIZE, offset, ..): LIMIT and OFFSET over the rows that
\* match now; the walk ends past the total or at an empty page.
ListPage ==
    /\ phase # "tick"
    /\ page = <<"list">>
    /\ total' = Len(Matching)
    /\ page' = SubSeq(Matching, offset + 1,
                      IF offset + PageSize < Len(Matching) THEN offset + PageSize
                                                           ELSE Len(Matching))
    /\ offset' = offset + Len(page')
    /\ UNCHANGED <<state, failed, age, lost, phase>>

\* After the last row of a page: the next page, or the end of the walk.
EndPage(rest) ==
    IF rest # <<>>
    THEN page' = rest /\ UNCHANGED <<phase, offset>>
    ELSE /\ page' = <<"list">>
         /\ IF offset >= total
            THEN /\ phase' = IF phase = "recover" THEN "sweep" ELSE "tick"
                 /\ offset' = 0
            ELSE UNCHANGED <<phase, offset>>

EmptyPage ==
    /\ page = <<>>
    /\ phase' = IF phase = "recover" THEN "sweep" ELSE "tick"
    /\ offset' = 0
    /\ page' = <<"list">>
    /\ UNCHANGED <<state, failed, age, lost, total>>

Visiting == phase # "tick" /\ page \notin {<<"list">>, <<>>}


\* recover_stuck: a delivery paging beyond stale_after goes back to accepted.
RecoverRow ==
    /\ Visiting /\ phase = "recover"
    /\ LET s == Head(page)
           stuck == state[s] = "paging" /\ age[s] > StaleAfter
       IN  /\ state' = [state EXCEPT ![s] = IF stuck THEN "accepted" ELSE @]
           /\ failed' = [failed EXCEPT ![s] = stuck \/ @]
           /\ age' = [age EXCEPT ![s] = IF stuck THEN 0 ELSE @]
           /\ lost' = IF stuck THEN lost \ {s} ELSE lost
    /\ EndPage(Tail(page))
    /\ UNCHANGED total


\* retry_sweep: a row never attempted, or failed before the cutoff, is
\* dispatched; the delivery stream takes the command and the row is paging.
RetryRow ==
    /\ Visiting /\ phase = "sweep"
    /\ LET s == Head(page)
           due == /\ state[s] = "accepted"
                  /\ ~failed[s] \/ age[s] > RetryAfter
       IN  /\ state' = [state EXCEPT ![s] = IF due THEN "paging" ELSE @]
           /\ age' = [age EXCEPT ![s] = IF due THEN 0 ELSE @]
           /\ EndPage(Tail(page))
    /\ UNCHANGED <<failed, lost, total>>

\* External: the MSC reports Delivered for a handset that answers and
\* NotReachable for one that does not.
Answer(s) ==
    /\ state[s] = "paging"
    /\ s \notin lost
    /\ state' = [state EXCEPT ![s] = IF s \in Reachable THEN "delivered" ELSE "accepted"]
    /\ failed' = [failed EXCEPT ![s] = TRUE]
    /\ age' = [age EXCEPT ![s] = 0]
    /\ UNCHANGED <<lost, phase, offset, total, page>>

\* External: the MSC dies with the command of an unreachable handset.
Lose(s) ==
    /\ state[s] = "paging"
    /\ s \notin lost \cup Reachable
    /\ lost' = lost \cup {s}
    /\ UNCHANGED <<state, failed, age, phase, offset, total, page>>

Scheduler == Tick \/ ListPage \/ EmptyPage \/ RecoverRow \/ RetryRow

Next ==
    \/ Scheduler
    \/ \E s \in Ids : Answer(s)
    \/ \E s \in Ids : Lose(s)

\* The Scheduler's task keeps running, and the MSC answers what is not lost.
Spec ==
    /\ Init /\ [][Next]_vars
    /\ WF_vars(Scheduler)
    /\ \A s \in Ids : WF_vars(Answer(s))

-----------------------------------------------------------------------------
TypeOK ==
    /\ state \in [Ids -> {"accepted", "paging", "delivered"}]
    /\ failed \in [Ids -> BOOLEAN]
    /\ age \in [Ids -> 0 .. MaxAge]
    /\ lost \subseteq Ids
    /\ phase \in {"tick", "recover", "sweep"}
    /\ offset \in 0 .. Len(Rows)
    /\ total \in 0 .. Len(Rows)
    /\ page = <<"list">> \/ page \in Seq(Ids)

\* "The retry sweep drains messages beyond this queue's capacity"
\* (dispatcher.rs): every accepted message is dispatched in the end, however
\* many newer ones the sweep finds and gets back.
Drains == \A s \in Ids : state[s] = "accepted" ~> state[s] # "accepted"

=============================================================================
