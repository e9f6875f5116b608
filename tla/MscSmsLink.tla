----------------------------- MODULE MscSmsLink -----------------------------
(***************************************************************************)
(* The MSC's end of the delivery stream: the task that owns the stream     *)
(* (sms_delivery.rs), the two bounded channels between it and the MSC's    *)
(* event loop, and MscSmsCoordinator (sms.rs), which pages the handset and *)
(* turns acknowledgements and timeouts into outcomes.                      *)
(*                                                                         *)
(* The event loop handles one event at a time and awaits in report() when  *)
(* the outcome channel is full; the task awaits in send() when the command *)
(* channel is full.  This is the environment SmscDelivery assumes: a       *)
(* command is answered at most once, and Delivered only when heard.        *)
(***************************************************************************)
EXTENDS Naturals, Sequences, FiniteSets

CONSTANTS
    Cmds,              \* delivery commands, one per attempt
    Traffic,           \* those with raw_user_data, delivered on a traffic channel
    CommandQueueLen,   \* COMMAND_QUEUE
    OutcomeQueueLen,   \* OUTCOME_QUEUE
    TagModulus,        \* tags are integers modulo this (2^32 in the code)
    MaxBreaks,         \* bound: times the stream breaks
    None               \* the task carries nothing

\* Within one run no tag comes round again; two are taken per command.
ASSUME LinkAssumption ==
    /\ IsFiniteSet(Cmds)
    /\ Traffic \subseteq Cmds
    /\ None \notin Cmds
    /\ CommandQueueLen \in Nat \ {0}
    /\ OutcomeQueueLen \in Nat \ {0}
    /\ TagModulus \in Nat
    /\ TagModulus > 2 * Cardinality(Cmds) + 1
    /\ MaxBreaks \in Nat

VARIABLES
    link,       \* TRUE while the stream to the SMSC is up
    breaks,
    sent,       \* commands the SMSC has put on a stream
    arriving,   \* commands on the stream, not read
    loop,       \* the task: "connect", "select", "send" or "report"
    carried,    \* the command or outcome the task is forwarding
    commands,   \* the command channel
    outcomes,   \* the outcome channel
    rt,         \* outcomes the event loop still has to report (it waits while any)
    nextTag,
    pending,    \* SmsCorrelation: records of tag and command
    staged,     \* pending_sms_traffic: records of tag and command
    air,        \* ADDS Pages at the base station
    heard,      \* history: commands a handset acknowledged
    reported    \* outcomes the SMSC received

ether == <<air, heard>>
calls == <<nextTag, pending, staged>>
smsc  == <<link, breaks, sent, arriving, reported>>
vars  == <<smsc, loop, carried, commands, outcomes, rt, calls, ether>>

Results == {"Delivered", "NotReachable", "Failed"}
Outcome == [cmd : Cmds, result : Results]
Page    == [tag : 0 .. TagModulus - 1, cmd : Cmds]

-----------------------------------------------------------------------------
(* The stream *)

\* External: the SMSC sends each attempt once (SmscDelivery's OneCarrier).
SmscSends(c) ==
    /\ link
    /\ c \notin sent
    /\ sent' = sent \cup {c}
    /\ arriving' = Append(arriving, c)
    /\ UNCHANGED <<link, breaks, reported, loop, carried, commands, outcomes, rt,
                   calls, ether>>

\* External: the stream breaks; what was already received may still be read.
LinkBreaks(n) ==
    /\ link
    /\ breaks < MaxBreaks
    /\ breaks' = breaks + 1
    /\ link' = FALSE
    /\ arriving' = SubSeq(arriving, 1, n)
    /\ UNCHANGED <<sent, reported, loop, carried, commands, outcomes, rt, calls, ether>>

-----------------------------------------------------------------------------
(* The task of sms_delivery::spawn *)

\* connect() succeeds; failures and RECONNECT_DELAY are time spent here.
Connect ==
    /\ loop = "connect"
    /\ loop' = "select"
    /\ link' = TRUE
    /\ arriving' = <<>>
    /\ UNCHANGED <<breaks, sent, reported, carried, commands, outcomes, rt, calls, ether>>

\* channel.next() yields a command.
TaskCommand ==
    /\ loop = "select"
    /\ arriving # <<>>
    /\ loop' = "send"
    /\ carried' = Head(arriving)
    /\ arriving' = Tail(arriving)
    /\ UNCHANGED <<link, breaks, sent, reported, commands, outcomes, rt, calls, ether>>

\* channel.next() yields None.
TaskNotice ==
    /\ loop = "select"
    /\ ~link /\ arriving = <<>>
    /\ loop' = "connect"
    /\ UNCHANGED <<smsc, carried, commands, outcomes, rt, calls, ether>>

\* command_tx.send(command) waits for room.
TaskForward ==
    /\ loop = "send"
    /\ Len(commands) < CommandQueueLen
    /\ commands' = Append(commands, carried)
    /\ loop' = "select"
    /\ carried' = None
    /\ UNCHANGED <<smsc, outcomes, rt, calls, ether>>


\* outcome_rx.recv() yields an outcome.
TaskOutcome ==
    /\ loop = "select"
    /\ outcomes # <<>>
    /\ loop' = "report"
    /\ carried' = Head(outcomes)
    /\ outcomes' = Tail(outcomes)
    /\ UNCHANGED <<smsc, commands, rt, calls, ether>>

\* reporter.send(outcome): on a broken stream the outcome is lost, with an error
\* that makes the task reconnect or in the reporter's own buffer.
TaskReport ==
    /\ loop = "report"
    /\ carried' = None
    /\ \/ link /\ loop' = "select" /\ reported' = reported \cup {carried}
       \/ ~link /\ loop' \in {"select", "connect"} /\ UNCHANGED reported
    /\ UNCHANGED <<link, breaks, sent, arriving, commands, outcomes, rt, calls, ether>>

-----------------------------------------------------------------------------
(* The event loop *)

\* Variant: without max(1).
AfterTagZero(t) == (t + 1) % TagModulus

\* Two alloc_tag() calls per command, the second for the page: wrapping_add(1),
\* never 0.
AfterTag(t) == IF (t + 1) % TagModulus = 0 THEN 1 ELSE (t + 1) % TagModulus

\* Variant: the counter is not advanced.
AllocTagStuck == nextTag' = nextTag

AllocTag == nextTag' = AfterTag(AfterTag(nextTag))

\* deliver_from_smsc reports at once (its identifiers are the SMSC's own and
\* always parse): a malformed target, a recipient refused or a payload too large
\* is Failed, a serving node that is not attached or does not take the page is
\* NotReachable.  The tags may have been taken before.
RtRefuse(result) ==
    /\ rt = <<>>
    /\ commands # <<>>
    /\ commands' = Tail(commands)
    /\ rt' = <<[cmd |-> Head(commands), result |-> result]>>
    /\ AllocTag \/ UNCHANGED nextTag
    /\ UNCHANGED <<smsc, loop, carried, outcomes, pending, staged, ether>>

\* deliver_from_smsc sends the ADDS Page and remembers its tag, or stages a
\* traffic channel delivery, which start_mt_sms_traffic may drop.
RtDeliver ==
    /\ rt = <<>>
    /\ commands # <<>>
    /\ commands' = Tail(commands)
    /\ AllocTag
    /\ LET page == [tag |-> AfterTag(nextTag), cmd |-> Head(commands)]
       IN  \/ /\ page.cmd \notin Traffic
              /\ pending' = pending \cup {page}
              /\ air' = air \cup {page}
              /\ UNCHANGED staged
           \/ /\ page.cmd \in Traffic
              /\ staged' = staged \cup {page} \/ UNCHANGED staged
              /\ UNCHANGED <<pending, air>>
    /\ UNCHANGED <<smsc, loop, carried, outcomes, rt, heard>>

\* Assignment Complete: the page goes out on the traffic channel, or fails to.
RtAssigned(page) ==
    /\ rt = <<>>
    /\ page \in staged
    /\ staged' = staged \ {page}
    /\ \/ pending' = pending \cup {page} /\ air' = air \cup {page}
       \/ UNCHANGED <<pending, air>>
    /\ UNCHANGED <<smsc, loop, carried, commands, outcomes, rt, nextTag, heard>>

\* handle_adds_page_ack: the correlation of the tag is removed and reported; an
\* ack without one is dropped.
RtAck(page, ok) ==
    /\ rt = <<>>
    /\ page \in air
    /\ air' = air \ {page}
    /\ heard' = IF ok THEN heard \cup {page.cmd} ELSE heard
    /\ LET found == {p \in pending : p.tag = page.tag}
       IN  /\ pending' = pending \ found
           /\ \/ found = {} /\ UNCHANGED rt
              \/ \E p \in found :
                    rt' = <<[cmd |-> p.cmd,
                             result |-> IF ok THEN "Delivered" ELSE "NotReachable"]>>
    /\ UNCHANGED <<smsc, loop, carried, commands, outcomes, nextTag, staged>>

\* Variant: an entry is kept while its page is at the base station.
ExpireAnswered(order) ==
    /\ rt = <<>>
    /\ \A i \in 1 .. Len(order) : order[i] \notin air
    /\ rt' = [i \in 1 .. Len(order) |-> [cmd |-> order[i].cmd, result |-> "NotReachable"]]
    /\ pending' = pending \ {order[i] : i \in 1 .. Len(order)}
    /\ UNCHANGED <<smsc, loop, carried, commands, outcomes, nextTag, staged, ether>>

\* Variant: the entry stays for a late acknowledgement.
ExpireKeeps(order) ==
    /\ rt = <<>>
    /\ rt' = [i \in 1 .. Len(order) |-> [cmd |-> order[i].cmd, result |-> "NotReachable"]]
    /\ UNCHANGED <<smsc, loop, carried, commands, outcomes, calls, ether>>

\* expire_pending: the entries older than the timeout are removed and reported
\* one after the other, in the map's order.
RtExpire(order) ==
    /\ rt = <<>>
    /\ rt' = [i \in 1 .. Len(order) |-> [cmd |-> order[i].cmd, result |-> "NotReachable"]]
    /\ pending' = pending \ {order[i] : i \in 1 .. Len(order)}
    /\ UNCHANGED <<smsc, loop, carried, commands, outcomes, nextTag, staged, ether>>

\* outcomes.send(outcome) waits for room.
RtReport ==
    /\ rt # <<>>
    /\ Len(outcomes) < OutcomeQueueLen
    /\ outcomes' = Append(outcomes, Head(rt))
    /\ rt' = Tail(rt)
    /\ UNCHANGED <<smsc, loop, carried, commands, calls, ether>>

\* External: the base station never answers a page.
PageLost(page) ==
    /\ page \in air
    /\ air' = air \ {page}
    /\ UNCHANGED <<smsc, loop, carried, commands, outcomes, rt, calls, heard>>

-----------------------------------------------------------------------------
Init ==
    /\ link = TRUE
    /\ breaks = 0
    /\ sent = {}
    /\ arriving = <<>>
    /\ loop = "select"
    /\ carried = None
    /\ commands = <<>>
    /\ outcomes = <<>>
    /\ rt = <<>>
    /\ nextTag \in {1, TagModulus - 2}  \* at the start, or about to wrap
    /\ pending = {}
    /\ staged = {}
    /\ air = {}
    /\ heard = {}
    /\ reported = {}

Task == Connect \/ TaskCommand \/ TaskNotice \/ TaskForward \/ TaskOutcome \/ TaskReport

TakeCommand == RtDeliver \/ \E result \in {"NotReachable", "Failed"} : RtRefuse(result)

\* The orders in which a nonempty part of pending may expire.
Expiring == {order \in UNION {[1 .. n -> pending] : n \in 1 .. Cardinality(pending)} :
                 \A i, j \in DOMAIN order : order[i] = order[j] => i = j}

Next ==
    \/ \E c \in Cmds : SmscSends(c)
    \/ \E n \in 0 .. Len(arriving) : LinkBreaks(n)
    \/ Task
    \/ TakeCommand
    \/ \E page \in staged : RtAssigned(page)
    \/ \E page \in air, ok \in BOOLEAN : RtAck(page, ok)
    \/ \E order \in Expiring : RtExpire(order)
    \/ RtReport
    \/ \E page \in air : PageLost(page)

\* The task and the event loop run whenever they can, and every pending entry
\* reaches its timeout; acknowledgements and assignments may fail to come.
Spec ==
    /\ Init /\ [][Next]_vars
    /\ WF_vars(Task)
    /\ WF_vars(TakeCommand)
    /\ WF_vars(RtReport)
    /\ \A c \in Cmds :
           WF_vars(\E order \in Expiring :
                       /\ \E i \in 1 .. Len(order) : order[i].cmd = c
                       /\ RtExpire(order))

-----------------------------------------------------------------------------
TypeOK ==
    /\ link \in BOOLEAN
    /\ breaks \in 0 .. MaxBreaks
    /\ sent \subseteq Cmds
    /\ arriving \in Seq(Cmds)
    /\ loop \in {"connect", "select", "send", "report"}
    /\ carried \in Cmds \cup Outcome \cup {None}
    /\ commands \in Seq(Cmds) /\ Len(commands) <= CommandQueueLen
    /\ outcomes \in Seq(Outcome) /\ Len(outcomes) <= OutcomeQueueLen
    /\ rt \in Seq(Outcome)
    /\ nextTag \in 1 .. TagModulus - 1
    /\ pending \subseteq Page
    /\ staged \subseteq Page
    /\ air \subseteq Page
    /\ heard \subseteq Cmds
    /\ reported \subseteq Outcome

\* Where command c is on its way from the stream to its outcome.
Places(c) ==
    {<<"arriving", i>> : i \in {j \in 1 .. Len(arriving) : arriving[j] = c}}
    \cup {<<"send", 0>> : x \in {c} \cap {carried}}
    \cup {<<"commands", i>> : i \in {j \in 1 .. Len(commands) : commands[j] = c}}
    \cup {<<"pending", p>> : p \in {q \in pending : q.cmd = c}}
    \cup {<<"staged", p>> : p \in {q \in staged : q.cmd = c}}
    \cup {<<"rt", i>> : i \in {j \in 1 .. Len(rt) : rt[j].cmd = c}}
    \cup {<<"outcomes", i>> : i \in {j \in 1 .. Len(outcomes) : outcomes[j].cmd = c}}
    \cup {<<"report", 0>> : x \in IF loop = "report" THEN {c} \cap {carried.cmd} ELSE {}}
    \cup {<<"reported", o>> : o \in {q \in reported : q.cmd = c}}

\* Every command has one fate: it is at one place at most, so it is reported at
\* most once, and a late ADDS Page Ack adds nothing to the timeout already
\* reported (pending.remove in sms.rs).
OneFate == \A c \in Cmds : \A p, q \in Places(c) : p = q

\* Delivered is reported only for a command whose handset acknowledged: a tag
\* never leads to another command's correlation, also when it wraps (alloc_tag).
DeliveredOnlyIfHeard ==
    \A o \in reported \cup {rt[i] : i \in 1 .. Len(rt)}
                      \cup {outcomes[i] : i \in 1 .. Len(outcomes)} :
        o.result = "Delivered" => o.cmd \in heard


\* Every command that needs no traffic channel is answered while the stream
\* holds: by an acknowledgement, a refusal, or the timeout of expire_pending.
Answered ==
    \A c \in Cmds \ Traffic :
        c \in sent ~> breaks > 0 \/ \E o \in reported : o.cmd = c
=============================================================================
