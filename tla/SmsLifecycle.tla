---------------------------- MODULE SmsLifecycle ----------------------------
(***************************************************************************)
(* What the SMSC promises of a message, whoever carries it: a stored       *)
(* message is tried, one attempt at a time; an attempt returns it for a    *)
(* further one or completes it; a completed message is never touched       *)
(* again.  The states are those of SmsState the delivery path uses.        *)
(***************************************************************************)
EXTENDS Naturals

CONSTANT Sms

VARIABLES
    state,   \* the state of each message
    tries    \* attempts made so far

lifecycle == <<state, tries>>

Accept(s) ==
    /\ state[s] = "absent"
    /\ state' = [state EXCEPT ![s] = "accepted"]
    /\ UNCHANGED tries

Try(s) ==
    /\ state[s] = "accepted"
    /\ state' = [state EXCEPT ![s] = "paging"]
    /\ tries' = [tries EXCEPT ![s] = @ + 1]

Complete(s, outcome) ==
    /\ state[s] = "paging"
    /\ state' = [state EXCEPT ![s] = outcome]
    /\ UNCHANGED tries

Init ==
    /\ state = [s \in Sms |-> "absent"]
    /\ tries = [s \in Sms |-> 0]

Next ==
    \E s \in Sms :
        \/ Accept(s)
        \/ Try(s)
        \/ \E outcome \in {"accepted", "delivered", "forwarded", "failed"} :
               Complete(s, outcome)

Spec == Init /\ [][Next]_lifecycle
=============================================================================
