------------------------------ MODULE Handoff ------------------------------
(***************************************************************************)
(* What hinted handoff does with each hint, without lists, copies, locks,  *)
(* errors or records on disk.  A hint accepted for a peer waits for it,    *)
(* and is sent to it with success at most once, while Deliver is working   *)
(* for that peer and not later than HintTTL after it was accepted.  (A     *)
(* Put that reports an error may have reached the peer all the same.)  A   *)
(* hint that never arrives is lost in one of three ways, and then for      *)
(* good: it grew too old, it was waiting when the process stopped, or it   *)
(* was accepted for the very peer Deliver was working for.                 *)
(***************************************************************************)
EXTENDS Integers

CONSTANTS Peers, NoPeer, HintTTL

VARIABLES
    now,        \* the clock
    accepted,   \* how many hints were accepted
    busy,       \* the peer Deliver is working for, or NoPeer
    waiting,    \* for each peer, the hints that may still reach it
    arrived     \* the hints that were sent with success

vars == <<now, accepted, busy, waiting, arrived>>

Init == /\ now = 0 /\ accepted = 0 /\ busy = NoPeer
        /\ waiting = [p \in Peers |-> {}] /\ arrived = {}

Tick == now' = now + 1 /\ UNCHANGED <<accepted, busy, waiting, arrived>>

Accept(p) ==
    /\ accepted' = accepted + 1
    /\ waiting' = IF p = busy THEN waiting     \* lost when Deliver ends
                  ELSE [waiting EXCEPT ![p] = @ \cup {[id |-> accepted + 1, at |-> now]}]
    /\ UNCHANGED <<now, busy, arrived>>

Begin(p) == busy = NoPeer /\ busy' = p /\ UNCHANGED <<now, accepted, waiting, arrived>>

End == busy \in Peers /\ busy' = NoPeer /\ UNCHANGED <<now, accepted, waiting, arrived>>

Leave(h) == waiting' = [waiting EXCEPT ![busy] = @ \ {h}]

Deliver(h) ==
    /\ now - h.at <= HintTTL /\ h.id \notin arrived
    /\ arrived' = arrived \cup {h.id}
    /\ Leave(h) /\ UNCHANGED <<now, accepted, busy>>

Expire(h) ==
    /\ now - h.at > HintTTL
    /\ Leave(h) /\ UNCHANGED <<now, accepted, busy, arrived>>

Restart == /\ waiting' = [p \in Peers |-> {}] /\ busy' = NoPeer
           /\ UNCHANGED <<now, accepted, arrived>>

Next == \/ Tick \/ End \/ Restart
        \/ \E p \in Peers : Accept(p) \/ Begin(p)
        \/ busy \in Peers /\ \E h \in waiting[busy] : Deliver(h) \/ Expire(h)

Spec == Init /\ [][Next]_vars
=============================================================================
