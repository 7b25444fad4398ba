---------------------------- MODULE DeliveryPromise ----------------------------
(***************************************************************************)
(* What the customer is promised about the delivery of one event to one    *)
(* endpoint (workers/customer-webhooks, "at-least-once, and honest about   *)
(* it"): once accepted it is owed; it is requested a bounded number of     *)
(* times, only while it is owed; it counts as kept only if the endpoint    *)
(* acknowledged a request; and it does not stay owed for ever.             *)
(***************************************************************************)
EXTENDS Naturals

CONSTANTS Deliveries, MaxRequests

VARIABLES
    promise,        \* none, owed, kept or given_up, per delivery
    sent,           \* the requests made, per delivery
    acked           \* the deliveries an endpoint answered with 2xx

vars == << promise, sent, acked >>

Init ==
    /\ promise = [ d \in Deliveries |-> "none" ]
    /\ sent = [ d \in Deliveries |-> 0 ]
    /\ acked = {}

Accept(d) ==
    /\ promise[d] = "none"
    /\ promise' = [promise EXCEPT ![d] = "owed"]
    /\ UNCHANGED << sent, acked >>

(* The endpoint may acknowledge; whether the answer arrives is another     *)
(* matter.                                                                 *)
Request(d) ==
    /\ promise[d] = "owed"
    /\ sent[d] < MaxRequests
    /\ sent' = [sent EXCEPT ![d] = @ + 1]
    /\ acked' \in { acked, acked \cup {d} }
    /\ UNCHANGED promise

Keep(d) ==
    /\ promise[d] = "owed"
    /\ d \in acked
    /\ promise' = [promise EXCEPT ![d] = "kept"]
    /\ UNCHANGED << sent, acked >>

GiveUp(d) ==
    /\ promise[d] = "owed"
    /\ promise' = [promise EXCEPT ![d] = "given_up"]
    /\ UNCHANGED << sent, acked >>

Next ==
    \E d \in Deliveries : Accept(d) \/ Request(d) \/ Keep(d) \/ GiveUp(d)

Spec == Init /\ [][Next]_vars

(* Nothing stays owed.                                                     *)
Settles ==
    \A d \in Deliveries : promise[d] = "owed" ~> promise[d] # "owed"

=============================================================================
