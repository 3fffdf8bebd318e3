----------------------------- MODULE WorkQueue ------------------------------
(***************************************************************************)
(* What a subscription, a queue or a consumer group promises to whoever    *)
(* put an item into it, however it is delivered, repeated or shared out:   *)
(* only what was put in is handled, it is forgotten only after it has been *)
(* handled, and what is forgotten stays so.  It does not promise that an   *)
(* item is handled once.                                                   *)
(***************************************************************************)
CONSTANT Item

VARIABLES
  sent,     \* items the queue has taken
  handled,  \* items handled at least once
  gone      \* items the queue has forgotten

queue == <<sent, handled, gone>>

Init == sent = {} /\ handled = {} /\ gone = {}

Send(i) ==
  /\ i \notin sent
  /\ sent' = sent \union {i}
  /\ UNCHANGED <<handled, gone>>

\* One item, or all that are older than a consumer that joins without an offset.
Handle(items) ==
  /\ items \subseteq sent \ gone
  /\ handled' = handled \union items
  /\ UNCHANGED <<sent, gone>>

Forget(items) ==
  /\ items \subseteq handled
  /\ gone' = gone \union items
  /\ UNCHANGED <<sent, handled>>

\* An ack that is sent in the step that ends the handler.
HandleAndForget(i) ==
  /\ i \in sent \ gone
  /\ handled' = handled \union {i}
  /\ gone' = gone \union {i}
  /\ UNCHANGED sent

Next ==
  \/ \E i \in Item : Send(i) \/ HandleAndForget(i)
  \/ \E items \in SUBSET Item : Handle(items) \/ Forget(items)

Spec == Init /\ [][Next]_queue
=============================================================================
