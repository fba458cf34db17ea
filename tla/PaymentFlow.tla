---------------------------- MODULE PaymentFlow ----------------------------
(***************************************************************************)
(* What the webhook processor promises of the history of payments, with    *)
(* the queue, the batches, the retries and the order of the writes left    *)
(* out: events are appended one at a time, each one that may come after    *)
(* the last, until the retention period makes the oldest go.               *)
(***************************************************************************)
EXTENDS Sequences, Naturals

CONSTANTS
  Code,            \* the payments
  WebhookEvent,    \* the events
  NoEvent,         \* the "event" before the first one
  MayFollow(_, _)  \* MayFollow(last, event): event may come after last

VARIABLES
  history,   \* history[c]: the processed events of c, oldest first
  forgotten  \* TRUE once old events were dropped

Last(h) == IF h = <<>> THEN NoEvent ELSE h[Len(h)]

Init ==
  /\ history = [c \in Code |-> <<>>]
  /\ forgotten = FALSE

\* A handler decides before it writes: the event it decided after may have
\* been dropped in the meantime, and the history may be empty again.
Advance(c, event) ==
  /\ \/ MayFollow(Last(history[c]), event)
     \/ forgotten /\ history[c] = <<>>
  /\ history' = [history EXCEPT ![c] = Append(@, event)]
  /\ UNCHANGED forgotten

Forget(c) ==
  /\ \E n \in 0 .. Len(history[c]) :
       history' = [history EXCEPT ![c] = SubSeq(@, n + 1, Len(@))]
  /\ forgotten' = TRUE

Next ==
  \E c \in Code : Forget(c) \/ \E event \in WebhookEvent : Advance(c, event)

Spec == Init /\ [][Next]_<<history, forgotten>>
=============================================================================
