---------------------------- MODULE QueryClient ----------------------------
(***************************************************************************)
(* What the dashboard's pages use of the query library (@tanstack/         *)
(* react-query, configured in dashboard/src/App.jsx): a query keeps the    *)
(* last data it received while it fetches again.  A fetch is sent, read by *)
(* the server, and answered; the client never looks at the answer of one   *)
(* it has cancelled.  data and answer are <<>>, or <<d>> with what the     *)
(* server had.                                                             *)
(***************************************************************************)

(* A query as its page mounts: nothing received, the first fetch sent.     *)
Mounted == [data |-> <<>>, fetch |-> "sent", answer |-> <<>>, failed |-> FALSE]

(* A query whose data has been received.                                   *)
Loaded(d) == [data |-> <<d>>, fetch |-> "idle", answer |-> <<>>, failed |-> FALSE]

Fetching(q) == q.fetch # "idle"
HasData(q) == q.data # <<>>
DataOf(q) == q.data[1]

(* refetchInterval: joins the fetch that is under way.                     *)
Polled(q) == IF Fetching(q) THEN q ELSE [q EXCEPT !.fetch = "sent"]

(* invalidateQueries, refetch: a fetch under way is cancelled and another  *)
(* sent; only the very first, which has no data to fall back to, goes on.  *)
Invalidated(q) ==
    IF HasData(q) THEN [q EXCEPT !.fetch = "sent", !.answer = <<>>] ELSE Polled(q)

(* A fetch goes on, when the server has d: it is read, it arrives, or it   *)
(* has failed, and so has the retry.                                       *)
Progress(q, d) ==
    LET failed == [q EXCEPT !.fetch = "idle", !.answer = <<>>, !.failed = TRUE]
    IN  CASE q.fetch = "idle" -> {}
          [] q.fetch = "sent" -> {failed, [q EXCEPT !.fetch = "read", !.answer = <<d>>]}
          [] q.fetch = "read" -> {failed, Loaded(q.answer[1])}
=============================================================================
