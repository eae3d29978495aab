-------------------------- MODULE MCHttpConnector --------------------------
(* Four requests of one user, in the mixes that share something. *)
EXTENDS HttpConnector

CONSTANTS r1, r2, r3, r4, u1, t1, t2, n1, n2

MCRequests == {r1, r2, r3, r4}
MCUsers == {u1}
MCInvites == {t1, t2}
MCNames == {n1, n2}

Mix(a, b, c, d) ==
  [r \in MCRequests |-> CASE r = r1 -> a [] r = r2 -> b [] r = r3 -> c [] r = r4 -> d]

MCWorkloads ==
  {Mix("message", "message", "history", "events"), Mix("message", "stream", "events", "events"),
   Mix("stream", "stream", "cancel", "events"), Mix("message", "history", "history", "events"),
   Mix("register", "register", "register", "stream")}
=============================================================================
