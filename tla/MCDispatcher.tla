---------------------------- MODULE MCDispatcher ----------------------------
(* Dispatcher for TLC: a session is created and then used and destroyed by *)
(* operations of every kind in every order; a second session shows what    *)
(* destroying the first leaves alone.                                      *)
EXTENDS Dispatcher

MCOps == 1 .. 4

Job(k, s) == [kind |-> k, sess |-> s]

\* In turn: two users of a session when it is destroyed; a WebSocket that the
\* client closes while its session is destroyed; a request and a WebSocket that
\* may come too late; a session destroyed twice under a request; another session.
MCPlans == {
  <<Job("create", "s"), Job("request", "s"), Job("plain", "s"), Job("destroy", "s")>>,
  <<Job("create", "s"), Job("ws", "s"), Job("destroy", "s"), Job("plain", "t")>>,
  <<Job("create", "s"), Job("destroy", "s"), Job("request", "s"), Job("ws", "s")>>,
  <<Job("create", "s"), Job("request", "s"), Job("destroy", "s"), Job("destroy", "s")>>,
  <<Job("create", "s"), Job("create", "t"), Job("plain", "t"), Job("destroy", "s")>>}
=============================================================================
