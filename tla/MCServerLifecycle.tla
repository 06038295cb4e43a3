-------------------------- MODULE MCServerLifecycle --------------------------
(***************************************************************************)
(* Instances of ServerLifecycle for TLC: two threads that race in stop(),  *)
(* one connection or two, one bind and a second one after the first server *)
(* was stopped, two requests per connection.                               *)
(***************************************************************************)
EXTENDS ServerLifecycle, TLC

CONSTANTS k1, k2, s1, s2, w1, f1, f2

OneConn == {k1}
TwoConns == {k1, k2}
OneStopper == {s1}
TwoStoppers == {s1, s2}
OneWaiter == {w1}
NoWaiters == {}
OneFd == {f1}
TwoFds == {f1, f2}

SafetySymmetry ==
    Permutations(Conns) \cup Permutations(Stoppers) \cup Permutations(Fds)
=============================================================================
