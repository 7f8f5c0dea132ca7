---------------------------- MODULE MCDispatcher ----------------------------
(* Teams of processes for TLC: three at a time, every kind of operation    *)
(* against every other kind.                                               *)
EXTENDS Dispatcher

CONSTANTS x, y, z, g1, g2, g3

Do(k, s) == [kind |-> k, progs |-> s]
Team(jx, jy, jz) == [p \in Procs |-> CASE p = x -> jx [] p = y -> jy [] p = z -> jz]

MCJobs ==
  LET a12 == Do("attach", {g1, g2})
      a1 == Do("attach", {g1})  a2 == Do("attach", {g2})  a3 == Do("attach", {g3})
      d1 == Do("detach", {g1})  d3 == Do("detach", {g3})  s3 == Do("single", {g3})
      all == Do("detachall", {})  clean == Do("clean", {})
  IN {Team(a1, a2, a3), Team(a1, a2, d1), Team(a1, a2, all), Team(a1, a2, clean),
      Team(a1, d1, all), Team(a1, all, clean), Team(a1, d1, clean),
      Team(a12, a3, d1), Team(a12, d1, all), Team(a12, d1, clean),
      Team(a1, s3, d3), Team(a1, s3, all)}
=============================================================================
