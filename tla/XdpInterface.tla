---------------------------- MODULE XdpInterface ----------------------------
(***************************************************************************)
(* What libxdp promises about the programs of a network interface          *)
(* (lib/xdp-tools/lib/libxdp/protocol.org, "Atomic replace and retry"):    *)
(* each attach or detach takes effect in one step, at most once, on the    *)
(* set of programs that is there at that moment; an operation that has not *)
(* taken effect leaves no trace when it fails.                             *)
(***************************************************************************)
CONSTANTS
  Procs, Jobs,
  Fits(_)       \* a dispatcher can hold these programs

VARIABLES
  job,          \* what each process is asked to do
  configured,   \* the programs the interface runs
  exclusive,    \* they are one program attached without a dispatcher
  effect,       \* processes whose operation has taken effect
  result        \* pending, ok, failed or crashed

absVars == <<job, configured, exclusive, effect, result>>

Init ==
  /\ job \in Jobs
  /\ configured = {} /\ exclusive = FALSE
  /\ effect = {} /\ result = [p \in Procs |-> "pending"]

Attach(p) ==
  /\ job[p].kind \in {"attach", "single"} /\ ~exclusive
  /\ IF job[p].kind = "single" THEN configured = {}
                    ELSE Fits(configured \cup job[p].progs)
  /\ configured' = configured \cup job[p].progs
  /\ exclusive' = (job[p].kind = "single")

Detach(p) ==
  /\ job[p].kind = "detach" /\ job[p].progs \subseteq configured
  /\ configured' = configured \ job[p].progs
  /\ exclusive' = FALSE

DetachAll(p) ==
  /\ job[p].kind = "detachall"
  /\ configured' = {} /\ exclusive' = FALSE

(* The operation of p takes effect.                                        *)
Apply(p) ==
  /\ result[p] = "pending" /\ p \notin effect
  /\ Attach(p) \/ Detach(p) \/ DetachAll(p)
  /\ effect' = effect \cup {p}
  /\ UNCHANGED result

(* It returns.  0 means it has taken effect; an attach that returns an     *)
(* error has not.  A detach may also fail after its effect, when the pins  *)
(* it wants to remove are gone.  A process may die at any time.            *)
Return(p, r) ==
  /\ result[p] = "pending"
  /\ result' = [result EXCEPT ![p] = r]
  /\ r = "ok" => p \in effect \/ job[p].kind = "clean"
  /\ r = "failed" /\ job[p].kind \in {"attach", "single"} => p \notin effect
  /\ UNCHANGED <<configured, exclusive, effect>>

Next ==
  /\ UNCHANGED job
  /\ \E p \in Procs : Apply(p) \/ \E r \in {"ok", "failed", "crashed"} : Return(p, r)

Spec == Init /\ [][Next]_absVars
=============================================================================
