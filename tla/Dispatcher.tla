----------------------------- MODULE Dispatcher -----------------------------
(***************************************************************************)
(* Attaching and detaching XDP programs through the dispatcher of libxdp   *)
(* (lib/xdp-tools/lib/libxdp/libxdp.c), which load_bpf_and_xdp_attach and  *)
(* the xdp-loader of the test environment call.  Processes work on one     *)
(* interface; they share the kernel's attachment, the directories below    *)
(* /sys/fs/bpf/xdp and a lock on that directory (flock, which the kernel   *)
(* releases when a process dies).                                          *)
(*                                                                         *)
(* An operation reads the attached dispatcher and its programs, builds a   *)
(* new dispatcher, pins its links, swaps the two and unpins the old one.   *)
(* The kernel compares the attached program with the one expected when it  *)
(* swaps; nothing else protects the sequence.  The dispatcher that p       *)
(* builds at its n-th try is <<p, n>>.                                     *)
(***************************************************************************)
EXTENDS Integers, FiniteSets

CONSTANTS
  Procs,        \* processes, one operation each
  Programs,
  Jobs,         \* what the processes may be asked to do
  MaxActions,   \* MAX_DISPATCHER_ACTIONS, 10
  MaxRetry,     \* MAX_RETRY, 10
  MaxCrashes,   \* bound of the model: processes that die
  None

Ids == Procs \X (0..MaxRetry)

(* An operation and its programs; "single" is an attach without dispatcher *)
(* (LIBXDP_SKIP_DISPATCHER, or a kernel that cannot do better).            *)
Job == [kind : {"attach", "single", "detach", "detachall", "clean"},
        progs : SUBSET Programs]

ASSUME DispatcherAssumption ==
  /\ MaxRetry \in Nat /\ MaxActions \in Nat /\ MaxCrashes \in Nat
  /\ Jobs \subseteq [Procs -> Job]
  /\ None \notin Ids /\ None \notin Procs

VARIABLES
  job, pc,
  attached,   \* the interface's program: an id, or None
  comps,      \* comps[i]: the programs linked into dispatcher i
  pins,       \* pins[i]: those whose link and prog files are in its directory
  dirs,       \* ids whose directory dispatch-<ifindex>-<id> exists
  lock,       \* the process that holds the flock, or None
  cand,       \* id of get_from_ifindex, not reset when it tries again
  old,        \* dispatcher read, whose fd is held
  oldProgs,   \* its programs
  legacy,     \* it was taken for a program without dispatcher
  new,        \* dispatcher built, whose fds are held
  left,       \* programs still to unpin
  visit,      \* directories still to clean
  getRetry, retry,  \* the two retry counters
  err,
  effect,     \* history: processes whose swap succeeded
  swept,      \* history: ids whose directory a clean removed
  overlapped  \* history: processes during which another one changed the interface

sharedVars == <<attached, comps, pins, dirs, lock>>
readVars == <<cand, old, oldProgs, legacy, getRetry>>
history == <<effect, swept, overlapped>>
vars == <<job, pc, sharedVars, readVars, new, left, visit, retry, err, history>>

NewId(p) == <<p, retry[p]>>
IsDispatcher(i) == job[i[1]].kind # "single"
Attaches(p) == job[p].kind \in {"attach", "single"}
Ended == {"ok", "failed", "crashed"}

Init ==
  /\ job \in Jobs
  /\ pc = [p \in Procs |-> "idle"]
  /\ attached = None
  /\ comps = [i \in Ids |-> {}] /\ pins = [i \in Ids |-> {}] /\ dirs = {}
  /\ lock = None
  /\ cand = [p \in Procs |-> None] /\ old = cand /\ new = cand
  /\ oldProgs = [p \in Procs |-> {}] /\ left = oldProgs
  /\ legacy = [p \in Procs |-> FALSE]
  /\ visit = [p \in Procs |-> {}]
  /\ getRetry = [p \in Procs |-> 0] /\ retry = getRetry
  /\ err = [p \in Procs |-> "none"]
  /\ effect = {} /\ swept = {} /\ overlapped = {}

Goto(p, l) == pc' = [pc EXCEPT ![p] = l]

(* Everything is closed and the operation returns.                         *)
End(p, l, e) ==
  /\ Goto(p, l)
  /\ err' = [err EXCEPT ![p] = e]
  /\ old' = [old EXCEPT ![p] = None] /\ new' = [new EXCEPT ![p] = None]

Start(p) ==
  /\ pc[p] = "idle"
  /\ Goto(p, IF job[p].kind = "clean" THEN "clean" ELSE "query")
  /\ overlapped' = overlapped \ {p}
  /\ UNCHANGED <<sharedVars, readVars, new, left, visit, retry, err, effect, swept>>

-----------------------------------------------------------------------------
(* xdp_multiprog__get_from_ifindex returned no program: an attach goes on  *)
(* without an old dispatcher, whatever the error was.                      *)
NothingThere(p) ==
  IF Attaches(p)
  THEN /\ Goto(p, "generate")
       /\ oldProgs' = [oldProgs EXCEPT ![p] = {}]
       /\ legacy' = [legacy EXCEPT ![p] = FALSE]
       /\ UNCHANGED <<old, new, err>>
  ELSE End(p, "failed", "noent") /\ UNCHANGED <<oldProgs, legacy>>

(* xdp_get_ifindex_prog_id leaves prog_id alone when nothing is attached.  *)
Query(p) ==
  /\ pc[p] = "query"
  /\ LET id == IF attached = None THEN cand[p] ELSE attached IN
     /\ cand' = [cand EXCEPT ![p] = id]
     /\ IF id = None
        THEN NothingThere(p)
        ELSE Goto(p, "open") /\ UNCHANGED <<old, oldProgs, legacy, new, err>>
  /\ UNCHANGED <<sharedVars, getRetry, left, visit, retry, history>>

(* A program lives while it is attached, an fd refers to it or a pinned    *)
(* link targets it.                                                        *)
Alive(i) ==
  \/ attached = i \/ pins[i] # {}
  \/ \E q \in Procs : old[q] = i \/ new[q] = i

(* What follows once the old program is known.                             *)
AfterRead(p) == IF Attaches(p) THEN "generate"
                ELSE IF job[p].kind = "detach" THEN "check" ELSE "swapnone"

(* xdp_multiprog__from_id: the id may be gone by now.                      *)
Open(p) ==
  /\ pc[p] = "open" /\ Alive(cand[p])
  /\ old' = [old EXCEPT ![p] = cand[p]]
  /\ IF IsDispatcher(cand[p])
     THEN Goto(p, "read") /\ UNCHANGED <<legacy, oldProgs>>
     ELSE /\ Goto(p, AfterRead(p))
          /\ legacy' = [legacy EXCEPT ![p] = TRUE]
          /\ oldProgs' = [oldProgs EXCEPT ![p] = {}]
  /\ UNCHANGED <<sharedVars, cand, getRetry, new, left, visit, retry, err, history>>

Disappeared(p) ==
  /\ pc[p] = "open" /\ ~Alive(cand[p])
  /\ IF getRetry[p] = MaxRetry
     THEN NothingThere(p) /\ UNCHANGED getRetry
     ELSE /\ getRetry' = [getRetry EXCEPT ![p] = @ + 1]
          /\ Goto(p, "query")
          /\ UNCHANGED <<old, oldProgs, legacy, new, err>>
  /\ UNCHANGED <<sharedVars, cand, left, visit, retry, history>>

(* xdp_multiprog__link_pinned_progs, which holds the lock and writes       *)
(* nothing.  A dispatcher whose directory is gone or incomplete is taken   *)
(* for a legacy program.                                                   *)
Complete_AllSlots(i) == i \in dirs /\ Cardinality(pins[i]) = MaxActions  \* mutant: every slot
Complete(i) == i \in dirs /\ comps[i] \subseteq pins[i]
Read(p) ==
  /\ pc[p] = "read" /\ lock = None
  /\ LET ok == Complete(old[p]) IN
     /\ legacy' = [legacy EXCEPT ![p] = ~ok]
     /\ oldProgs' = [oldProgs EXCEPT ![p] = IF ok THEN comps[old[p]] ELSE {}]
  /\ Goto(p, AfterRead(p))
  /\ UNCHANGED <<sharedVars, cand, old, getRetry, new, left, visit, retry, err, history>>

(* xdp_program__detach_multi: only programs that are there are detached.   *)
(* The id of a legacy program is that of its only component.               *)
Check(p) ==
  /\ pc[p] = "check"
  /\ LET there == IF legacy[p] THEN ~IsDispatcher(old[p]) /\ comps[old[p]] = job[p].progs
                               ELSE job[p].progs \subseteq oldProgs[p]
     IN IF ~there THEN End(p, "failed", "noent")
        ELSE /\ Goto(p, IF legacy[p] \/ job[p].progs = oldProgs[p]
                        THEN "swapnone" ELSE "generate")
             /\ UNCHANGED <<old, new, err>>
  /\ UNCHANGED <<sharedVars, cand, oldProgs, legacy, getRetry, left, visit, retry, history>>

-----------------------------------------------------------------------------
(* xdp_multiprog__generate: no other process sees the new dispatcher yet.  *)
NewProgs(p) == IF Attaches(p) THEN oldProgs[p] \cup job[p].progs
                                     ELSE oldProgs[p] \ job[p].progs
Fits(progs) == Cardinality(progs) <= MaxActions
Refusal(p) == IF legacy[p] THEN "busy" ELSE IF ~Fits(NewProgs(p)) THEN "toobig" ELSE "none"

Generate(p) ==
  /\ pc[p] = "generate" /\ job[p].kind # "single"
  /\ IF Refusal(p) = "none"
     THEN /\ new' = [new EXCEPT ![p] = NewId(p)]
          /\ comps' = [comps EXCEPT ![NewId(p)] = NewProgs(p)]
          /\ Goto(p, "pin")
          /\ UNCHANGED <<old, err>>
     ELSE End(p, "failed", Refusal(p)) /\ UNCHANGED comps
  /\ UNCHANGED <<attached, pins, dirs, lock, cand, oldProgs, legacy, getRetry,
                 left, visit, retry, history>>

(* Loading, linking, the lock or the new directory fails.                  *)
BuildFails(p) ==
  /\ pc[p] \in {"generate", "pin"}
  /\ End(p, "failed", "error")
  /\ UNCHANGED <<sharedVars, cand, oldProgs, legacy, getRetry, left, visit, retry, history>>

(* xdp_multiprog__pin                                                      *)
PinLock(p) ==
  /\ pc[p] = "pin" /\ lock = None
  /\ lock' = p
  /\ dirs' = dirs \cup {new[p]}
  /\ Goto(p, "pinning")
  /\ UNCHANGED <<attached, comps, pins, readVars, new, left, visit, retry, err, history>>

PinProgram(p, g) ==
  /\ pc[p] = "pinning" /\ g \in comps[new[p]] \ pins[new[p]]
  /\ pins' = [pins EXCEPT ![new[p]] = @ \cup {g}]
  /\ UNCHANGED <<pc, attached, comps, dirs, lock, readVars, new, left, visit, retry, err,
                 history>>

PinnedAll_First(p) == pins[new[p]] # {}  \* mutant: one link is enough
PinnedAll(p) == comps[new[p]] \subseteq pins[new[p]]
PinDone(p) ==
  /\ pc[p] = "pinning" /\ PinnedAll(p)
  /\ lock' = None
  /\ Goto(p, "swap")
  /\ UNCHANGED <<attached, comps, pins, dirs, readVars, new, left, visit, retry, err, history>>

(* err_unpin                                                               *)
PinFails(p) ==
  /\ pc[p] = "pinning"
  /\ pins' = [pins EXCEPT ![new[p]] = {}] /\ dirs' = dirs \ {new[p]}
  /\ lock' = None
  /\ End(p, "failed", "error")
  /\ UNCHANGED <<attached, comps, cand, oldProgs, legacy, getRetry, left, visit, retry,
                 history>>

-----------------------------------------------------------------------------
(* The swap has changed the interface.                                     *)
Changed(p) ==
  /\ effect' = effect \cup {p}
  /\ overlapped' = overlapped \cup (Procs \ {p})
  /\ UNCHANGED swept

(* xdp_attach_fd: UPDATE_IF_NOEXIST without an old program, otherwise the  *)
(* kernel compares the attached program with the old one (EAGAIN).         *)
Expected_Blind(p) == TRUE  \* mutant: the kernel is not told what to replace
Expected(p) == attached = old[p]

(* xdp_multiprog__unpin(mp) after a failure goes through all its programs. *)
ToUndo_None(p) == {}  \* mutant: nothing is unlinked
ToUndo(p) == comps[new[p]]

Swap(p) ==
  /\ pc[p] = "swap"
  /\ IF Expected(p)
     THEN /\ attached' = new[p]
          /\ Changed(p)
          /\ Goto(p, IF old[p] = None THEN "close" ELSE "unpinold")
          /\ left' = [left EXCEPT ![p] = oldProgs[p]]
          /\ UNCHANGED err
     ELSE /\ err' = [err EXCEPT ![p] = IF old[p] = None THEN "exists" ELSE "again"]
          /\ Goto(p, "unpinnew") /\ left' = [left EXCEPT ![p] = ToUndo(p)]
          /\ UNCHANGED <<attached, history>>
  /\ UNCHANGED <<comps, pins, dirs, lock, readVars, new, visit, retry>>

(* The kernel or the driver does not take the program (mode, MTU).         *)
SwapRejected(p) ==
  /\ pc[p] = "swap"
  /\ err' = [err EXCEPT ![p] = "error"]
  /\ Goto(p, "unpinnew") /\ left' = [left EXCEPT ![p] = ToUndo(p)]
  /\ UNCHANGED <<sharedVars, readVars, new, visit, retry, history>>

(* EAGAIN: start over, up to MaxRetry times.                               *)
TryAgain(p) ==
  IF retry[p] = MaxRetry
  THEN End(p, "failed", "exhausted") /\ UNCHANGED <<retry, cand, getRetry>>
  ELSE /\ retry' = [retry EXCEPT ![p] = @ + 1]
       /\ getRetry' = [getRetry EXCEPT ![p] = 0]
       /\ cand' = [cand EXCEPT ![p] = None]
       /\ End(p, "query", "none")

(* xdp_multiprog__attach without a new program.  xdp_multiprog__detach     *)
(* does not try again.                                                     *)
SwapNone(p) ==
  /\ pc[p] = "swapnone"
  /\ IF Expected(p)
     THEN /\ attached' = None
          /\ Changed(p)
          /\ Goto(p, IF legacy[p] THEN "close" ELSE "unpinold")
          /\ left' = [left EXCEPT ![p] = oldProgs[p]]
          /\ UNCHANGED <<old, new, err, retry, cand, getRetry>>
     ELSE /\ IF job[p].kind = "detach" THEN TryAgain(p)
             ELSE End(p, "failed", "again") /\ UNCHANGED <<retry, cand, getRetry>>
          /\ UNCHANGED <<attached, left, history>>
  /\ UNCHANGED <<comps, pins, dirs, lock, oldProgs, legacy, visit>>

(* xdp_program__attach_single: no dispatcher, nothing is pinned.           *)
AttachSingle(p) ==
  /\ pc[p] = "generate" /\ job[p].kind = "single"
  /\ IF attached = None
     THEN /\ attached' = NewId(p)
          /\ comps' = [comps EXCEPT ![NewId(p)] = job[p].progs]
          /\ Changed(p)
          /\ Goto(p, "close")
          /\ UNCHANGED <<old, new, err>>
     ELSE End(p, "failed", "exists") /\ UNCHANGED <<attached, comps, history>>
  /\ UNCHANGED <<pins, dirs, lock, cand, oldProgs, legacy, getRetry, left, visit, retry>>

Close(p) ==
  /\ pc[p] = "close"
  /\ End(p, "ok", "none")
  /\ UNCHANGED <<sharedVars, cand, oldProgs, legacy, getRetry, left, visit, retry, history>>

-----------------------------------------------------------------------------
(* xdp_multiprog__unpin of the old or the new dispatcher                   *)
Target(p) == IF pc[p] \in {"unpinold", "unpinningold"} THEN old[p] ELSE new[p]

UnpinLock(p) ==
  /\ pc[p] \in {"unpinold", "unpinnew"} /\ lock = None
  /\ lock' = p
  /\ Goto(p, IF pc[p] = "unpinold" THEN "unpinningold" ELSE "unpinningnew")
  /\ UNCHANGED <<attached, comps, pins, dirs, readVars, new, left, visit, retry, err, history>>

UnpinProgram(p, g) ==
  /\ pc[p] \in {"unpinningold", "unpinningnew"} /\ g \in left[p]
  /\ g \in pins[Target(p)]
  /\ pins' = [pins EXCEPT ![Target(p)] = @ \ {g}]
  /\ left' = [left EXCEPT ![p] = @ \ {g}]
  /\ UNCHANGED <<pc, attached, comps, dirs, lock, readVars, new, visit, retry, err, history>>

(* The operation ends, or starts over.  An attach ignores that the old     *)
(* pins could not be removed, and so does a detach of some of the programs.*)
UnpinReturns(p, clean) ==
  IF pc[p] = "unpinningold"
  THEN /\ IF clean \/ new[p] # None
          THEN End(p, "ok", "none") ELSE End(p, "failed", "unlink")
       /\ UNCHANGED <<retry, cand, getRetry>>
  ELSE IF err[p] = "again" THEN TryAgain(p)
       ELSE End(p, "failed", err[p]) /\ UNCHANGED <<retry, cand, getRetry>>

UnpinDone(p) ==
  /\ pc[p] \in {"unpinningold", "unpinningnew"} /\ left[p] = {}
  /\ dirs' = IF pins[Target(p)] = {} THEN dirs \ {Target(p)} ELSE dirs
  /\ lock' = None
  /\ UnpinReturns(p, Target(p) \in dirs /\ pins[Target(p)] = {})
  /\ UNCHANGED <<attached, comps, pins, oldProgs, legacy, left, visit, history>>

(* A file is not there: the rest is left as it is.                         *)
UnpinStops(p, g) ==
  /\ pc[p] \in {"unpinningold", "unpinningnew"}
  /\ g \in left[p] \ pins[Target(p)]
  /\ lock' = None
  /\ left' = [left EXCEPT ![p] = {}]
  /\ UnpinReturns(p, FALSE)
  /\ UNCHANGED <<attached, comps, pins, dirs, oldProgs, legacy, visit, history>>

-----------------------------------------------------------------------------
(* libxdp_clean_references: directories of programs that are not attached. *)
CleanLock(p) ==
  /\ pc[p] = "clean" /\ lock = None
  /\ lock' = p
  /\ visit' = [visit EXCEPT ![p] = dirs]
  /\ Goto(p, "cleaning")
  /\ UNCHANGED <<attached, comps, pins, dirs, readVars, new, left, retry, err, history>>

StillToVisit_Break(p, i) == IF attached = i THEN {} ELSE visit[p] \ {i}  \* mutant: stops there
StillToVisit(p, i) == visit[p] \ {i}
CleanQuery(p, i) ==
  /\ pc[p] = "cleaning"
  /\ visit' = [visit EXCEPT ![p] = StillToVisit(p, i)]
  /\ IF attached = i
     THEN UNCHANGED <<pc, cand>>
     ELSE Goto(p, "removing") /\ cand' = [cand EXCEPT ![p] = i]
  /\ UNCHANGED <<sharedVars, old, oldProgs, legacy, getRetry, new, left, retry, err, history>>

(* remove_pin_dir                                                          *)
CleanUnlink(p, g) ==
  /\ pc[p] = "removing" /\ g \in pins[cand[p]]
  /\ pins' = [pins EXCEPT ![cand[p]] = @ \ {g}]
  /\ swept' = swept \cup {cand[p]}
  /\ UNCHANGED <<pc, attached, comps, dirs, lock, readVars, new, left, visit, retry, err,
                 effect, overlapped>>

CleanRmdir(p) ==
  /\ pc[p] = "removing" /\ pins[cand[p]] = {}
  /\ dirs' = dirs \ {cand[p]}
  /\ swept' = swept \cup {cand[p]}
  /\ Goto(p, "cleaning")
  /\ UNCHANGED <<attached, comps, pins, lock, readVars, new, left, visit, retry, err,
                 effect, overlapped>>

CleanDone(p) ==
  /\ pc[p] = "cleaning" /\ visit[p] = {}
  /\ lock' = None
  /\ Goto(p, "ok")
  /\ UNCHANGED <<attached, comps, pins, dirs, readVars, new, left, visit, retry, err, history>>

(* The process dies: its fds are closed and its lock is released.          *)
Released_Never(p) == lock  \* mutant: a lock file instead of flock
Released(p) == IF lock = p THEN None ELSE lock
Crash(p) ==
  /\ pc[p] \notin Ended \cup {"idle"}
  /\ Cardinality({q \in Procs : pc[q] = "crashed"}) < MaxCrashes
  /\ End(p, "crashed", "none")
  /\ lock' = Released(p)
  /\ UNCHANGED <<attached, comps, pins, dirs, cand, oldProgs, legacy, getRetry,
                 left, visit, retry, history>>

Step(p) ==
  \/ Query(p) \/ Open(p) \/ Disappeared(p) \/ Read(p) \/ Check(p)
  \/ Generate(p) \/ BuildFails(p) \/ AttachSingle(p)
  \/ PinLock(p) \/ PinDone(p) \/ PinFails(p) \/ (\E g \in Programs : PinProgram(p, g))
  \/ Swap(p) \/ SwapRejected(p) \/ SwapNone(p) \/ Close(p)
  \/ UnpinLock(p) \/ UnpinDone(p)
  \/ (\E g \in Programs : UnpinProgram(p, g) \/ UnpinStops(p, g))
  \/ CleanLock(p) \/ CleanRmdir(p) \/ CleanDone(p)
  \/ (\E g \in Programs : CleanUnlink(p, g)) \/ (\E i \in visit[p] : CleanQuery(p, i))

Next == UNCHANGED job /\ \E p \in Procs : Start(p) \/ Step(p) \/ Crash(p)

Spec == Init /\ [][Next]_vars
FairSpec == Spec /\ \A p \in Procs : WF_vars(UNCHANGED job /\ Step(p))

-----------------------------------------------------------------------------
(* The interface as libxdp promises it: the programs of the attached       *)
(* dispatcher, changed by whole operations only.                           *)
Configured == IF attached = None THEN {} ELSE comps[attached]
Interface == INSTANCE XdpInterface WITH
  configured <- Configured,
  exclusive <- (attached # None /\ ~IsDispatcher(attached)),
  result <- [p \in Procs |-> IF pc[p] \in Ended THEN pc[p] ELSE "pending"]

(* protocol.org, "Atomic replace and retry": whatever the interleaving,    *)
(* no attach or detach is lost, doubled or half done.                      *)
AtomicOperations == Interface!Spec

(* protocol.org 309: "This order ensures atomic attachment to the          *)
(* interface, without any risk that component programs will be             *)
(* automatically detached due to a badly timed application crash": the     *)
(* links of the attached dispatcher are pinned.  The one thing that can    *)
(* remove them is a clean that looked before the dispatcher was attached.  *)
LinksSurvive ==
  attached # None /\ IsDispatcher(attached) /\ attached \notin swept =>
    comps[attached] \subseteq pins[attached]

(* When all operations have returned, no directory is left but that of the *)
(* attached dispatcher, whatever failed or was retried on the way.         *)
NothingLeftBehind ==
  (\A p \in Procs : pc[p] \in {"idle", "ok", "failed"}) => dirs \subseteq {attached}

(* After crashes a clean takes away what was left behind: when it has      *)
(* visited all directories, and nobody swapped meanwhile, none is there    *)
(* but that of the attached dispatcher.                                    *)
CleanRecovers ==
  \A p \in Procs :
    pc[p] = "cleaning" /\ visit[p] = {} /\ p \notin overlapped => dirs \subseteq {attached}

(* An attach during which no other process changes the interface is        *)
(* refused for a reason of its own: the programs are too many, a call      *)
(* failed, or what is attached is not a readable dispatcher.               *)
RefusedOnlyWhenOverlapped ==
  \A p \in Procs :
    job[p].kind = "attach" /\ pc[p] = "failed" /\ p \notin overlapped =>
      \/ err[p] \in {"toobig", "error"}
      \/ err[p] = "busy" /\ attached # None
                         /\ (~IsDispatcher(attached) \/ attached \in swept)

(* Every operation returns, however the others interleave, fail or die:    *)
(* the retries are bounded and a dead process holds no lock.               *)
OperationsReturn == \A p \in Procs : pc[p] \in {"query", "clean"} ~> pc[p] \in Ended
=============================================================================
