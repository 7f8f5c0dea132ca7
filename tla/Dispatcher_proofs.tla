------------------------- MODULE Dispatcher_proofs -------------------------
(***************************************************************************)
(* However many processes attach, detach, clean, fail or die, the          *)
(* interface changes by whole operations only: Dispatcher implements       *)
(* XdpInterface, for every set of processes and programs, every team of    *)
(* jobs and every retry bound.                                             *)
(*                                                                         *)
(* The swap compares dispatchers, not their programs.  That this suffices  *)
(* rests on two facts: an id whose dispatcher is not built yet is known to *)
(* nobody (Unknown), so that the programs of a dispatcher somebody holds   *)
(* never change; and what a process read and built from it is therefore    *)
(* still true when the attached dispatcher is the one it read (Reads,      *)
(* Builds).                                                                *)
(***************************************************************************)
EXTENDS Dispatcher, TLAPS

Tries == 0..MaxRetry
Labels == {"idle", "query", "open", "read", "check", "generate", "pin", "pinning",
           "swap", "swapnone", "close", "unpinold", "unpinningold", "unpinnew",
           "unpinningnew", "clean", "cleaning", "removing"} \cup Ended
BeforeBuild == {"idle", "query", "open", "read", "check", "generate"}
Built == {"pin", "pinning", "swap"}
Undoing == {"unpinnew", "unpinningnew"}
Cleaning == {"clean", "cleaning", "removing"}
Swapped == {"close", "unpinold", "unpinningold"}

Types ==
  /\ job \in [Procs -> Job]
  /\ pc \in [Procs -> Labels]
  /\ attached \in Ids \cup {None}
  /\ comps \in [Ids -> SUBSET Programs]
  /\ cand \in [Procs -> Ids \cup {None}]
  /\ old \in [Procs -> Ids \cup {None}]
  /\ new \in [Procs -> Ids \cup {None}]
  /\ oldProgs \in [Procs -> SUBSET Programs]
  /\ legacy \in [Procs -> BOOLEAN]
  /\ retry \in [Procs -> Tries]
  /\ visit \in [Procs -> SUBSET Ids]
  /\ dirs \in SUBSET Ids
  /\ effect \in SUBSET Procs

(* Which operations get where.                                             *)
Kinds(p) ==
  /\ pc[p] \in Cleaning => job[p].kind = "clean"
  /\ pc[p] \in {"query", "open", "read"} => job[p].kind # "clean"
  /\ pc[p] = "open" => cand[p] # None
  /\ pc[p] = "check" => job[p].kind = "detach"
  /\ pc[p] = "generate" => job[p].kind \in {"attach", "single", "detach"}
  /\ pc[p] \in Built \cup Undoing => job[p].kind \in {"attach", "detach"}
  /\ pc[p] = "swapnone" => job[p].kind \in {"detach", "detachall"}

(* An operation takes effect once, at its swap.                            *)
Effects(p) ==
  /\ pc[p] \in BeforeBuild \cup Built \cup Undoing \cup Cleaning \cup {"swapnone"}
       => p \notin effect
  /\ pc[p] \in Swapped => p \in effect
  /\ pc[p] \in {"unpinold", "unpinningold"} /\ Attaches(p) => new[p] # None

(* What was read of the old dispatcher is what it holds.                   *)
Reads(p) ==
  /\ pc[p] \in {"idle", "query", "open"} => old[p] = None
  /\ pc[p] = "read" => old[p] # None /\ IsDispatcher(old[p])
  /\ pc[p] \in {"check", "generate", "swapnone"} \cup Built =>
       /\ ~Attaches(p) => old[p] # None
       /\ old[p] = None => oldProgs[p] = {}
       /\ old[p] # None /\ ~legacy[p] =>
            IsDispatcher(old[p]) /\ oldProgs[p] = comps[old[p]]
  /\ pc[p] \in {"generate"} \cup Built /\ job[p].kind = "detach" =>
       ~legacy[p] /\ job[p].progs \subseteq oldProgs[p]
  /\ pc[p] = "swapnone" /\ job[p].kind = "detach" => job[p].progs = comps[old[p]]

(* What was built has the programs that were to be there.                  *)
Builds(p) ==
  pc[p] \in Built =>
    /\ ~legacy[p] /\ Refusal(p) = "none"
    /\ new[p] = NewId(p) /\ comps[new[p]] = NewProgs(p)

(* Dispatchers that are not built yet are known to nobody.                 *)
Unbuilt(i) ==
  \/ retry[i[1]] < i[2]
  \/ retry[i[1]] = i[2] /\ pc[i[1]] \in BeforeBuild
Unknown(i) ==
  Unbuilt(i) =>
    /\ attached # i
    /\ \A q \in Procs : old[q] # i /\ new[q] # i
    /\ \A q \in Procs : job[q].kind # "clean" => cand[q] # i

ProcInv(p) == Kinds(p) /\ Effects(p) /\ Reads(p) /\ Builds(p)
DispatcherInv ==
  /\ Types
  /\ \A p \in Procs : ProcInv(p)
  /\ \A i \in Ids : Unknown(i)

-----------------------------------------------------------------------------
(* Ids are pairs; nothing else about them matters.                         *)
LEMMA IdParts ==
  ASSUME Types
  PROVE  /\ \A i \in Ids : i[1] \in Procs /\ i[2] \in Tries
         /\ \A p \in Procs : NewId(p) \in Ids /\ NewId(p)[1] = p /\ NewId(p)[2] = retry[p]
         /\ None \notin Ids
  BY DispatcherAssumption DEF Types, Ids, NewId, Tries

LEMMA JobProgs ==
  ASSUME Types
  PROVE  \A p \in Procs : job[p].progs \in SUBSET Programs
  BY DEF Types, Job

LEMMA OneMoreTry ==
  ASSUME Types, NEW p \in Procs, retry[p] # MaxRetry
  PROVE  retry[p] + 1 \in Tries /\ retry[p] < retry[p] + 1
  BY DispatcherAssumption DEF Types, Tries

LEMMA NewProgsTypes ==
  ASSUME Types, NEW p \in Procs
  PROVE  NewProgs(p) \in SUBSET Programs
  BY JobProgs DEF Types, NewProgs

LEMMA TryAgainTypes ==
  ASSUME Types, NEW p \in Procs, TryAgain(p)
  PROVE  /\ pc' \in [Procs -> Labels] /\ retry' \in [Procs -> Tries]
         /\ cand' \in [Procs -> Ids \cup {None}]
         /\ old' \in [Procs -> Ids \cup {None}] /\ new' \in [Procs -> Ids \cup {None}]
<1>1. CASE retry[p] = MaxRetry
  BY <1>1 DEF Types, TryAgain, End, Goto, Labels, Ended
<1>2. CASE retry[p] # MaxRetry
  BY <1>2, OneMoreTry DEF Types, TryAgain, End, Goto, Labels
<1> QED  BY <1>1, <1>2

LEMMA StepTypes ==
  ASSUME DispatcherInv, UNCHANGED job, NEW p \in Procs, Start(p) \/ Step(p) \/ Crash(p)
  PROVE  Types'
<1>0. Types /\ ProcInv(p)  BY DEF DispatcherInv
<1> USE <1>0 DEF Types, Labels, Ended, Goto, End, sharedVars, readVars, history
<1>1. CASE Start(p)  BY <1>1 DEF Start
<1>2. CASE Query(p)  BY <1>2 DEF Query, NothingThere
<1>3. CASE Open(p)  BY <1>3, IdParts DEF Open, AfterRead
<1>4. CASE Disappeared(p)  BY <1>4 DEF Disappeared, NothingThere
<1>5. CASE Read(p)
  <2>1. legacy' \in [Procs -> BOOLEAN]  BY <1>5 DEF Read
  <2>2. oldProgs' \in [Procs -> SUBSET Programs]  BY <1>5, IdParts DEF Read, ProcInv, Reads
  <2>3. pc' \in [Procs -> Labels]  BY <1>5 DEF Read, AfterRead
  <2> QED  BY <1>5, <2>1, <2>2, <2>3 DEF Read
<1>6. CASE Check(p)  BY <1>6 DEF Check
<1>7. CASE Generate(p)  BY <1>7, IdParts, NewProgsTypes DEF Generate
<1>8. CASE BuildFails(p)  BY <1>8 DEF BuildFails
<1>9. CASE AttachSingle(p)  BY <1>9, IdParts, JobProgs DEF AttachSingle, Changed
<1>10. CASE PinLock(p)  BY <1>10, IdParts DEF PinLock, ProcInv, Builds, Built
<1>11. CASE PinDone(p)  BY <1>11 DEF PinDone
<1>12. CASE PinFails(p)  BY <1>12 DEF PinFails
<1>13. CASE \E g \in Programs : PinProgram(p, g)  BY <1>13 DEF PinProgram
<1>14. CASE Swap(p)  BY <1>14 DEF Swap, Changed
<1>15. CASE SwapRejected(p)  BY <1>15 DEF SwapRejected
<1>16. CASE SwapNone(p)  BY <1>16, TryAgainTypes DEF SwapNone, Changed
<1>17. CASE Close(p)  BY <1>17 DEF Close
<1>18. CASE UnpinLock(p)  BY <1>18 DEF UnpinLock
<1>19. CASE UnpinDone(p)  BY <1>19, TryAgainTypes DEF UnpinDone, UnpinReturns
<1>20. CASE \E g \in Programs : UnpinProgram(p, g)  BY <1>20 DEF UnpinProgram
<1>21. CASE \E g \in Programs : UnpinStops(p, g)
  BY <1>21, TryAgainTypes DEF UnpinStops, UnpinReturns
<1>22. CASE CleanLock(p)  BY <1>22 DEF CleanLock
<1>23. CASE CleanRmdir(p)  BY <1>23 DEF CleanRmdir
<1>24. CASE CleanDone(p)  BY <1>24 DEF CleanDone
<1>25. CASE \E g \in Programs : CleanUnlink(p, g)  BY <1>25 DEF CleanUnlink
<1>26. CASE \E d \in visit[p] : CleanQuery(p, d)  BY <1>26 DEF CleanQuery, StillToVisit
<1>27. CASE Crash(p)  BY <1>27 DEF Crash
<1> QED  BY <1>1, <1>2, <1>3, <1>4, <1>5, <1>6, <1>7, <1>8, <1>9, <1>10, <1>11, <1>12,
              <1>13, <1>14, <1>15, <1>16, <1>17, <1>18, <1>19, <1>20, <1>21, <1>22,
              <1>23, <1>24, <1>25, <1>26, <1>27 DEF Step

(* A step of one process leaves what belongs to another one.               *)
LEMMA OthersUntouched ==
  ASSUME Types, UNCHANGED job, NEW p \in Procs, Start(p) \/ Step(p) \/ Crash(p),
         NEW q \in Procs \ {p}
  PROVE  /\ pc'[q] = pc[q] /\ retry'[q] = retry[q] /\ legacy'[q] = legacy[q]
         /\ cand'[q] = cand[q] /\ old'[q] = old[q] /\ new'[q] = new[q]
         /\ oldProgs'[q] = oldProgs[q]
         /\ (q \in effect') = (q \in effect)
<1> USE DEF Types, Goto, End, sharedVars, readVars, history
<1>1. CASE Start(p)  BY <1>1 DEF Start
<1>2. CASE Query(p)  BY <1>2 DEF Query, NothingThere
<1>3. CASE Open(p)  BY <1>3 DEF Open, AfterRead
<1>4. CASE Disappeared(p)  BY <1>4 DEF Disappeared, NothingThere
<1>5. CASE Read(p)  BY <1>5 DEF Read, AfterRead
<1>6. CASE Check(p)  BY <1>6 DEF Check
<1>7. CASE Generate(p)  BY <1>7 DEF Generate
<1>8. CASE BuildFails(p)  BY <1>8 DEF BuildFails
<1>9. CASE AttachSingle(p)  BY <1>9 DEF AttachSingle, Changed
<1>10. CASE PinLock(p)  BY <1>10 DEF PinLock
<1>11. CASE PinDone(p)  BY <1>11 DEF PinDone
<1>12. CASE PinFails(p)  BY <1>12 DEF PinFails
<1>13. CASE \E g \in Programs : PinProgram(p, g)  BY <1>13 DEF PinProgram
<1>14. CASE Swap(p)  BY <1>14 DEF Swap, Changed
<1>15. CASE SwapRejected(p)  BY <1>15 DEF SwapRejected
<1>16. CASE SwapNone(p)  BY <1>16 DEF SwapNone, Changed, TryAgain
<1>17. CASE Close(p)  BY <1>17 DEF Close
<1>18. CASE UnpinLock(p)  BY <1>18 DEF UnpinLock
<1>19. CASE UnpinDone(p)  BY <1>19 DEF UnpinDone, UnpinReturns, TryAgain
<1>20. CASE \E g \in Programs : UnpinProgram(p, g)  BY <1>20 DEF UnpinProgram
<1>21. CASE \E g \in Programs : UnpinStops(p, g)
  BY <1>21 DEF UnpinStops, UnpinReturns, TryAgain
<1>22. CASE CleanLock(p)  BY <1>22 DEF CleanLock
<1>23. CASE CleanRmdir(p)  BY <1>23 DEF CleanRmdir
<1>24. CASE CleanDone(p)  BY <1>24 DEF CleanDone
<1>25. CASE \E g \in Programs : CleanUnlink(p, g)  BY <1>25 DEF CleanUnlink
<1>26. CASE \E d \in visit[p] : CleanQuery(p, d)  BY <1>26 DEF CleanQuery
<1>27. CASE Crash(p)  BY <1>27 DEF Crash
<1> QED  BY <1>1, <1>2, <1>3, <1>4, <1>5, <1>6, <1>7, <1>8, <1>9, <1>10, <1>11, <1>12,
              <1>13, <1>14, <1>15, <1>16, <1>17, <1>18, <1>19, <1>20, <1>21, <1>22,
              <1>23, <1>24, <1>25, <1>26, <1>27 DEF Step

(* The programs of a dispatcher change only where it is built.             *)
LEMMA CompsChange ==
  ASSUME Types, UNCHANGED job, NEW p \in Procs, Start(p) \/ Step(p) \/ Crash(p)
  PROVE  \A i \in Ids : comps'[i] = comps[i] \/ (i = NewId(p) /\ pc[p] = "generate")
<1>1. CASE Generate(p)  BY <1>1 DEF Types, Generate
<1>2. CASE AttachSingle(p)  BY <1>2 DEF Types, AttachSingle
<1>3. ASSUME ~Generate(p), ~AttachSingle(p)  PROVE comps' = comps
  BY <1>3 DEF Step, sharedVars, Start, Query, Open, Disappeared, Read, Check, BuildFails,
     PinLock, PinDone, PinFails, PinProgram, Swap, SwapRejected, SwapNone, Close, UnpinLock,
     UnpinDone, UnpinProgram, UnpinStops, CleanLock, CleanRmdir, CleanDone, CleanUnlink,
     CleanQuery, Crash
<1> QED  BY <1>1, <1>2, <1>3

LEMMA KnownKept ==
  ASSUME DispatcherInv, UNCHANGED job, NEW p \in Procs, Start(p) \/ Step(p) \/ Crash(p),
         NEW i \in Ids,
         i = attached \/ \E q \in Procs : i = old[q] \/ i = new[q]
  PROVE  comps'[i] = comps[i]
<1>1. Types /\ Unknown(i) /\ NewId(p) \in Ids  BY IdParts DEF DispatcherInv
<1>2. ~Unbuilt(i)  BY <1>1 DEF Unknown
<1>3. pc[p] = "generate" => i # NewId(p)
  BY <1>1, <1>2, IdParts DEF Unbuilt, BeforeBuild
<1> QED  BY <1>1, <1>3, CompsChange

(* What a process knows about others' work survives their steps.           *)
LEMMA OthersProcInv ==
  ASSUME DispatcherInv, UNCHANGED job, NEW p \in Procs, Start(p) \/ Step(p) \/ Crash(p),
         NEW q \in Procs \ {p}
  PROVE  ProcInv(q)'
<1>1. Types /\ ProcInv(q)  BY DEF DispatcherInv
<1>2. /\ pc'[q] = pc[q] /\ retry'[q] = retry[q] /\ legacy'[q] = legacy[q]
      /\ cand'[q] = cand[q] /\ old'[q] = old[q] /\ new'[q] = new[q]
      /\ oldProgs'[q] = oldProgs[q] /\ (q \in effect') = (q \in effect)
  BY <1>1, OthersUntouched
<1>3. /\ old[q] # None => comps'[old[q]] = comps[old[q]]
      /\ new[q] # None => comps'[new[q]] = comps[new[q]]
  BY <1>1, KnownKept DEF Types
<1>4. Kinds(q)'  BY <1>1, <1>2 DEF ProcInv, Kinds
<1>5. Effects(q)'  BY <1>1, <1>2 DEF ProcInv, Effects, Attaches
<1>6. Reads(q)'  BY <1>1, <1>2, <1>3 DEF ProcInv, Reads, Attaches, IsDispatcher, Kinds
<1>7. Builds(q)'
  BY <1>1, <1>2, <1>3, IdParts DEF ProcInv, Builds, Refusal, NewProgs, Attaches, NewId
<1> QED  BY <1>4, <1>5, <1>6, <1>7 DEF ProcInv

(* And what a process knows about its own.  Few steps bring a process to   *)
(* where it knows something new.                                           *)
LEMMA OwnProcInv ==
  ASSUME DispatcherInv, UNCHANGED job, NEW p \in Procs, Start(p) \/ Step(p) \/ Crash(p)
  PROVE  ProcInv(p)'
<1>0. Types /\ ProcInv(p)  BY DEF DispatcherInv
<1> USE <1>0 DEF Types, ProcInv, Ended, Built, Attaches, Goto, End, sharedVars,
                 readVars, history
<1>a. Kinds(p)'
  <2> USE DEF Kinds, Cleaning, Undoing
  <2>1. CASE Start(p)  BY <2>1 DEF Start
  <2>2. CASE Query(p)  BY <2>2 DEF Query, NothingThere, Job
  <2>3. CASE Open(p)  BY <2>3 DEF Open, AfterRead, Job
  <2>4. CASE Disappeared(p)  BY <2>4 DEF Disappeared, NothingThere, Job
  <2>5. CASE Read(p)  BY <2>5 DEF Read, AfterRead, Job
  <2>6. CASE Check(p)  BY <2>6 DEF Check
  <2>7. CASE Generate(p)  BY <2>7 DEF Generate
  <2>8. CASE BuildFails(p)  BY <2>8 DEF BuildFails
  <2>9. CASE AttachSingle(p)  BY <2>9 DEF AttachSingle, Changed
  <2>10. CASE PinLock(p)  BY <2>10 DEF PinLock
  <2>11. CASE PinDone(p)  BY <2>11 DEF PinDone
  <2>12. CASE PinFails(p)  BY <2>12 DEF PinFails
  <2>13. CASE \E g \in Programs : PinProgram(p, g)  BY <2>13 DEF PinProgram
  <2>14. CASE Swap(p)  BY <2>14 DEF Swap, Changed
  <2>15. CASE SwapRejected(p)  BY <2>15 DEF SwapRejected
  <2>16. CASE SwapNone(p)  BY <2>16 DEF SwapNone, Changed, TryAgain
  <2>17. CASE Close(p)  BY <2>17 DEF Close
  <2>18. CASE UnpinLock(p)  BY <2>18 DEF UnpinLock
  <2>19. CASE UnpinDone(p)  BY <2>19 DEF UnpinDone, UnpinReturns, TryAgain
  <2>20. CASE \E g \in Programs : UnpinProgram(p, g)  BY <2>20 DEF UnpinProgram
  <2>21. CASE \E g \in Programs : UnpinStops(p, g)
    BY <2>21 DEF UnpinStops, UnpinReturns, TryAgain
  <2>22. CASE CleanLock(p)  BY <2>22 DEF CleanLock
  <2>23. CASE CleanRmdir(p)  BY <2>23 DEF CleanRmdir
  <2>24. CASE CleanDone(p)  BY <2>24 DEF CleanDone
  <2>25. CASE \E g \in Programs : CleanUnlink(p, g)  BY <2>25 DEF CleanUnlink
  <2>26. CASE \E d \in visit[p] : CleanQuery(p, d)  BY <2>26 DEF CleanQuery
  <2>27. CASE Crash(p)  BY <2>27 DEF Crash
  <2> QED  BY <2>1, <2>2, <2>3, <2>4, <2>5, <2>6, <2>7, <2>8, <2>9, <2>10, <2>11, <2>12,
                <2>13, <2>14, <2>15, <2>16, <2>17, <2>18, <2>19, <2>20, <2>21, <2>22,
                <2>23, <2>24, <2>25, <2>26, <2>27 DEF Step
<1>b. Effects(p)'
  <2> USE DEF Effects, Kinds, BeforeBuild, Undoing, Cleaning, Swapped
  <2>1. CASE Start(p)  BY <2>1 DEF Start
  <2>2. CASE Query(p)  BY <2>2 DEF Query, NothingThere
  <2>3. CASE Open(p)  BY <2>3 DEF Open, AfterRead
  <2>4. CASE Disappeared(p)  BY <2>4 DEF Disappeared, NothingThere
  <2>5. CASE Read(p)  BY <2>5 DEF Read, AfterRead
  <2>6. CASE Check(p)  BY <2>6 DEF Check
  <2>7. CASE Generate(p)  BY <2>7 DEF Generate
  <2>8. CASE BuildFails(p)  BY <2>8 DEF BuildFails
  <2>9. CASE AttachSingle(p)  BY <2>9 DEF AttachSingle, Changed
  <2>10. CASE PinLock(p)  BY <2>10 DEF PinLock
  <2>11. CASE PinDone(p)  BY <2>11 DEF PinDone
  <2>12. CASE PinFails(p)  BY <2>12 DEF PinFails
  <2>13. CASE \E g \in Programs : PinProgram(p, g)  BY <2>13 DEF PinProgram
  <2>14. CASE Swap(p)  BY <2>14, IdParts DEF Swap, Changed, Builds
  <2>15. CASE SwapRejected(p)  BY <2>15 DEF SwapRejected
  <2>16. CASE SwapNone(p)  BY <2>16 DEF SwapNone, Changed, TryAgain
  <2>17. CASE Close(p)  BY <2>17 DEF Close
  <2>18. CASE UnpinLock(p)  BY <2>18 DEF UnpinLock
  <2>19. CASE UnpinDone(p)  BY <2>19 DEF UnpinDone, UnpinReturns, TryAgain
  <2>20. CASE \E g \in Programs : UnpinProgram(p, g)  BY <2>20 DEF UnpinProgram
  <2>21. CASE \E g \in Programs : UnpinStops(p, g)
    BY <2>21 DEF UnpinStops, UnpinReturns, TryAgain
  <2>22. CASE CleanLock(p)  BY <2>22 DEF CleanLock
  <2>23. CASE CleanRmdir(p)  BY <2>23 DEF CleanRmdir
  <2>24. CASE CleanDone(p)  BY <2>24 DEF CleanDone
  <2>25. CASE \E g \in Programs : CleanUnlink(p, g)  BY <2>25 DEF CleanUnlink
  <2>26. CASE \E d \in visit[p] : CleanQuery(p, d)  BY <2>26 DEF CleanQuery
  <2>27. CASE Crash(p)  BY <2>27 DEF Crash
  <2> QED  BY <2>1, <2>2, <2>3, <2>4, <2>5, <2>6, <2>7, <2>8, <2>9, <2>10, <2>11, <2>12,
                <2>13, <2>14, <2>15, <2>16, <2>17, <2>18, <2>19, <2>20, <2>21, <2>22,
                <2>23, <2>24, <2>25, <2>26, <2>27 DEF Step
<1>c. Reads(p)'
  <2> USE IdParts DEF Reads, Kinds, IsDispatcher
  <2>1. CASE Start(p)  BY <2>1 DEF Start
  <2>2. CASE Query(p)  BY <2>2 DEF Query, NothingThere
  <2>3. CASE Open(p)  BY <2>3 DEF Open, AfterRead
  <2>4. CASE Disappeared(p)  BY <2>4 DEF Disappeared, NothingThere
  <2>5. CASE Read(p)  BY <2>5 DEF Read, AfterRead
  <2>6. CASE Check(p)  BY <2>6 DEF Check
  <2>7. CASE Generate(p)  BY <2>7, KnownKept DEF Generate
  <2>8. CASE BuildFails(p)  BY <2>8 DEF BuildFails
  <2>9. CASE AttachSingle(p)  BY <2>9 DEF AttachSingle, Changed
  <2>10. CASE PinLock(p)  BY <2>10 DEF PinLock
  <2>11. CASE PinDone(p)  BY <2>11 DEF PinDone
  <2>12. CASE PinFails(p)  BY <2>12 DEF PinFails
  <2>13. CASE \E g \in Programs : PinProgram(p, g)  BY <2>13 DEF PinProgram
  <2>14. CASE Swap(p)  BY <2>14 DEF Swap, Changed
  <2>15. CASE SwapRejected(p)  BY <2>15 DEF SwapRejected
  <2>16. CASE SwapNone(p)  BY <2>16 DEF SwapNone, Changed, TryAgain
  <2>17. CASE Close(p)  BY <2>17 DEF Close
  <2>18. CASE UnpinLock(p)  BY <2>18 DEF UnpinLock
  <2>19. CASE UnpinDone(p)  BY <2>19 DEF UnpinDone, UnpinReturns, TryAgain
  <2>20. CASE \E g \in Programs : UnpinProgram(p, g)  BY <2>20 DEF UnpinProgram
  <2>21. CASE \E g \in Programs : UnpinStops(p, g)
    BY <2>21 DEF UnpinStops, UnpinReturns, TryAgain
  <2>22. CASE CleanLock(p)  BY <2>22 DEF CleanLock
  <2>23. CASE CleanRmdir(p)  BY <2>23 DEF CleanRmdir
  <2>24. CASE CleanDone(p)  BY <2>24 DEF CleanDone
  <2>25. CASE \E g \in Programs : CleanUnlink(p, g)  BY <2>25 DEF CleanUnlink
  <2>26. CASE \E d \in visit[p] : CleanQuery(p, d)  BY <2>26 DEF CleanQuery
  <2>27. CASE Crash(p)  BY <2>27 DEF Crash
  <2> QED  BY <2>1, <2>2, <2>3, <2>4, <2>5, <2>6, <2>7, <2>8, <2>9, <2>10, <2>11, <2>12,
                <2>13, <2>14, <2>15, <2>16, <2>17, <2>18, <2>19, <2>20, <2>21, <2>22,
                <2>23, <2>24, <2>25, <2>26, <2>27 DEF Step
<1>d. Builds(p)'
  <2> USE IdParts DEF Builds, Refusal, NewProgs, NewId
  <2>1. CASE Start(p)  BY <2>1 DEF Start
  <2>2. CASE Query(p)  BY <2>2 DEF Query, NothingThere
  <2>3. CASE Open(p)  BY <2>3 DEF Open, AfterRead
  <2>4. CASE Disappeared(p)  BY <2>4 DEF Disappeared, NothingThere
  <2>5. CASE Read(p)  BY <2>5 DEF Read, AfterRead
  <2>6. CASE Check(p)  BY <2>6 DEF Check
  <2>7. CASE Generate(p)  BY <2>7 DEF Generate
  <2>8. CASE BuildFails(p)  BY <2>8 DEF BuildFails
  <2>9. CASE AttachSingle(p)  BY <2>9 DEF AttachSingle, Changed
  <2>10. CASE PinLock(p)  BY <2>10 DEF PinLock
  <2>11. CASE PinDone(p)  BY <2>11 DEF PinDone
  <2>12. CASE PinFails(p)  BY <2>12 DEF PinFails
  <2>13. CASE \E g \in Programs : PinProgram(p, g)  BY <2>13 DEF PinProgram
  <2>14. CASE Swap(p)  BY <2>14 DEF Swap, Changed
  <2>15. CASE SwapRejected(p)  BY <2>15 DEF SwapRejected
  <2>16. CASE SwapNone(p)  BY <2>16 DEF SwapNone, Changed, TryAgain
  <2>17. CASE Close(p)  BY <2>17 DEF Close
  <2>18. CASE UnpinLock(p)  BY <2>18 DEF UnpinLock
  <2>19. CASE UnpinDone(p)  BY <2>19 DEF UnpinDone, UnpinReturns, TryAgain
  <2>20. CASE \E g \in Programs : UnpinProgram(p, g)  BY <2>20 DEF UnpinProgram
  <2>21. CASE \E g \in Programs : UnpinStops(p, g)
    BY <2>21 DEF UnpinStops, UnpinReturns, TryAgain
  <2>22. CASE CleanLock(p)  BY <2>22 DEF CleanLock
  <2>23. CASE CleanRmdir(p)  BY <2>23 DEF CleanRmdir
  <2>24. CASE CleanDone(p)  BY <2>24 DEF CleanDone
  <2>25. CASE \E g \in Programs : CleanUnlink(p, g)  BY <2>25 DEF CleanUnlink
  <2>26. CASE \E d \in visit[p] : CleanQuery(p, d)  BY <2>26 DEF CleanQuery
  <2>27. CASE Crash(p)  BY <2>27 DEF Crash
  <2> QED  BY <2>1, <2>2, <2>3, <2>4, <2>5, <2>6, <2>7, <2>8, <2>9, <2>10, <2>11, <2>12,
                <2>13, <2>14, <2>15, <2>16, <2>17, <2>18, <2>19, <2>20, <2>21, <2>22,
                <2>23, <2>24, <2>25, <2>26, <2>27 DEF Step
<1> QED  BY <1>a, <1>b, <1>c, <1>d

(* No dispatcher becomes unbuilt.                                          *)
LEMMA StaysBuilt ==
  ASSUME DispatcherInv, UNCHANGED job, NEW p \in Procs, Start(p) \/ Step(p) \/ Crash(p),
         NEW i \in Ids, Unbuilt(i)'
  PROVE  Unbuilt(i)
<1>0. Types /\ Types'  BY StepTypes DEF DispatcherInv
<1>a. i[1] \in Procs /\ i[2] \in Int /\ retry[i[1]] \in Int
  BY <1>0, IdParts, DispatcherAssumption DEF Types, Tries
<1>b. CASE i[1] # p  BY <1>0, <1>a, <1>b, OthersUntouched DEF Unbuilt
<1>c. ASSUME i[1] = p
      PROVE  \/ retry'[p] = retry[p] /\ (pc'[p] \in BeforeBuild => pc[p] \in BeforeBuild)
             \/ retry'[p] = retry[p] + 1
  <2> USE <1>0 DEF Types, BeforeBuild, Ended, AfterRead, Goto, End, readVars
  <2>1. CASE Start(p)  BY <2>1 DEF Start
  <2>2. CASE Query(p)  BY <2>2 DEF Query, NothingThere
  <2>3. CASE Open(p)  BY <2>3 DEF Open
  <2>4. CASE Disappeared(p)  BY <2>4 DEF Disappeared, NothingThere
  <2>5. CASE Read(p)  BY <2>5 DEF Read
  <2>6. CASE Check(p)  BY <2>6 DEF Check
  <2>7. CASE Generate(p)  BY <2>7 DEF Generate
  <2>8. CASE BuildFails(p)  BY <2>8 DEF BuildFails
  <2>9. CASE AttachSingle(p)  BY <2>9 DEF AttachSingle, Changed
  <2>10. CASE PinLock(p)  BY <2>10 DEF PinLock
  <2>11. CASE PinDone(p)  BY <2>11 DEF PinDone
  <2>12. CASE PinFails(p)  BY <2>12 DEF PinFails
  <2>13. CASE \E g \in Programs : PinProgram(p, g)  BY <2>13 DEF PinProgram
  <2>14. CASE Swap(p)  BY <2>14 DEF Swap, Changed
  <2>15. CASE SwapRejected(p)  BY <2>15 DEF SwapRejected
  <2>16. CASE SwapNone(p)  BY <2>16 DEF SwapNone, Changed, TryAgain
  <2>17. CASE Close(p)  BY <2>17 DEF Close
  <2>18. CASE UnpinLock(p)  BY <2>18 DEF UnpinLock
  <2>19. CASE UnpinDone(p)  BY <2>19 DEF UnpinDone, UnpinReturns, TryAgain
  <2>20. CASE \E g \in Programs : UnpinProgram(p, g)  BY <2>20 DEF UnpinProgram
  <2>21. CASE \E g \in Programs : UnpinStops(p, g)
    BY <2>21 DEF UnpinStops, UnpinReturns, TryAgain
  <2>22. CASE CleanLock(p)  BY <2>22 DEF CleanLock
  <2>23. CASE CleanRmdir(p)  BY <2>23 DEF CleanRmdir
  <2>24. CASE CleanDone(p)  BY <2>24 DEF CleanDone
  <2>25. CASE \E g \in Programs : CleanUnlink(p, g)  BY <2>25 DEF CleanUnlink
  <2>26. CASE \E d \in visit[p] : CleanQuery(p, d)  BY <2>26 DEF CleanQuery
  <2>27. CASE Crash(p)  BY <2>27 DEF Crash
  <2> QED  BY <2>1, <2>2, <2>3, <2>4, <2>5, <2>6, <2>7, <2>8, <2>9, <2>10, <2>11, <2>12,
                <2>13, <2>14, <2>15, <2>16, <2>17, <2>18, <2>19, <2>20, <2>21, <2>22,
                <2>23, <2>24, <2>25, <2>26, <2>27 DEF Step
<1> QED  BY <1>a, <1>b, <1>c DEF Unbuilt

(* What a process knows it knew before, or it has just built it.           *)
LEMMA StaysUnknown ==
  ASSUME DispatcherInv, UNCHANGED job, NEW p \in Procs, Start(p) \/ Step(p) \/ Crash(p),
         NEW i \in Ids
  PROVE  Unknown(i)'
<1> SUFFICES ASSUME Unbuilt(i)'
             PROVE  /\ attached' # i
                    /\ \A q \in Procs : old'[q] # i /\ new'[q] # i
                    /\ \A q \in Procs : job[q].kind # "clean" => cand'[q] # i
  BY DEF Unknown
<1>0. Types /\ ProcInv(p) /\ Unknown(i)  BY DEF DispatcherInv
<1>a. /\ attached # i
      /\ \A q \in Procs : old[q] # i /\ new[q] # i
      /\ \A q \in Procs : job[q].kind # "clean" => cand[q] # i
  BY <1>0, StaysBuilt DEF Unknown
<1>b. \A q \in Procs \ {p} : /\ old'[q] # i /\ new'[q] # i
                             /\ job[q].kind # "clean" => cand'[q] # i
  BY <1>0, <1>a, OthersUntouched
<1>c. None # i  BY <1>0, IdParts
<1>d. i = NewId(p) /\ retry'[p] = retry[p] => pc'[p] \in BeforeBuild
  BY <1>0, IdParts, DispatcherAssumption DEF Unbuilt, Types, Tries
<1>e. /\ attached' # i /\ old'[p] # i /\ new'[p] # i
      /\ job[p].kind # "clean" => cand'[p] # i
  <2> USE <1>0, <1>a, <1>c DEF Types, Goto, End, sharedVars, readVars, history
  <2>1. CASE Start(p)  BY <2>1 DEF Start
  <2>2. CASE Query(p)  BY <2>2 DEF Query, NothingThere
  <2>3. CASE Open(p)  BY <2>3 DEF Open, AfterRead, ProcInv, Kinds
  <2>4. CASE Disappeared(p)  BY <2>4 DEF Disappeared, NothingThere
  <2>5. CASE Read(p)  BY <2>5 DEF Read, AfterRead
  <2>6. CASE Check(p)  BY <2>6 DEF Check
  <2>7. CASE Generate(p)  BY <2>7, <1>d DEF Generate, BeforeBuild
  <2>8. CASE BuildFails(p)  BY <2>8 DEF BuildFails
  <2>9. CASE AttachSingle(p)  BY <2>9, <1>d DEF AttachSingle, Changed, BeforeBuild
  <2>10. CASE PinLock(p)  BY <2>10 DEF PinLock
  <2>11. CASE PinDone(p)  BY <2>11 DEF PinDone
  <2>12. CASE PinFails(p)  BY <2>12 DEF PinFails
  <2>13. CASE \E g \in Programs : PinProgram(p, g)  BY <2>13 DEF PinProgram
  <2>14. CASE Swap(p)  BY <2>14 DEF Swap, Changed
  <2>15. CASE SwapRejected(p)  BY <2>15 DEF SwapRejected
  <2>16. CASE SwapNone(p)  BY <2>16 DEF SwapNone, Changed, TryAgain
  <2>17. CASE Close(p)  BY <2>17 DEF Close
  <2>18. CASE UnpinLock(p)  BY <2>18 DEF UnpinLock
  <2>19. CASE UnpinDone(p)  BY <2>19 DEF UnpinDone, UnpinReturns, TryAgain
  <2>20. CASE \E g \in Programs : UnpinProgram(p, g)  BY <2>20 DEF UnpinProgram
  <2>21. CASE \E g \in Programs : UnpinStops(p, g)
    BY <2>21 DEF UnpinStops, UnpinReturns, TryAgain
  <2>22. CASE CleanLock(p)  BY <2>22 DEF CleanLock
  <2>23. CASE CleanRmdir(p)  BY <2>23 DEF CleanRmdir
  <2>24. CASE CleanDone(p)  BY <2>24 DEF CleanDone
  <2>25. CASE \E g \in Programs : CleanUnlink(p, g)  BY <2>25 DEF CleanUnlink
  <2>26. CASE \E d \in visit[p] : CleanQuery(p, d)
    BY <2>26 DEF CleanQuery, ProcInv, Kinds, Cleaning
  <2>27. CASE Crash(p)  BY <2>27 DEF Crash
  <2> QED  BY <2>1, <2>2, <2>3, <2>4, <2>5, <2>6, <2>7, <2>8, <2>9, <2>10, <2>11, <2>12,
                <2>13, <2>14, <2>15, <2>16, <2>17, <2>18, <2>19, <2>20, <2>21, <2>22,
                <2>23, <2>24, <2>25, <2>26, <2>27 DEF Step
<1> QED  BY <1>b, <1>e

LEMMA DispatcherInitially ==
  ASSUME Init
  PROVE  DispatcherInv
<1>1. Types  BY DispatcherAssumption DEF Init, Types, Labels, Tries
<1>2. ASSUME NEW p \in Procs  PROVE ProcInv(p)
  BY <1>2 DEF Init, ProcInv, Kinds, Effects, Reads, Builds, BeforeBuild, Built, Undoing,
              Cleaning, Swapped
<1>3. ASSUME NEW i \in Ids  PROVE Unknown(i)
  BY <1>1, <1>3, IdParts DEF Init, Unknown
<1> QED  BY <1>1, <1>2, <1>3 DEF DispatcherInv

LEMMA DispatcherStep ==
  ASSUME DispatcherInv, [Next]_vars
  PROVE  DispatcherInv'
<1>1. CASE UNCHANGED vars
  <2>1. Types'  BY <1>1 DEF DispatcherInv, Types, vars, sharedVars, readVars, history
  <2>2. ASSUME NEW p \in Procs  PROVE ProcInv(p)'
    BY <1>1, <2>2 DEF DispatcherInv, ProcInv, Kinds, Effects, Reads, Builds, Attaches,
       IsDispatcher, Refusal, NewProgs, NewId, vars, sharedVars, readVars, history
  <2>3. ASSUME NEW i \in Ids  PROVE Unknown(i)'
    BY <1>1, <2>3 DEF DispatcherInv, Unknown, Unbuilt, vars, sharedVars, readVars
  <2> QED  BY <2>1, <2>2, <2>3 DEF DispatcherInv
<1>2. CASE Next
  <2>1. PICK p \in Procs : Start(p) \/ Step(p) \/ Crash(p)  BY <1>2 DEF Next
  <2>2. UNCHANGED job  BY <1>2 DEF Next
  <2>3. Types'  BY <2>1, <2>2, StepTypes
  <2>4. ASSUME NEW q \in Procs  PROVE ProcInv(q)'
    BY <2>1, <2>2, OwnProcInv, OthersProcInv
  <2>5. ASSUME NEW i \in Ids  PROVE Unknown(i)'
    BY <2>1, <2>2, StaysUnknown
  <2> QED  BY <2>3, <2>4, <2>5 DEF DispatcherInv
<1> QED  BY <1>1, <1>2

(* Every behaviour keeps the inductive invariant: what a process read of   *)
(* the attached dispatcher (xdp_multiprog__get_from_ifindex) and built from *)
(* it (xdp_multiprog__generate) stays true of the dispatchers it named,    *)
(* whatever the other processes do before its swap.                        *)
THEOREM DispatcherInvariant == Spec => []DispatcherInv
<1>1. Init => DispatcherInv  BY DispatcherInitially
<1>2. DispatcherInv /\ [Next]_vars => DispatcherInv'  BY DispatcherStep
<1> QED  BY <1>1, <1>2, PTL DEF Spec

-----------------------------------------------------------------------------
(* What a step does to the interface: nothing, or one of three things.     *)
LEMMA InterfaceSteps ==
  ASSUME Types, UNCHANGED job, NEW p \in Procs, Start(p) \/ Step(p) \/ Crash(p)
  PROVE  /\ pc[p] \notin Ended
         /\ \/ attached' = attached /\ effect' = effect
            \/ Swap(p) /\ Expected(p)
            \/ SwapNone(p) /\ Expected(p)
            \/ AttachSingle(p) /\ attached = None
<1> USE DEF Types, Ended, sharedVars, history
<1>1. CASE Start(p)  BY <1>1 DEF Start
<1>2. CASE Query(p)  BY <1>2 DEF Query
<1>3. CASE Open(p)  BY <1>3 DEF Open
<1>4. CASE Disappeared(p)  BY <1>4 DEF Disappeared
<1>5. CASE Read(p)  BY <1>5 DEF Read
<1>6. CASE Check(p)  BY <1>6 DEF Check
<1>7. CASE Generate(p)  BY <1>7 DEF Generate
<1>8. CASE BuildFails(p)  BY <1>8 DEF BuildFails
<1>9. CASE AttachSingle(p)  BY <1>9 DEF AttachSingle
<1>10. CASE PinLock(p)  BY <1>10 DEF PinLock
<1>11. CASE PinDone(p)  BY <1>11 DEF PinDone
<1>12. CASE PinFails(p)  BY <1>12 DEF PinFails
<1>13. CASE \E g \in Programs : PinProgram(p, g)  BY <1>13 DEF PinProgram
<1>14. CASE Swap(p)  BY <1>14 DEF Swap
<1>15. CASE SwapRejected(p)  BY <1>15 DEF SwapRejected
<1>16. CASE SwapNone(p)  BY <1>16 DEF SwapNone
<1>17. CASE Close(p)  BY <1>17 DEF Close
<1>18. CASE UnpinLock(p)  BY <1>18 DEF UnpinLock
<1>19. CASE UnpinDone(p)  BY <1>19 DEF UnpinDone
<1>20. CASE \E g \in Programs : UnpinProgram(p, g)  BY <1>20 DEF UnpinProgram
<1>21. CASE \E g \in Programs : UnpinStops(p, g)  BY <1>21 DEF UnpinStops
<1>22. CASE CleanLock(p)  BY <1>22 DEF CleanLock
<1>23. CASE CleanRmdir(p)  BY <1>23 DEF CleanRmdir
<1>24. CASE CleanDone(p)  BY <1>24 DEF CleanDone
<1>25. CASE \E g \in Programs : CleanUnlink(p, g)  BY <1>25 DEF CleanUnlink
<1>26. CASE \E d \in visit[p] : CleanQuery(p, d)  BY <1>26 DEF CleanQuery
<1>27. CASE Crash(p)  BY <1>27 DEF Crash
<1> QED  BY <1>1, <1>2, <1>3, <1>4, <1>5, <1>6, <1>7, <1>8, <1>9, <1>10, <1>11, <1>12,
              <1>13, <1>14, <1>15, <1>16, <1>17, <1>18, <1>19, <1>20, <1>21, <1>22,
              <1>23, <1>24, <1>25, <1>26, <1>27 DEF Step

(* An operation reports what happened.                                     *)
LEMMA EndsTruthfully ==
  ASSUME DispatcherInv, UNCHANGED job, NEW p \in Procs, Start(p) \/ Step(p) \/ Crash(p)
  PROVE  /\ pc'[p] = "ok" => p \in effect \/ job[p].kind = "clean"
         /\ pc'[p] = "failed" /\ Attaches(p) => p \notin effect
<1>0. Types /\ ProcInv(p)  BY DEF DispatcherInv
<1> USE <1>0 DEF Types, ProcInv, Kinds, Effects, BeforeBuild, Built, Undoing, Cleaning,
                 Swapped, Goto, End
<1>1. CASE Start(p)  BY <1>1 DEF Start
<1>2. CASE Query(p)  BY <1>2 DEF Query, NothingThere
<1>3. CASE Open(p)  BY <1>3 DEF Open, AfterRead
<1>4. CASE Disappeared(p)  BY <1>4 DEF Disappeared, NothingThere
<1>5. CASE Read(p)  BY <1>5 DEF Read, AfterRead
<1>6. CASE Check(p)  BY <1>6 DEF Check
<1>7. CASE Generate(p)  BY <1>7 DEF Generate
<1>8. CASE BuildFails(p)  BY <1>8 DEF BuildFails
<1>9. CASE AttachSingle(p)  BY <1>9 DEF AttachSingle, Changed
<1>10. CASE PinLock(p)  BY <1>10 DEF PinLock
<1>11. CASE PinDone(p)  BY <1>11 DEF PinDone
<1>12. CASE PinFails(p)  BY <1>12 DEF PinFails
<1>13. CASE \E g \in Programs : PinProgram(p, g)  BY <1>13 DEF PinProgram
<1>14. CASE Swap(p)  BY <1>14 DEF Swap, Changed
<1>15. CASE SwapRejected(p)  BY <1>15 DEF SwapRejected
<1>16. CASE SwapNone(p)  BY <1>16 DEF SwapNone, Changed, TryAgain
<1>17. CASE Close(p)  BY <1>17 DEF Close
<1>18. CASE UnpinLock(p)  BY <1>18 DEF UnpinLock
<1>19. CASE UnpinDone(p)  BY <1>19 DEF UnpinDone, UnpinReturns, TryAgain
<1>20. CASE \E g \in Programs : UnpinProgram(p, g)  BY <1>20 DEF UnpinProgram
<1>21. CASE \E g \in Programs : UnpinStops(p, g)
  BY <1>21 DEF UnpinStops, UnpinReturns, TryAgain
<1>22. CASE CleanLock(p)  BY <1>22 DEF CleanLock
<1>23. CASE CleanRmdir(p)  BY <1>23 DEF CleanRmdir
<1>24. CASE CleanDone(p)  BY <1>24 DEF CleanDone
<1>25. CASE \E g \in Programs : CleanUnlink(p, g)  BY <1>25 DEF CleanUnlink
<1>26. CASE \E d \in visit[p] : CleanQuery(p, d)  BY <1>26 DEF CleanQuery
<1>27. CASE Crash(p)  BY <1>27 DEF Crash
<1> QED  BY <1>1, <1>2, <1>3, <1>4, <1>5, <1>6, <1>7, <1>8, <1>9, <1>10, <1>11, <1>12,
              <1>13, <1>14, <1>15, <1>16, <1>17, <1>18, <1>19, <1>20, <1>21, <1>22,
              <1>23, <1>24, <1>25, <1>26, <1>27 DEF Step

-----------------------------------------------------------------------------
Exclusive == attached # None /\ ~IsDispatcher(attached)
Result == [p \in Procs |-> IF pc[p] \in Ended THEN pc[p] ELSE "pending"]

LEMMA ResultOf ==
  ASSUME Types, UNCHANGED job, NEW p \in Procs, Start(p) \/ Step(p) \/ Crash(p)
  PROVE  /\ Result[p] = "pending"
         /\ pc'[p] \notin Ended => Result' = Result
         /\ pc'[p] \in Ended => Result' = [Result EXCEPT ![p] = pc'[p]]
<1>1. pc[p] \notin Ended  BY InterfaceSteps
<1>2. \A q \in Procs \ {p} : pc'[q] = pc[q]  BY OthersUntouched
<1>3. Result[p] = "pending"  BY <1>1 DEF Result
<1>4. CASE pc'[p] \notin Ended
  <2>1. \A q \in Procs : Result'[q] = Result[q]  BY <1>1, <1>2, <1>4 DEF Result
  <2> QED  BY <1>3, <1>4, <2>1 DEF Result
<1>5. CASE pc'[p] \in Ended
  <2>1. /\ Result'[p] = pc'[p]
        /\ \A q \in Procs \ {p} : Result'[q] = Result[q]
    BY <1>2, <1>5 DEF Result
  <2> QED  BY <1>3, <1>5, <2>1 DEF Result
<1> QED  BY <1>4, <1>5

(* A swap that finds the dispatcher it read applies the operation to the   *)
(* programs that are there.                                                *)
LEMMA SwapApplies ==
  ASSUME DispatcherInv, UNCHANGED job, NEW p \in Procs, Swap(p), Expected(p)
  PROVE  /\ ~Exclusive /\ ~Exclusive' /\ p \notin effect /\ effect' = effect \cup {p}
         /\ pc'[p] \notin Ended
         /\ \/ /\ job[p].kind = "attach"
               /\ Fits(Configured \cup job[p].progs)
               /\ Configured' = Configured \cup job[p].progs
            \/ /\ job[p].kind = "detach" /\ job[p].progs \subseteq Configured
               /\ Configured' = Configured \ job[p].progs
<1>0. Types /\ ProcInv(p)  BY DEF DispatcherInv
<1>1. /\ attached = old[p] /\ attached' = new[p] /\ comps' = comps
      /\ pc[p] = "swap" /\ effect' = effect \cup {p} /\ pc'[p] \notin Ended
  BY <1>0 DEF Types, Swap, Expected, Changed, Goto, Ended
<1>2. /\ job[p].kind \in {"attach", "detach"} /\ p \notin effect
      /\ ~legacy[p] /\ Refusal(p) = "none" /\ new[p] = NewId(p)
      /\ comps[new[p]] = NewProgs(p)
  BY <1>0, <1>1 DEF ProcInv, Kinds, Effects, Builds, Built
<1>3. Configured = oldProgs[p] /\ ~Exclusive
  BY <1>0, <1>1, <1>2 DEF ProcInv, Reads, Built, Configured, Exclusive
<1>4. new[p] # None /\ IsDispatcher(new[p])
  BY <1>0, <1>2, IdParts DEF IsDispatcher
<1>5. Configured' = NewProgs(p) /\ ~Exclusive'
  BY <1>1, <1>2, <1>4 DEF Configured, Exclusive, IsDispatcher
<1>6. Fits(NewProgs(p))  BY <1>2 DEF Refusal
<1>7. CASE job[p].kind = "attach"
  BY <1>1, <1>2, <1>3, <1>5, <1>6, <1>7 DEF NewProgs, Attaches
<1>8. CASE job[p].kind = "detach"
  <2>1. job[p].progs \subseteq oldProgs[p]  BY <1>0, <1>1, <1>8 DEF ProcInv, Reads, Built
  <2> QED  BY <1>1, <1>2, <1>3, <1>5, <1>8, <2>1 DEF NewProgs, Attaches
<1> QED  BY <1>2, <1>7, <1>8

LEMMA SwapNoneApplies ==
  ASSUME DispatcherInv, UNCHANGED job, NEW p \in Procs, SwapNone(p), Expected(p)
  PROVE  /\ ~Exclusive' /\ p \notin effect /\ effect' = effect \cup {p}
         /\ pc'[p] \notin Ended /\ Configured' = {}
         /\ \/ job[p].kind = "detach" /\ job[p].progs = Configured
            \/ job[p].kind = "detachall"
<1>0. Types /\ ProcInv(p)  BY DEF DispatcherInv
<1>1. /\ attached = old[p] /\ attached' = None
      /\ pc[p] = "swapnone" /\ effect' = effect \cup {p} /\ pc'[p] \notin Ended
  BY <1>0 DEF Types, SwapNone, Expected, Changed, Goto, Ended
<1>2. /\ job[p].kind \in {"detach", "detachall"} /\ p \notin effect /\ old[p] # None
      /\ job[p].kind = "detach" => job[p].progs = comps[old[p]]
  BY <1>0, <1>1 DEF ProcInv, Kinds, Effects, Reads, Built, Attaches
<1> QED  BY <1>1, <1>2 DEF Configured, Exclusive

LEMMA SingleApplies ==
  ASSUME DispatcherInv, UNCHANGED job, NEW p \in Procs, AttachSingle(p), attached = None
  PROVE  /\ ~Exclusive /\ Exclusive' /\ p \notin effect /\ effect' = effect \cup {p}
         /\ pc'[p] \notin Ended /\ job[p].kind = "single"
         /\ Configured = {} /\ Configured' = job[p].progs
<1>0. Types /\ ProcInv(p)  BY DEF DispatcherInv
<1>1. /\ attached' = NewId(p) /\ comps' = [comps EXCEPT ![NewId(p)] = job[p].progs]
      /\ job[p].kind = "single" /\ pc[p] = "generate"
      /\ effect' = effect \cup {p} /\ pc'[p] \notin Ended
  BY <1>0 DEF Types, AttachSingle, Changed, Goto, Ended
<1>2. NewId(p) \in Ids /\ NewId(p) # None /\ NewId(p)[1] = p  BY <1>0, IdParts
<1>3. p \notin effect  BY <1>0, <1>1 DEF ProcInv, Effects, BeforeBuild
<1>4. comps'[NewId(p)] = job[p].progs  BY <1>0, <1>1, <1>2 DEF Types
<1> QED  BY <1>1, <1>2, <1>3, <1>4 DEF Configured, Exclusive, IsDispatcher

(* Steps that leave the attached program leave the interface.              *)
LEMMA InterfaceKept ==
  ASSUME DispatcherInv, UNCHANGED job, NEW p \in Procs, Start(p) \/ Step(p) \/ Crash(p),
         attached' = attached
  PROVE  Configured' = Configured /\ Exclusive' = Exclusive
<1>1. attached # None => comps'[attached] = comps[attached]
  BY KnownKept DEF DispatcherInv, Types
<1> QED  BY <1>1 DEF Configured, Exclusive, IsDispatcher

(* Dispatcher implements XdpInterface (libxdp.c 1778-2034, protocol.org    *)
(* "Atomic replace and retry"): every interleaving of attach, detach and   *)
(* clean, with failures, retries and crashes, changes the interface by     *)
(* whole operations, each at most once.                                    *)
THEOREM Atomicity == Spec => AtomicOperations
<1>1. Init => Interface!Init
  BY DEF Init, Interface!Init, Configured, Ended
<1>2. DispatcherInv /\ [Next]_vars => [Interface!Next]_(Interface!absVars)
  <2> SUFFICES ASSUME DispatcherInv, [Next]_vars
               PROVE  [Interface!Next]_(Interface!absVars)
    OBVIOUS
  <2>1. CASE UNCHANGED vars
    BY <2>1 DEF Interface!absVars, Configured, IsDispatcher, vars, sharedVars, history
  <2>2. CASE Next
    <3>0. Types  BY DEF DispatcherInv
    <3>1. PICK p \in Procs : Start(p) \/ Step(p) \/ Crash(p)  BY <2>2 DEF Next
    <3>2. UNCHANGED job  BY <2>2 DEF Next
    <3>3. /\ Result[p] = "pending"
          /\ pc'[p] \notin Ended => Result' = Result
          /\ pc'[p] \in Ended => Result' = [Result EXCEPT ![p] = pc'[p]]
      BY <3>0, <3>1, <3>2, ResultOf
    <3>4. CASE attached' = attached /\ effect' = effect
      <4>1. Configured' = Configured /\ Exclusive' = Exclusive
        BY <3>1, <3>2, <3>4, InterfaceKept
      <4>2. CASE pc'[p] \notin Ended
        BY <3>2, <3>3, <3>4, <4>1, <4>2 DEF Interface!absVars, Result, Exclusive
      <4>3. CASE pc'[p] \in Ended
        <5>1. /\ pc'[p] = "ok" => p \in effect \/ job[p].kind = "clean"
              /\ pc'[p] = "failed" /\ Attaches(p) => p \notin effect
          BY <3>1, <3>2, EndsTruthfully
        <5>2. PICK r \in {"ok", "failed", "crashed"} : r = pc'[p]  BY <4>3 DEF Ended
        <5>3. Interface!Return(p, r)
          BY <3>3, <3>4, <4>1, <4>3, <5>1, <5>2
          DEF Interface!Return, Result, Exclusive, Attaches
        <5> QED  BY <3>2, <5>3 DEF Interface!Next
      <4> QED  BY <4>2, <4>3
    <3>5. CASE Swap(p) /\ Expected(p)
      <4>0. /\ ~Exclusive /\ ~Exclusive' /\ p \notin effect /\ effect' = effect \cup {p}
            /\ Result[p] = "pending" /\ Result' = Result
            /\ \/ /\ job[p].kind = "attach"
                  /\ Fits(Configured \cup job[p].progs)
                  /\ Configured' = Configured \cup job[p].progs
               \/ /\ job[p].kind = "detach" /\ job[p].progs \subseteq Configured
                  /\ Configured' = Configured \ job[p].progs
        BY <3>2, <3>3, <3>5, SwapApplies
      <4>1. Interface!Attach(p) \/ Interface!Detach(p)
        BY <4>0 DEF Interface!Attach, Interface!Detach, Exclusive
      <4>2. Interface!Apply(p)  BY <4>0, <4>1 DEF Interface!Apply, Result
      <4> QED  BY <3>2, <4>2 DEF Interface!Next
    <3>6. CASE SwapNone(p) /\ Expected(p)
      <4>1. Interface!Apply(p)
        BY <3>2, <3>3, <3>6, SwapNoneApplies
        DEF Interface!Apply, Interface!Detach, Interface!DetachAll, Result, Exclusive
      <4> QED  BY <3>2, <4>1 DEF Interface!Next
    <3>7. CASE AttachSingle(p) /\ attached = None
      <4>1. Interface!Apply(p)
        BY <3>2, <3>3, <3>7, SingleApplies
        DEF Interface!Apply, Interface!Attach, Result, Exclusive
      <4> QED  BY <3>2, <4>1 DEF Interface!Next
    <3> QED  BY <3>0, <3>1, <3>2, <3>4, <3>5, <3>6, <3>7, InterfaceSteps
  <2> QED  BY <2>1, <2>2
<1> QED  BY <1>1, <1>2, DispatcherInvariant, PTL DEF Spec, AtomicOperations, Interface!Spec

-----------------------------------------------------------------------------
(***************************************************************************)
(* However many processes attach, detach, fail or die, the links of the    *)
(* attached dispatcher are pinned, unless a clean that looked before the   *)
(* swap removed them.  No step of the argument needs the lock: what was    *)
(* pinned and not swapped in yet is private to its builder (Private), and  *)
(* one whose pins are being removed was replaced before and never comes    *)
(* back (Replaced).                                                        *)
(***************************************************************************)

Unswapped(i) ==
  \/ Unbuilt(i)
  \/ retry[i[1]] = i[2] /\ pc[i[1]] \in Built \cup Undoing
Private(i) ==
  Unswapped(i) =>
    /\ attached # i
    /\ \A q \in Procs : old[q] # i
    /\ \A q \in Procs : job[q].kind # "clean" => cand[q] # i

Pinned(i) == i \in swept \/ comps[i] \subseteq pins[i]
Ready(p) ==
  /\ pc[p] \in Undoing => new[p] = NewId(p)
  /\ pc[p] = "swap" => Pinned(new[p])
Replaced(p) ==
  pc[p] \in {"unpinold", "unpinningold"} => old[p] # None /\ attached # old[p]

LinkInv ==
  /\ DispatcherInv
  /\ pins \in [Ids -> SUBSET Programs]
  /\ \A i \in Ids : Private(i)
  /\ \A p \in Procs : Ready(p) /\ Replaced(p)
  /\ LinksSurvive

-----------------------------------------------------------------------------
(* A dispatcher that was swapped in, or given up, does not become private  *)
(* again.                                                                  *)
LEMMA StaysSwapped ==
  ASSUME DispatcherInv, UNCHANGED job, NEW p \in Procs, Start(p) \/ Step(p) \/ Crash(p),
         NEW i \in Ids, Unswapped(i)'
  PROVE  Unswapped(i)
<1>0. Types /\ Types' /\ ProcInv(p)  BY StepTypes DEF DispatcherInv
<1>a. i[1] \in Procs /\ i[2] \in Int /\ retry[i[1]] \in Int
  BY <1>0, IdParts, DispatcherAssumption DEF Types, Tries
<1>b. CASE i[1] # p  BY <1>0, <1>a, <1>b, OthersUntouched DEF Unswapped, Unbuilt
<1>c. \/ retry'[p] = retry[p] /\ (pc'[p] \in Built \cup Undoing =>
                                  pc[p] \in {"generate"} \cup Built \cup Undoing)
      \/ retry'[p] = retry[p] + 1
  <2> USE <1>0 DEF Types, Built, Undoing, Ended, Goto, End, readVars
  <2>1. CASE Start(p)  BY <2>1 DEF Start
  <2>2. CASE Query(p)  BY <2>2 DEF Query, NothingThere
  <2>3. CASE Open(p)  BY <2>3 DEF Open, AfterRead
  <2>4. CASE Disappeared(p)  BY <2>4 DEF Disappeared, NothingThere
  <2>5. CASE Read(p)  BY <2>5 DEF Read, AfterRead
  <2>6. CASE Check(p)  BY <2>6 DEF Check
  <2>7. CASE Generate(p)  BY <2>7 DEF Generate
  <2>8. CASE BuildFails(p)  BY <2>8 DEF BuildFails
  <2>9. CASE AttachSingle(p)  BY <2>9 DEF AttachSingle, Changed
  <2>10. CASE PinLock(p)  BY <2>10 DEF PinLock
  <2>11. CASE PinDone(p)  BY <2>11 DEF PinDone
  <2>12. CASE PinFails(p)  BY <2>12 DEF PinFails
  <2>13. CASE \E g \in Programs : PinProgram(p, g)  BY <2>13 DEF PinProgram
  <2>14. CASE Swap(p)  BY <2>14 DEF Swap, Changed
  <2>15. CASE SwapRejected(p)  BY <2>15 DEF SwapRejected
  <2>16. CASE SwapNone(p)  BY <2>16 DEF SwapNone, Changed, TryAgain
  <2>17. CASE Close(p)  BY <2>17 DEF Close
  <2>18. CASE UnpinLock(p)  BY <2>18 DEF UnpinLock
  <2>19. CASE UnpinDone(p)  BY <2>19 DEF UnpinDone, UnpinReturns, TryAgain
  <2>20. CASE \E g \in Programs : UnpinProgram(p, g)  BY <2>20 DEF UnpinProgram
  <2>21. CASE \E g \in Programs : UnpinStops(p, g)
    BY <2>21 DEF UnpinStops, UnpinReturns, TryAgain
  <2>22. CASE CleanLock(p)  BY <2>22 DEF CleanLock
  <2>23. CASE CleanRmdir(p)  BY <2>23 DEF CleanRmdir
  <2>24. CASE CleanDone(p)  BY <2>24 DEF CleanDone
  <2>25. CASE \E g \in Programs : CleanUnlink(p, g)  BY <2>25 DEF CleanUnlink
  <2>26. CASE \E d \in visit[p] : CleanQuery(p, d)  BY <2>26 DEF CleanQuery
  <2>27. CASE Crash(p)  BY <2>27 DEF Crash
  <2> QED  BY <2>1, <2>2, <2>3, <2>4, <2>5, <2>6, <2>7, <2>8, <2>9, <2>10, <2>11, <2>12,
                <2>13, <2>14, <2>15, <2>16, <2>17, <2>18, <2>19, <2>20, <2>21, <2>22,
                <2>23, <2>24, <2>25, <2>26, <2>27 DEF Step
<1>d. CASE Unbuilt(i)'  BY <1>d, StaysBuilt DEF Unswapped
<1>e. CASE i[1] = p /\ ~Unbuilt(i)'
  BY <1>a, <1>c, <1>e DEF Unswapped, Unbuilt, BeforeBuild
<1> QED  BY <1>b, <1>d, <1>e

(* A private dispatcher stays private until its builder swaps it in.       *)
LEMMA StaysPrivate ==
  ASSUME DispatcherInv, UNCHANGED job, NEW p \in Procs, Start(p) \/ Step(p) \/ Crash(p),
         NEW i \in Ids, Private(i)
  PROVE  Private(i)'
<1> SUFFICES ASSUME Unswapped(i)'
             PROVE  /\ attached' # i
                    /\ \A q \in Procs : old'[q] # i
                    /\ \A q \in Procs : job[q].kind # "clean" => cand'[q] # i
  BY DEF Private
<1>0. Types /\ ProcInv(p)  BY DEF DispatcherInv
<1>a. /\ attached # i
      /\ \A q \in Procs : old[q] # i
      /\ \A q \in Procs : job[q].kind # "clean" => cand[q] # i
  BY StaysSwapped DEF Private
<1>b. \A q \in Procs \ {p} : old'[q] # i /\ (job[q].kind # "clean" => cand'[q] # i)
  BY <1>0, <1>a, OthersUntouched
<1>c. None # i  BY <1>0, IdParts
<1>d. i = NewId(p) /\ retry'[p] = retry[p] =>
        pc'[p] \in BeforeBuild \cup Built \cup Undoing
  BY <1>0, IdParts, DispatcherAssumption DEF Unswapped, Unbuilt, Types, Tries
<1>e. attached' # i /\ old'[p] # i /\ (job[p].kind # "clean" => cand'[p] # i)
  <2> USE <1>0, <1>a, <1>c DEF Types, Goto, End, sharedVars, readVars, history
  <2>1. CASE Start(p)  BY <2>1 DEF Start
  <2>2. CASE Query(p)  BY <2>2 DEF Query, NothingThere
  <2>3. CASE Open(p)  BY <2>3 DEF Open, AfterRead, ProcInv, Kinds
  <2>4. CASE Disappeared(p)  BY <2>4 DEF Disappeared, NothingThere
  <2>5. CASE Read(p)  BY <2>5 DEF Read, AfterRead
  <2>6. CASE Check(p)  BY <2>6 DEF Check
  <2>7. CASE Generate(p)  BY <2>7 DEF Generate
  <2>8. CASE BuildFails(p)  BY <2>8 DEF BuildFails
  <2>9. CASE AttachSingle(p)
    BY <2>9, <1>d DEF AttachSingle, Changed, BeforeBuild, Built, Undoing
  <2>10. CASE PinLock(p)  BY <2>10 DEF PinLock
  <2>11. CASE PinDone(p)  BY <2>11 DEF PinDone
  <2>12. CASE PinFails(p)  BY <2>12 DEF PinFails
  <2>13. CASE \E g \in Programs : PinProgram(p, g)  BY <2>13 DEF PinProgram
  <2>14. CASE Swap(p)
    BY <2>14, <1>d DEF Swap, Changed, ProcInv, Builds, BeforeBuild, Built, Undoing
  <2>15. CASE SwapRejected(p)  BY <2>15 DEF SwapRejected
  <2>16. CASE SwapNone(p)  BY <2>16 DEF SwapNone, Changed, TryAgain
  <2>17. CASE Close(p)  BY <2>17 DEF Close
  <2>18. CASE UnpinLock(p)  BY <2>18 DEF UnpinLock
  <2>19. CASE UnpinDone(p)  BY <2>19 DEF UnpinDone, UnpinReturns, TryAgain
  <2>20. CASE \E g \in Programs : UnpinProgram(p, g)  BY <2>20 DEF UnpinProgram
  <2>21. CASE \E g \in Programs : UnpinStops(p, g)
    BY <2>21 DEF UnpinStops, UnpinReturns, TryAgain
  <2>22. CASE CleanLock(p)  BY <2>22 DEF CleanLock
  <2>23. CASE CleanRmdir(p)  BY <2>23 DEF CleanRmdir
  <2>24. CASE CleanDone(p)  BY <2>24 DEF CleanDone
  <2>25. CASE \E g \in Programs : CleanUnlink(p, g)  BY <2>25 DEF CleanUnlink
  <2>26. CASE \E d \in visit[p] : CleanQuery(p, d)
    BY <2>26 DEF CleanQuery, ProcInv, Kinds, Cleaning
  <2>27. CASE Crash(p)  BY <2>27 DEF Crash
  <2> QED  BY <2>1, <2>2, <2>3, <2>4, <2>5, <2>6, <2>7, <2>8, <2>9, <2>10, <2>11, <2>12,
                <2>13, <2>14, <2>15, <2>16, <2>17, <2>18, <2>19, <2>20, <2>21, <2>22,
                <2>23, <2>24, <2>25, <2>26, <2>27 DEF Step
<1> QED  BY <1>b, <1>e

-----------------------------------------------------------------------------
(* Who removes pins: the builder of a dispatcher that was not swapped in,  *)
(* the process that replaced one, and clean.                               *)
LEMMA PinsChange ==
  ASSUME DispatcherInv, pins \in [Ids -> SUBSET Programs], UNCHANGED job,
         NEW p \in Procs, Start(p) \/ Step(p) \/ Crash(p)
  PROVE  /\ pins' \in [Ids -> SUBSET Programs] /\ swept \subseteq swept'
         /\ \A i \in Ids :
              \/ pins[i] \subseteq pins'[i]
              \/ i \in swept'
              \/ i = new[p] /\ pc[p] \in {"pinning"} \cup Undoing
              \/ i = old[p] /\ pc[p] = "unpinningold"
<1>0. Types /\ ProcInv(p)  BY DEF DispatcherInv
<1>1. ASSUME NEW g \in Programs, PinProgram(p, g)
      PROVE  /\ pins' \in [Ids -> SUBSET Programs] /\ swept' = swept
             /\ \A i \in Ids : pins[i] \subseteq pins'[i]
  BY <1>0, <1>1 DEF PinProgram, history
<1>2. CASE PinFails(p)
  <2>1. pc[p] = "pinning" /\ swept' = swept /\ pins' = [pins EXCEPT ![new[p]] = {}]
    BY <1>2 DEF PinFails, history
  <2> QED  BY <2>1
<1>3. ASSUME NEW g \in Programs, UnpinProgram(p, g)
      PROVE  /\ pins' = [pins EXCEPT ![Target(p)] = @ \ {g}] /\ swept' = swept
             /\ \/ Target(p) = old[p] /\ pc[p] = "unpinningold"
                \/ Target(p) = new[p] /\ pc[p] \in Undoing
  BY <1>3 DEF UnpinProgram, Target, Undoing, history
<1>4. ASSUME NEW g \in Programs, CleanUnlink(p, g)
      PROVE  pins' = [pins EXCEPT ![cand[p]] = @ \ {g}] /\ swept' = swept \cup {cand[p]}
  BY <1>4 DEF CleanUnlink
<1>5. ASSUME ~PinFails(p),
             \A g \in Programs :
               ~PinProgram(p, g) /\ ~UnpinProgram(p, g) /\ ~CleanUnlink(p, g)
      PROVE  pins' = pins /\ swept \subseteq swept'
  <2> USE <1>5 DEF sharedVars, history, Changed
  <2>1. CASE Start(p)  BY <2>1 DEF Start
  <2>2. CASE Query(p)  BY <2>2 DEF Query
  <2>3. CASE Open(p)  BY <2>3 DEF Open
  <2>4. CASE Disappeared(p)  BY <2>4 DEF Disappeared
  <2>5. CASE Read(p)  BY <2>5 DEF Read
  <2>6. CASE Check(p)  BY <2>6 DEF Check
  <2>7. CASE Generate(p)  BY <2>7 DEF Generate
  <2>8. CASE BuildFails(p)  BY <2>8 DEF BuildFails
  <2>9. CASE AttachSingle(p)  BY <2>9 DEF AttachSingle
  <2>10. CASE PinLock(p)  BY <2>10 DEF PinLock
  <2>11. CASE PinDone(p)  BY <2>11 DEF PinDone
  <2>12. CASE PinFails(p)  BY <2>12
  <2>13. CASE \E g \in Programs : PinProgram(p, g)  BY <2>13
  <2>14. CASE Swap(p)  BY <2>14 DEF Swap
  <2>15. CASE SwapRejected(p)  BY <2>15 DEF SwapRejected
  <2>16. CASE SwapNone(p)  BY <2>16 DEF SwapNone
  <2>17. CASE Close(p)  BY <2>17 DEF Close
  <2>18. CASE UnpinLock(p)  BY <2>18 DEF UnpinLock
  <2>19. CASE UnpinDone(p)  BY <2>19 DEF UnpinDone
  <2>20. CASE \E g \in Programs : UnpinProgram(p, g)  BY <2>20
  <2>21. CASE \E g \in Programs : UnpinStops(p, g)  BY <2>21 DEF UnpinStops
  <2>22. CASE CleanLock(p)  BY <2>22 DEF CleanLock
  <2>23. CASE CleanRmdir(p)  BY <2>23 DEF CleanRmdir
  <2>24. CASE CleanDone(p)  BY <2>24 DEF CleanDone
  <2>25. CASE \E g \in Programs : CleanUnlink(p, g)  BY <2>25
  <2>26. CASE \E d \in visit[p] : CleanQuery(p, d)  BY <2>26 DEF CleanQuery
  <2>27. CASE Crash(p)  BY <2>27 DEF Crash
  <2> QED  BY <2>1, <2>2, <2>3, <2>4, <2>5, <2>6, <2>7, <2>8, <2>9, <2>10, <2>11, <2>12,
                <2>13, <2>14, <2>15, <2>16, <2>17, <2>18, <2>19, <2>20, <2>21, <2>22,
                <2>23, <2>24, <2>25, <2>26, <2>27 DEF Step
<1>6. CASE \E g \in Programs : PinProgram(p, g)  BY <1>1, <1>6
<1>7. CASE \E g \in Programs : UnpinProgram(p, g)
  <2>1. PICK g \in Programs : UnpinProgram(p, g)  BY <1>7
  <2> DEFINE T == Target(p)
  <2>2. /\ pins' = [pins EXCEPT ![T] = @ \ {g}] /\ swept' = swept
        /\ \/ T = old[p] /\ pc[p] = "unpinningold"
           \/ T = new[p] /\ pc[p] \in Undoing
    BY <1>3, <2>1
  <2> HIDE DEF T
  <2>3. pins' \in [Ids -> SUBSET Programs]  BY <2>2
  <2>4. \A i \in Ids : i # T => pins'[i] = pins[i]  BY <2>2
  <2> QED  BY <2>2, <2>3, <2>4
<1>8. CASE \E g \in Programs : CleanUnlink(p, g)
  <2>1. PICK g \in Programs : CleanUnlink(p, g)  BY <1>8
  <2> DEFINE C == cand[p]
  <2>2. pins' = [pins EXCEPT ![C] = @ \ {g}] /\ swept' = swept \cup {C}
    BY <1>4, <2>1
  <2> HIDE DEF C
  <2>3. pins' \in [Ids -> SUBSET Programs]  BY <2>2
  <2>4. \A i \in Ids : i # C => pins'[i] = pins[i]  BY <2>2
  <2> QED  BY <2>2, <2>3, <2>4
<1>9. CASE /\ ~PinFails(p)
           /\ \A g \in Programs : /\ ~PinProgram(p, g) /\ ~UnpinProgram(p, g)
                                  /\ ~CleanUnlink(p, g)
  BY <1>5, <1>9
<1> QED  BY <1>2, <1>6, <1>7, <1>8, <1>9

(* A dispatcher that is private to another process, or attached, keeps its *)
(* pins.                                                                   *)
LEMMA PinnedKept ==
  ASSUME LinkInv, UNCHANGED job, NEW p \in Procs, Start(p) \/ Step(p) \/ Crash(p),
         NEW i \in Ids, Pinned(i),
         i = attached \/ \E q \in Procs \ {p} : i = NewId(q) /\ pc[q] = "swap"
  PROVE  Pinned(i)'
<1>0. /\ Types /\ ProcInv(p) /\ Ready(p) /\ Replaced(p) /\ Private(i)
      /\ \A q \in Procs : Private(NewId(q)) /\ ProcInv(q)
  BY IdParts DEF LinkInv, DispatcherInv
<1>1. ~(i = NewId(p) /\ pc[p] \in {"generate"} \cup Built \cup Undoing)
  BY <1>0, IdParts DEF Private, Unswapped, Unbuilt, BeforeBuild
<1>2. ~(i = new[p] /\ pc[p] \in {"pinning"} \cup Undoing)
  BY <1>0, <1>1 DEF ProcInv, Builds, Ready, Built
<1>3. ~(i = old[p] /\ pc[p] = "unpinningold")
  <2>1. CASE i = attached  BY <1>0, <2>1 DEF Replaced
  <2>2. CASE \E q \in Procs \ {p} : i = NewId(q) /\ pc[q] = "swap"
    BY <1>0, <2>2, IdParts DEF Private, Unswapped, Built
  <2> QED  BY <2>1, <2>2
<1>4. comps'[i] = comps[i]  BY <1>0, <1>1, CompsChange
<1>5. /\ swept \subseteq swept'
      /\ pins[i] \subseteq pins'[i] \/ i \in swept'
  BY <1>2, <1>3, PinsChange DEF LinkInv
<1> QED  BY <1>4, <1>5 DEF Pinned

(* What the process that takes the step knows of the links it made.        *)
LEMMA OwnReady ==
  ASSUME LinkInv, UNCHANGED job, NEW p \in Procs, Start(p) \/ Step(p) \/ Crash(p)
  PROVE  Ready(p)'
<1>0. Types /\ ProcInv(p) /\ Ready(p)  BY DEF LinkInv, DispatcherInv
<1>a. pc'[p] \in Undoing => new'[p] = NewId(p)'
  <2> USE <1>0 DEF Types, Ready, Undoing, NewId, Ended, Goto, End, sharedVars, readVars
  <2>1. CASE Start(p)  BY <2>1 DEF Start
  <2>2. CASE Query(p)  BY <2>2 DEF Query, NothingThere
  <2>3. CASE Open(p)  BY <2>3 DEF Open, AfterRead
  <2>4. CASE Disappeared(p)  BY <2>4 DEF Disappeared, NothingThere
  <2>5. CASE Read(p)  BY <2>5 DEF Read, AfterRead
  <2>6. CASE Check(p)  BY <2>6 DEF Check
  <2>7. CASE Generate(p)  BY <2>7 DEF Generate
  <2>8. CASE BuildFails(p)  BY <2>8 DEF BuildFails
  <2>9. CASE AttachSingle(p)  BY <2>9 DEF AttachSingle, Changed
  <2>10. CASE PinLock(p)  BY <2>10 DEF PinLock
  <2>11. CASE PinDone(p)  BY <2>11 DEF PinDone
  <2>12. CASE PinFails(p)  BY <2>12 DEF PinFails
  <2>13. CASE \E g \in Programs : PinProgram(p, g)  BY <2>13 DEF PinProgram
  <2>14. CASE Swap(p)  BY <2>14 DEF Swap, Changed, ProcInv, Builds, Built
  <2>15. CASE SwapRejected(p)  BY <2>15 DEF SwapRejected, ProcInv, Builds, Built
  <2>16. CASE SwapNone(p)  BY <2>16 DEF SwapNone, Changed, TryAgain
  <2>17. CASE Close(p)  BY <2>17 DEF Close
  <2>18. CASE UnpinLock(p)  BY <2>18 DEF UnpinLock
  <2>19. CASE UnpinDone(p)  BY <2>19 DEF UnpinDone, UnpinReturns, TryAgain
  <2>20. CASE \E g \in Programs : UnpinProgram(p, g)  BY <2>20 DEF UnpinProgram
  <2>21. CASE \E g \in Programs : UnpinStops(p, g)
    BY <2>21 DEF UnpinStops, UnpinReturns, TryAgain
  <2>22. CASE CleanLock(p)  BY <2>22 DEF CleanLock
  <2>23. CASE CleanRmdir(p)  BY <2>23 DEF CleanRmdir
  <2>24. CASE CleanDone(p)  BY <2>24 DEF CleanDone
  <2>25. CASE \E g \in Programs : CleanUnlink(p, g)  BY <2>25 DEF CleanUnlink
  <2>26. CASE \E d \in visit[p] : CleanQuery(p, d)  BY <2>26 DEF CleanQuery
  <2>27. CASE Crash(p)  BY <2>27 DEF Crash
  <2> QED  BY <2>1, <2>2, <2>3, <2>4, <2>5, <2>6, <2>7, <2>8, <2>9, <2>10, <2>11, <2>12,
                <2>13, <2>14, <2>15, <2>16, <2>17, <2>18, <2>19, <2>20, <2>21, <2>22,
                <2>23, <2>24, <2>25, <2>26, <2>27 DEF Step
<1>b. pc'[p] = "swap" => Pinned(new[p])' /\ new'[p] = new[p]
  <2> USE <1>0 DEF Types, Ready, Ended, Goto, End, sharedVars, readVars
  <2>1. CASE Start(p)  BY <2>1 DEF Start
  <2>2. CASE Query(p)  BY <2>2 DEF Query, NothingThere
  <2>3. CASE Open(p)  BY <2>3 DEF Open, AfterRead
  <2>4. CASE Disappeared(p)  BY <2>4 DEF Disappeared, NothingThere
  <2>5. CASE Read(p)  BY <2>5 DEF Read, AfterRead
  <2>6. CASE Check(p)  BY <2>6 DEF Check
  <2>7. CASE Generate(p)  BY <2>7 DEF Generate
  <2>8. CASE BuildFails(p)  BY <2>8 DEF BuildFails
  <2>9. CASE AttachSingle(p)  BY <2>9 DEF AttachSingle, Changed
  <2>10. CASE PinLock(p)  BY <2>10 DEF PinLock
  <2>11. CASE PinDone(p)  BY <2>11 DEF PinDone, PinnedAll, Pinned
  <2>12. CASE PinFails(p)  BY <2>12 DEF PinFails
  <2>13. CASE \E g \in Programs : PinProgram(p, g)  BY <2>13 DEF PinProgram
  <2>14. CASE Swap(p)  BY <2>14 DEF Swap, Changed
  <2>15. CASE SwapRejected(p)  BY <2>15 DEF SwapRejected
  <2>16. CASE SwapNone(p)  BY <2>16 DEF SwapNone, Changed, TryAgain
  <2>17. CASE Close(p)  BY <2>17 DEF Close
  <2>18. CASE UnpinLock(p)  BY <2>18 DEF UnpinLock
  <2>19. CASE UnpinDone(p)  BY <2>19 DEF UnpinDone, UnpinReturns, TryAgain
  <2>20. CASE \E g \in Programs : UnpinProgram(p, g)  BY <2>20 DEF UnpinProgram
  <2>21. CASE \E g \in Programs : UnpinStops(p, g)
    BY <2>21 DEF UnpinStops, UnpinReturns, TryAgain
  <2>22. CASE CleanLock(p)  BY <2>22 DEF CleanLock
  <2>23. CASE CleanRmdir(p)  BY <2>23 DEF CleanRmdir
  <2>24. CASE CleanDone(p)  BY <2>24 DEF CleanDone
  <2>25. CASE \E g \in Programs : CleanUnlink(p, g)  BY <2>25 DEF CleanUnlink
  <2>26. CASE \E d \in visit[p] : CleanQuery(p, d)  BY <2>26 DEF CleanQuery
  <2>27. CASE Crash(p)  BY <2>27 DEF Crash
  <2> QED  BY <2>1, <2>2, <2>3, <2>4, <2>5, <2>6, <2>7, <2>8, <2>9, <2>10, <2>11, <2>12,
                <2>13, <2>14, <2>15, <2>16, <2>17, <2>18, <2>19, <2>20, <2>21, <2>22,
                <2>23, <2>24, <2>25, <2>26, <2>27 DEF Step
<1> QED  BY <1>a, <1>b DEF Ready, Pinned

(* The swap replaces the dispatcher whose pins are then removed.           *)
LEMMA OwnReplaced ==
  ASSUME LinkInv, UNCHANGED job, NEW p \in Procs, Start(p) \/ Step(p) \/ Crash(p)
  PROVE  Replaced(p)'
<1>0. /\ Types /\ ProcInv(p) /\ Replaced(p) /\ Private(NewId(p))
      /\ NewId(p) \in Ids /\ NewId(p)[1] = p /\ NewId(p)[2] = retry[p] /\ None \notin Ids
  BY IdParts DEF LinkInv, DispatcherInv
<1> USE <1>0 DEF Types, Replaced, Ended, Goto, End, sharedVars, readVars
<1>1. CASE Start(p)  BY <1>1 DEF Start
<1>2. CASE Query(p)  BY <1>2 DEF Query, NothingThere
<1>3. CASE Open(p)  BY <1>3 DEF Open, AfterRead
<1>4. CASE Disappeared(p)  BY <1>4 DEF Disappeared, NothingThere
<1>5. CASE Read(p)  BY <1>5 DEF Read, AfterRead
<1>6. CASE Check(p)  BY <1>6 DEF Check
<1>7. CASE Generate(p)  BY <1>7 DEF Generate
<1>8. CASE BuildFails(p)  BY <1>8 DEF BuildFails
<1>9. CASE AttachSingle(p)  BY <1>9 DEF AttachSingle, Changed
<1>10. CASE PinLock(p)  BY <1>10 DEF PinLock
<1>11. CASE PinDone(p)  BY <1>11 DEF PinDone
<1>12. CASE PinFails(p)  BY <1>12 DEF PinFails
<1>13. CASE \E g \in Programs : PinProgram(p, g)  BY <1>13 DEF PinProgram
<1>14. CASE Swap(p)
  BY <1>14 DEF Swap, Changed, ProcInv, Builds, Built, Private, Unswapped, Expected
<1>15. CASE SwapRejected(p)  BY <1>15 DEF SwapRejected
<1>16. CASE SwapNone(p)
  BY <1>16 DEF SwapNone, Changed, TryAgain, ProcInv, Kinds, Reads, Attaches
<1>17. CASE Close(p)  BY <1>17 DEF Close
<1>18. CASE UnpinLock(p)  BY <1>18 DEF UnpinLock
<1>19. CASE UnpinDone(p)  BY <1>19 DEF UnpinDone, UnpinReturns, TryAgain
<1>20. CASE \E g \in Programs : UnpinProgram(p, g)  BY <1>20 DEF UnpinProgram
<1>21. CASE \E g \in Programs : UnpinStops(p, g)
  BY <1>21 DEF UnpinStops, UnpinReturns, TryAgain
<1>22. CASE CleanLock(p)  BY <1>22 DEF CleanLock
<1>23. CASE CleanRmdir(p)  BY <1>23 DEF CleanRmdir
<1>24. CASE CleanDone(p)  BY <1>24 DEF CleanDone
<1>25. CASE \E g \in Programs : CleanUnlink(p, g)  BY <1>25 DEF CleanUnlink
<1>26. CASE \E d \in visit[p] : CleanQuery(p, d)  BY <1>26 DEF CleanQuery
<1>27. CASE Crash(p)  BY <1>27 DEF Crash
<1> QED  BY <1>1, <1>2, <1>3, <1>4, <1>5, <1>6, <1>7, <1>8, <1>9, <1>10, <1>11, <1>12,
              <1>13, <1>14, <1>15, <1>16, <1>17, <1>18, <1>19, <1>20, <1>21, <1>22,
              <1>23, <1>24, <1>25, <1>26, <1>27 DEF Step

(* And what the others know: the new dispatcher is none that was replaced. *)
LEMMA OthersLinks ==
  ASSUME LinkInv, UNCHANGED job, NEW p \in Procs, Start(p) \/ Step(p) \/ Crash(p),
         NEW q \in Procs \ {p}
  PROVE  Ready(q)' /\ Replaced(q)'
<1>0. /\ Types /\ ProcInv(p) /\ ProcInv(q) /\ Ready(q) /\ Replaced(q)
      /\ Private(NewId(p)) /\ NewId(q) \in Ids /\ NewId(p) \in Ids
      /\ NewId(p)[1] = p /\ NewId(p)[2] = retry[p] /\ None \notin Ids
  BY IdParts DEF LinkInv, DispatcherInv
<1>1. /\ pc'[q] = pc[q] /\ retry'[q] = retry[q] /\ old'[q] = old[q] /\ new'[q] = new[q]
      /\ NewId(q)' = NewId(q)
  BY <1>0, OthersUntouched DEF NewId
<1>2. pc[q] = "swap" => Pinned(new[q])'
  <2> SUFFICES ASSUME pc[q] = "swap"  PROVE Pinned(new[q])'
    OBVIOUS
  <2>1. new[q] = NewId(q) /\ Pinned(NewId(q))  BY <1>0 DEF ProcInv, Builds, Built, Ready
  <2>2. Pinned(NewId(q))'  BY <1>0, <1>1, <2>1, PinnedKept
  <2> QED  BY <1>1, <2>1, <2>2 DEF Pinned
<1>3. Ready(q)'  BY <1>0, <1>1, <1>2 DEF Ready, Pinned
<1>4. Replaced(q)'
  <2> SUFFICES ASSUME pc[q] \in {"unpinold", "unpinningold"}
               PROVE  attached' # old[q]
    BY <1>0, <1>1 DEF Replaced
  <2>1. old[q] # None /\ attached # old[q]  BY <1>0 DEF Replaced
  <2>2. CASE attached' = attached  BY <2>1, <2>2
  <2>3. CASE Swap(p) /\ Expected(p)
    <3>1. attached' = NewId(p) /\ pc[p] = "swap"
      BY <1>0, <2>3 DEF Swap, ProcInv, Builds, Built
    <3> QED  BY <1>0, <3>1 DEF Private, Unswapped, Built
  <2>4. CASE SwapNone(p) /\ Expected(p)  BY <2>1, <2>4 DEF SwapNone
  <2>5. CASE AttachSingle(p) /\ attached = None
    <3>1. attached' = NewId(p) /\ pc[p] = "generate"  BY <2>5 DEF AttachSingle
    <3> QED  BY <1>0, <3>1 DEF Private, Unswapped, Unbuilt, BeforeBuild
  <2> QED  BY <1>0, <2>2, <2>3, <2>4, <2>5, InterfaceSteps
<1> QED  BY <1>3, <1>4

LEMMA LinksKept ==
  ASSUME LinkInv, UNCHANGED job, NEW p \in Procs, Start(p) \/ Step(p) \/ Crash(p)
  PROVE  LinksSurvive'
<1> SUFFICES ASSUME attached' # None, IsDispatcher(attached)'
             PROVE  Pinned(attached)'
  BY DEF LinksSurvive, Pinned
<1>0. Types /\ ProcInv(p) /\ Ready(p)  BY DEF LinkInv, DispatcherInv
<1>1. CASE attached' = attached
  <2>1. PICK i \in Ids : i = attached /\ Pinned(i)
    BY <1>0, <1>1 DEF LinkInv, LinksSurvive, Pinned, Types, IsDispatcher
  <2>2. Pinned(i)'  BY <2>1, PinnedKept
  <2> QED  BY <1>1, <2>1, <2>2 DEF Pinned
<1>2. CASE Swap(p) /\ Expected(p)
  <2>1. /\ attached' = new[p] /\ pc[p] = "swap" /\ comps' = comps /\ pins' = pins
        /\ swept' = swept
    BY <1>2 DEF Swap, Changed
  <2> QED  BY <1>0, <2>1 DEF Ready, Pinned
<1>3. CASE SwapNone(p) /\ Expected(p)  BY <1>3 DEF SwapNone
<1>4. CASE AttachSingle(p) /\ attached = None
  BY <1>0, <1>4, IdParts DEF AttachSingle, IsDispatcher
<1> QED  BY <1>0, <1>1, <1>2, <1>3, <1>4, InterfaceSteps

LEMMA LinksInitially ==
  ASSUME Init
  PROVE  LinkInv
<1>1. DispatcherInv  BY DispatcherInitially
<1>2. pins \in [Ids -> SUBSET Programs] /\ LinksSurvive  BY DEF Init, LinksSurvive
<1>3. ASSUME NEW i \in Ids  PROVE Private(i)
  BY <1>1, <1>3, IdParts DEF Init, Private, DispatcherInv
<1>4. ASSUME NEW p \in Procs  PROVE Ready(p) /\ Replaced(p)
  BY <1>4 DEF Init, Ready, Replaced, Undoing
<1> QED  BY <1>1, <1>2, <1>3, <1>4 DEF LinkInv

LEMMA LinksStep ==
  ASSUME LinkInv, [Next]_vars
  PROVE  LinkInv'
<1>0. DispatcherInv /\ DispatcherInv'  BY DispatcherStep DEF LinkInv
<1>1. CASE UNCHANGED vars
  <2> USE <1>1 DEF vars, sharedVars, readVars, history
  <2>1. pins' \in [Ids -> SUBSET Programs] /\ LinksSurvive'
    BY DEF LinkInv, LinksSurvive, IsDispatcher
  <2>2. ASSUME NEW i \in Ids  PROVE Private(i)'
    BY <2>2 DEF LinkInv, Private, Unswapped, Unbuilt
  <2>3. ASSUME NEW p \in Procs  PROVE Ready(p)' /\ Replaced(p)'
    BY <2>3 DEF LinkInv, Ready, Replaced, Pinned, NewId
  <2> QED  BY <1>0, <2>1, <2>2, <2>3 DEF LinkInv
<1>2. CASE Next
  <2>1. PICK p \in Procs : Start(p) \/ Step(p) \/ Crash(p)  BY <1>2 DEF Next
  <2>2. UNCHANGED job  BY <1>2 DEF Next
  <2>3. pins' \in [Ids -> SUBSET Programs]  BY <2>1, <2>2, PinsChange DEF LinkInv
  <2>4. ASSUME NEW i \in Ids  PROVE Private(i)'
    BY <2>1, <2>2, <2>4, StaysPrivate DEF LinkInv
  <2>5. ASSUME NEW q \in Procs  PROVE Ready(q)' /\ Replaced(q)'
    BY <2>1, <2>2, <2>5, OwnReady, OwnReplaced, OthersLinks
  <2>6. LinksSurvive'  BY <2>1, <2>2, LinksKept
  <2> QED  BY <1>0, <2>3, <2>4, <2>5, <2>6 DEF LinkInv
<1> QED  BY <1>1, <1>2

(* The links of the attached dispatcher are pinned (xdp_multiprog__pin     *)
(* before xdp_multiprog__attach, libxdp.c 1837-1843), for any number of    *)
(* processes, programs and crashes, unless libxdp_clean_references removed *)
(* them before the swap.                                                   *)
THEOREM LinksStayPinned == Spec => []LinksSurvive
<1>1. Init => LinkInv  BY LinksInitially
<1>2. LinkInv /\ [Next]_vars => LinkInv'  BY LinksStep
<1>3. LinkInv => LinksSurvive  BY DEF LinkInv
<1> QED  BY <1>1, <1>2, <1>3, PTL DEF Spec

-----------------------------------------------------------------------------
(***************************************************************************)
(* What operations leave behind, for any number of processes, programs and *)
(* crashes: nothing, when none of them died; nothing that a clean which    *)
(* nobody disturbed did not remove; and an attach that nobody disturbed is *)
(* refused for reasons of its own only.                                    *)
(*                                                                         *)
(* Here the lock is needed: who holds it is the only one to change a       *)
(* directory (Locked), so that a directory nobody works on is complete     *)
(* (Full) and what a process set out to remove is all there is (Remaining).*)
(***************************************************************************)

(* Who holds the lock, and on which dispatcher.                            *)
Holding == {"pinning", "unpinningold", "unpinningnew", "cleaning", "removing"}
WorksOn(p, i) ==
  \/ pc[p] \in {"pinning", "unpinningnew"} /\ new[p] = i
  \/ pc[p] = "unpinningold" /\ old[p] = i
  \/ pc[p] = "removing" /\ cand[p] = i
Locked == \A p \in Procs : pc[p] \in Holding => lock = p

(* A directory belongs to a dispatcher that was built, and is that of the  *)
(* attached one, or somebody will swap it in or remove it.                 *)
Owes(p, i) ==
  \/ pc[p] \in {"pinning", "swap"} \cup Undoing /\ new[p] = i
  \/ pc[p] \in {"unpinold", "unpinningold"} /\ old[p] = i
Owned(i) ==
  i \in dirs =>
    /\ IsDispatcher(i) /\ ~Unbuilt(i)
    /\ pc[i[1]] = "pin" => i # NewId(i[1])
    /\ attached = i \/ \E p \in Procs : Owes(p, i)

(* While nobody works on it, a directory holds all links of its            *)
(* dispatcher.                                                             *)
Full(i) ==
  /\ pins[i] \subseteq comps[i] /\ (i \notin dirs => pins[i] = {})
  /\ i \in dirs /\ (\A p \in Procs : ~WorksOn(p, i)) => comps[i] \subseteq pins[i]

(* What a process still has to remove is all there is.                     *)
Remaining(p) ==
  /\ pc[p] = "unpinold" => left[p] = comps[old[p]]
  /\ pc[p] = "unpinnew" => left[p] = comps[new[p]]
  /\ pc[p] = "unpinningold" /\ old[p] \in dirs => pins[old[p]] = left[p]
  /\ pc[p] = "unpinningnew" /\ new[p] \in dirs => pins[new[p]] = left[p]
  /\ pc[p] = "pinning" => new[p] \in dirs

(* What is taken for a legacy program has no directory.                    *)
LegacyHasNone(p) ==
  pc[p] \in {"check", "generate", "swapnone"} /\ legacy[p] => old[p] \notin dirs

NoCrash == \A p \in Procs : pc[p] # "crashed"
Tidy ==
  /\ \A i \in Ids : Owned(i) /\ Full(i)
  /\ \A p \in Procs : Remaining(p) /\ LegacyHasNone(p)

(* A clean that nobody disturbed has dealt with every directory but those  *)
(* it is still to visit.                                                   *)
Cleaned(p) ==
  pc[p] \in {"cleaning", "removing"} /\ p \notin overlapped =>
    dirs \subseteq {attached} \cup visit[p] \cup (IF pc[p] = "removing" THEN {cand[p]} ELSE {})

(* An attach during which nobody changed the interface sees it as it is.   *)
Unreadable == attached # None /\ (~IsDispatcher(attached) \/ attached \in swept)
Undisturbed(p) ==
  /\ pc[p] = "idle" => cand[p] = None
  /\ job[p].kind = "attach" /\ p \notin overlapped =>
     /\ pc[p] \in {"query", "open"} => cand[p] \in {None, attached}
     /\ pc[p] \in {"read", "generate"} \cup Built => old[p] = attached
     /\ pc[p] = "generate" /\ legacy[p] => Unreadable
     /\ pc[p] \in Undoing => err[p] = "error"
     /\ pc[p] = "failed" =>
          err[p] \in {"toobig", "error"} \/ (err[p] = "busy" /\ Unreadable)

(* The attached dispatcher, and one about to be, has its directory.        *)
Kept(i) == i \in swept \/ i \in dirs
DirInv ==
  /\ attached # None /\ IsDispatcher(attached) => Kept(attached)
  /\ \A p \in Procs : pc[p] \in {"pinning", "swap"} => Kept(new[p])

Errors == {"none", "noent", "busy", "toobig", "error", "exists", "again", "exhausted",
           "unlink"}
LeftInv ==
  /\ left \in [Procs -> SUBSET Programs] /\ err \in [Procs -> Errors]
  /\ overlapped \subseteq Procs
  /\ Locked
  /\ NoCrash => Tidy
  /\ DirInv
  /\ \A p \in Procs : Cleaned(p) /\ Undisturbed(p)

-----------------------------------------------------------------------------
(* The lock is taken when it is free, and given back by its holder or when *)
(* that one dies.                                                          *)
LEMMA LockSteps ==
  ASSUME Types, UNCHANGED job, NEW p \in Procs, Start(p) \/ Step(p) \/ Crash(p)
  PROVE  \/ lock' = lock /\ (pc'[p] \in Holding => pc[p] \in Holding)
         \/ lock = None /\ lock' = p
         \/ pc'[p] \notin Holding /\ lock' = None /\ (pc[p] \in Holding \/ lock = p)
<1> USE DEF Types, Holding, Ended, Goto, End, sharedVars
<1>1. CASE Start(p)  BY <1>1 DEF Start
<1>2. CASE Query(p)  BY <1>2 DEF Query, NothingThere
<1>3. CASE Open(p)  BY <1>3 DEF Open, AfterRead
<1>4. CASE Disappeared(p)  BY <1>4 DEF Disappeared, NothingThere
<1>5. CASE Read(p)  BY <1>5 DEF Read, AfterRead
<1>6. CASE Check(p)  BY <1>6 DEF Check
<1>7. CASE Generate(p)  BY <1>7 DEF Generate
<1>8. CASE BuildFails(p)  BY <1>8 DEF BuildFails
<1>9. CASE AttachSingle(p)  BY <1>9 DEF AttachSingle, Changed
<1>10. CASE PinLock(p)  BY <1>10 DEF PinLock
<1>11. CASE PinDone(p)  BY <1>11 DEF PinDone
<1>12. CASE PinFails(p)  BY <1>12 DEF PinFails
<1>13. CASE \E g \in Programs : PinProgram(p, g)  BY <1>13 DEF PinProgram
<1>14. CASE Swap(p)  BY <1>14 DEF Swap, Changed
<1>15. CASE SwapRejected(p)  BY <1>15 DEF SwapRejected
<1>16. CASE SwapNone(p)  BY <1>16 DEF SwapNone, Changed, TryAgain
<1>17. CASE Close(p)  BY <1>17 DEF Close
<1>18. CASE UnpinLock(p)  BY <1>18 DEF UnpinLock
<1>19. CASE UnpinDone(p)  BY <1>19 DEF UnpinDone, UnpinReturns, TryAgain
<1>20. CASE \E g \in Programs : UnpinProgram(p, g)  BY <1>20 DEF UnpinProgram
<1>21. CASE \E g \in Programs : UnpinStops(p, g)
  BY <1>21 DEF UnpinStops, UnpinReturns, TryAgain
<1>22. CASE CleanLock(p)  BY <1>22 DEF CleanLock
<1>23. CASE CleanRmdir(p)  BY <1>23 DEF CleanRmdir
<1>24. CASE CleanDone(p)  BY <1>24 DEF CleanDone
<1>25. CASE \E g \in Programs : CleanUnlink(p, g)  BY <1>25 DEF CleanUnlink
<1>26. CASE \E d \in visit[p] : CleanQuery(p, d)  BY <1>26 DEF CleanQuery
<1>27. CASE Crash(p)  BY <1>27 DEF Crash, Released
<1> QED  BY <1>1, <1>2, <1>3, <1>4, <1>5, <1>6, <1>7, <1>8, <1>9, <1>10, <1>11, <1>12,
              <1>13, <1>14, <1>15, <1>16, <1>17, <1>18, <1>19, <1>20, <1>21, <1>22,
              <1>23, <1>24, <1>25, <1>26, <1>27 DEF Step

LEMMA StaysLocked ==
  ASSUME Types, Locked, UNCHANGED job, NEW p \in Procs, Start(p) \/ Step(p) \/ Crash(p)
  PROVE  Locked'
<1> SUFFICES ASSUME NEW q \in Procs, pc'[q] \in Holding  PROVE lock' = q
  BY DEF Locked
<1>1. CASE q = p  BY <1>1, LockSteps DEF Locked
<1>2. CASE q # p
  <2>1. pc[q] \in Holding /\ lock = q /\ q # None
    BY <1>2, OthersUntouched, DispatcherAssumption DEF Locked
  <2>2. pc[p] \notin Holding  BY <1>2, <2>1 DEF Locked
  <2> QED  BY <1>2, <2>1, <2>2, LockSteps
<1> QED  BY <1>1, <1>2

(* Directories change where somebody works on them, or makes one.          *)
LEMMA OnlyWorkers ==
  ASSUME Types, pins \in [Ids -> SUBSET Programs],
         UNCHANGED job, NEW p \in Procs, Start(p) \/ Step(p) \/ Crash(p),
         NEW i \in Ids, ~WorksOn(p, i)
  PROVE  /\ pins'[i] = pins[i]
         /\ (i \in dirs') = (i \in dirs) \/ (PinLock(p) /\ i = new[p] /\ dirs' = dirs \cup {i})
<1> USE DEF Types, WorksOn, sharedVars
<1>1. CASE Start(p)  BY <1>1 DEF Start
<1>2. CASE Query(p)  BY <1>2 DEF Query
<1>3. CASE Open(p)  BY <1>3 DEF Open
<1>4. CASE Disappeared(p)  BY <1>4 DEF Disappeared
<1>5. CASE Read(p)  BY <1>5 DEF Read
<1>6. CASE Check(p)  BY <1>6 DEF Check
<1>7. CASE Generate(p)  BY <1>7 DEF Generate
<1>8. CASE BuildFails(p)  BY <1>8 DEF BuildFails
<1>9. CASE AttachSingle(p)  BY <1>9 DEF AttachSingle
<1>10. CASE PinLock(p)  BY <1>10 DEF PinLock
<1>11. CASE PinDone(p)  BY <1>11 DEF PinDone
<1>12. CASE PinFails(p)  BY <1>12 DEF PinFails
<1>13. CASE \E g \in Programs : PinProgram(p, g)  BY <1>13 DEF PinProgram
<1>14. CASE Swap(p)  BY <1>14 DEF Swap
<1>15. CASE SwapRejected(p)  BY <1>15 DEF SwapRejected
<1>16. CASE SwapNone(p)  BY <1>16 DEF SwapNone
<1>17. CASE Close(p)  BY <1>17 DEF Close
<1>18. CASE UnpinLock(p)  BY <1>18 DEF UnpinLock
<1>19. CASE UnpinDone(p)  BY <1>19 DEF UnpinDone, Target
<1>20. CASE \E g \in Programs : UnpinProgram(p, g)  BY <1>20 DEF UnpinProgram, Target
<1>21. CASE \E g \in Programs : UnpinStops(p, g)  BY <1>21 DEF UnpinStops
<1>22. CASE CleanLock(p)  BY <1>22 DEF CleanLock
<1>23. CASE CleanRmdir(p)  BY <1>23 DEF CleanRmdir
<1>24. CASE CleanDone(p)  BY <1>24 DEF CleanDone
<1>25. CASE \E g \in Programs : CleanUnlink(p, g)  BY <1>25 DEF CleanUnlink
<1>26. CASE \E d \in visit[p] : CleanQuery(p, d)  BY <1>26 DEF CleanQuery
<1>27. CASE Crash(p)  BY <1>27 DEF Crash
<1> QED  BY <1>1, <1>2, <1>3, <1>4, <1>5, <1>6, <1>7, <1>8, <1>9, <1>10, <1>11, <1>12,
              <1>13, <1>14, <1>15, <1>16, <1>17, <1>18, <1>19, <1>20, <1>21, <1>22,
              <1>23, <1>24, <1>25, <1>26, <1>27 DEF Step

LEMMA HolderWorks ==
  ASSUME NEW p \in Procs, NEW i, WorksOn(p, i)
  PROVE  pc[p] \in Holding
  BY DEF WorksOn, Holding

(* While one process holds the lock, the others leave all directories      *)
(* alone.                                                                  *)
LEMMA OthersLeave ==
  ASSUME DispatcherInv, pins \in [Ids -> SUBSET Programs], Locked,
         UNCHANGED job, NEW p \in Procs, Start(p) \/ Step(p) \/ Crash(p),
         NEW q \in Procs \ {p}, pc[q] \in Holding
  PROVE  \A i \in Ids : pins'[i] = pins[i] /\ (i \in dirs') = (i \in dirs)
<1>1. Types /\ lock = q /\ q # None  BY DispatcherAssumption DEF Locked, DispatcherInv
<1>2. pc[p] \notin Holding /\ ~PinLock(p)  BY <1>1 DEF Locked, PinLock
<1>3. ASSUME NEW i \in Ids  PROVE pins'[i] = pins[i] /\ (i \in dirs') = (i \in dirs)
  <2>1. ~WorksOn(p, i)  BY <1>2, HolderWorks
  <2> QED  BY <1>1, <1>2, <1>3, <2>1, OnlyWorkers
<1> QED  BY <1>3

(* The remaining variables of a process are its own.                       *)
LEMMA OthersUntouchedToo ==
  ASSUME DispatcherInv, left \in [Procs -> SUBSET Programs], err \in [Procs -> Errors],
         overlapped \subseteq Procs,
         UNCHANGED job, NEW p \in Procs, Start(p) \/ Step(p) \/ Crash(p)
  PROVE  /\ left' \in [Procs -> SUBSET Programs] /\ err' \in [Procs -> Errors]
         /\ overlapped' \subseteq Procs
         /\ \A q \in Procs \ {p} :
              /\ left'[q] = left[q] /\ err'[q] = err[q] /\ visit'[q] = visit[q]
              /\ q \in overlapped => q \in overlapped'
              /\ q \notin overlapped' => attached' = attached
<1>0. Types /\ ProcInv(p)  BY DEF DispatcherInv
<1>a. pc[p] = "swap" => comps[new[p]] \in SUBSET Programs
  BY <1>0, IdParts DEF ProcInv, Builds, Built, Types
<1> USE <1>0 DEF Types, Errors, Goto, End, sharedVars, history
<1>1. CASE Start(p)  BY <1>1 DEF Start
<1>2. CASE Query(p)  BY <1>2 DEF Query, NothingThere
<1>3. CASE Open(p)  BY <1>3 DEF Open, AfterRead
<1>4. CASE Disappeared(p)  BY <1>4 DEF Disappeared, NothingThere
<1>5. CASE Read(p)  BY <1>5 DEF Read, AfterRead
<1>6. CASE Check(p)  BY <1>6 DEF Check
<1>7. CASE Generate(p)  BY <1>7 DEF Generate, Refusal
<1>8. CASE BuildFails(p)  BY <1>8 DEF BuildFails
<1>9. CASE AttachSingle(p)  BY <1>9 DEF AttachSingle, Changed
<1>10. CASE PinLock(p)  BY <1>10 DEF PinLock
<1>11. CASE PinDone(p)  BY <1>11 DEF PinDone
<1>12. CASE PinFails(p)  BY <1>12 DEF PinFails
<1>13. CASE \E g \in Programs : PinProgram(p, g)  BY <1>13 DEF PinProgram
<1>14. CASE Swap(p)  BY <1>14, <1>a DEF Swap, Changed, ToUndo
<1>15. CASE SwapRejected(p)  BY <1>15, <1>a DEF SwapRejected, ToUndo
<1>16. CASE SwapNone(p)  BY <1>16 DEF SwapNone, Changed, TryAgain
<1>17. CASE Close(p)  BY <1>17 DEF Close
<1>18. CASE UnpinLock(p)  BY <1>18 DEF UnpinLock
<1>19. CASE UnpinDone(p)  BY <1>19 DEF UnpinDone, UnpinReturns, TryAgain
<1>20. CASE \E g \in Programs : UnpinProgram(p, g)  BY <1>20 DEF UnpinProgram
<1>21. CASE \E g \in Programs : UnpinStops(p, g)
  BY <1>21 DEF UnpinStops, UnpinReturns, TryAgain
<1>22. CASE CleanLock(p)  BY <1>22 DEF CleanLock
<1>23. CASE CleanRmdir(p)  BY <1>23 DEF CleanRmdir
<1>24. CASE CleanDone(p)  BY <1>24 DEF CleanDone
<1>25. CASE \E g \in Programs : CleanUnlink(p, g)  BY <1>25 DEF CleanUnlink
<1>26. CASE \E d \in visit[p] : CleanQuery(p, d)  BY <1>26 DEF CleanQuery, StillToVisit
<1>27. CASE Crash(p)  BY <1>27 DEF Crash
<1> QED  BY <1>1, <1>2, <1>3, <1>4, <1>5, <1>6, <1>7, <1>8, <1>9, <1>10, <1>11, <1>12,
              <1>13, <1>14, <1>15, <1>16, <1>17, <1>18, <1>19, <1>20, <1>21, <1>22,
              <1>23, <1>24, <1>25, <1>26, <1>27 DEF Step

-----------------------------------------------------------------------------
(* Whose directory may go: that of a dispatcher that was not swapped in,   *)
(* by its builder, that of a replaced one, and what a clean removes.       *)
LEMMA DirsChange ==
  ASSUME Types,
         UNCHANGED job, NEW p \in Procs, Start(p) \/ Step(p) \/ Crash(p),
         NEW i \in Ids, i \in dirs, i \notin dirs'
  PROVE  \/ i \in swept'
         \/ i = new[p] /\ pc[p] \in {"pinning"} \cup Undoing
         \/ i = old[p] /\ pc[p] = "unpinningold"
<1> USE DEF sharedVars, Undoing
<1>1. CASE Start(p)  BY <1>1 DEF Start
<1>2. CASE Query(p)  BY <1>2 DEF Query
<1>3. CASE Open(p)  BY <1>3 DEF Open
<1>4. CASE Disappeared(p)  BY <1>4 DEF Disappeared
<1>5. CASE Read(p)  BY <1>5 DEF Read
<1>6. CASE Check(p)  BY <1>6 DEF Check
<1>7. CASE Generate(p)  BY <1>7 DEF Generate
<1>8. CASE BuildFails(p)  BY <1>8 DEF BuildFails
<1>9. CASE AttachSingle(p)  BY <1>9 DEF AttachSingle
<1>10. CASE PinLock(p)  BY <1>10 DEF PinLock
<1>11. CASE PinDone(p)  BY <1>11 DEF PinDone
<1>12. CASE PinFails(p)  BY <1>12 DEF PinFails
<1>13. CASE \E g \in Programs : PinProgram(p, g)  BY <1>13 DEF PinProgram
<1>14. CASE Swap(p)  BY <1>14 DEF Swap
<1>15. CASE SwapRejected(p)  BY <1>15 DEF SwapRejected
<1>16. CASE SwapNone(p)  BY <1>16 DEF SwapNone
<1>17. CASE Close(p)  BY <1>17 DEF Close
<1>18. CASE UnpinLock(p)  BY <1>18 DEF UnpinLock
<1>19. CASE UnpinDone(p)  BY <1>19 DEF UnpinDone, Target
<1>20. CASE \E g \in Programs : UnpinProgram(p, g)  BY <1>20 DEF UnpinProgram
<1>21. CASE \E g \in Programs : UnpinStops(p, g)  BY <1>21 DEF UnpinStops
<1>22. CASE CleanLock(p)  BY <1>22 DEF CleanLock
<1>23. CASE CleanRmdir(p)  BY <1>23 DEF CleanRmdir
<1>24. CASE CleanDone(p)  BY <1>24 DEF CleanDone
<1>25. CASE \E g \in Programs : CleanUnlink(p, g)  BY <1>25 DEF CleanUnlink
<1>26. CASE \E d \in visit[p] : CleanQuery(p, d)  BY <1>26 DEF CleanQuery
<1>27. CASE Crash(p)  BY <1>27 DEF Crash
<1> QED  BY <1>1, <1>2, <1>3, <1>4, <1>5, <1>6, <1>7, <1>8, <1>9, <1>10, <1>11, <1>12,
              <1>13, <1>14, <1>15, <1>16, <1>17, <1>18, <1>19, <1>20, <1>21, <1>22,
              <1>23, <1>24, <1>25, <1>26, <1>27 DEF Step

LEMMA KeptKept ==
  ASSUME LinkInv,
         UNCHANGED job, NEW p \in Procs, Start(p) \/ Step(p) \/ Crash(p),
         NEW i \in Ids, Kept(i),
         i = attached \/ \E q \in Procs \ {p} : i = NewId(q) /\ pc[q] \in {"pinning", "swap"}
  PROVE  Kept(i)'
<1>0. /\ Types /\ ProcInv(p) /\ Ready(p) /\ Replaced(p) /\ Private(i)
      /\ \A q \in Procs : Private(NewId(q)) /\ ProcInv(q)
  BY IdParts DEF LinkInv, DispatcherInv
<1>1. ~(i = NewId(p) /\ pc[p] \in Built \cup Undoing)
  BY <1>0, IdParts DEF Private, Unswapped
<1>2. ~(i = new[p] /\ pc[p] \in {"pinning"} \cup Undoing)
  BY <1>0, <1>1 DEF ProcInv, Builds, Ready, Built
<1>3. ~(i = old[p] /\ pc[p] = "unpinningold")
  <2>1. CASE i = attached  BY <1>0, <2>1 DEF Replaced
  <2>2. CASE \E q \in Procs \ {p} : i = NewId(q) /\ pc[q] \in {"pinning", "swap"}
    BY <1>0, <2>2, IdParts DEF Private, Unswapped, Built
  <2> QED  BY <2>1, <2>2
<1>4. swept \subseteq swept'  BY PinsChange DEF LinkInv
<1> QED  BY <1>0, <1>2, <1>3, <1>4, DirsChange DEF Kept

LEMMA DirsStep ==
  ASSUME LinkInv, DirInv, UNCHANGED job, NEW p \in Procs, Start(p) \/ Step(p) \/ Crash(p)
  PROVE  DirInv'
<1>0. /\ Types /\ DispatcherInv /\ swept \subseteq swept'
      /\ \A q \in Procs : ProcInv(q)
  BY PinsChange DEF LinkInv, DispatcherInv
<1>1. ASSUME NEW q \in Procs \ {p}, pc'[q] \in {"pinning", "swap"}
      PROVE  Kept(new[q])'
  <2>1. /\ pc[q] \in {"pinning", "swap"} /\ new'[q] = new[q]
        /\ new[q] = NewId(q) /\ NewId(q) \in Ids
    BY <1>0, <1>1, OthersUntouched, IdParts DEF ProcInv, Builds, Built
  <2>2. PICK i \in Ids : i = NewId(q) /\ i = new[q] /\ Kept(i)  BY <1>1, <2>1 DEF DirInv
  <2>3. Kept(i)'  BY <1>1, <2>1, <2>2, KeptKept
  <2> QED  BY <2>1, <2>2, <2>3 DEF Kept
<1>2. ASSUME pc'[p] \in {"pinning", "swap"}
      PROVE  Kept(new[p])'
  <2> USE <1>0, <1>2 DEF Types, Ended, Goto, End, sharedVars, readVars, history, Kept, DirInv
  <2>1. CASE Start(p)  BY <2>1 DEF Start
  <2>2. CASE Query(p)  BY <2>2 DEF Query, NothingThere
  <2>3. CASE Open(p)  BY <2>3 DEF Open, AfterRead
  <2>4. CASE Disappeared(p)  BY <2>4 DEF Disappeared, NothingThere
  <2>5. CASE Read(p)  BY <2>5 DEF Read, AfterRead
  <2>6. CASE Check(p)  BY <2>6 DEF Check
  <2>7. CASE Generate(p)  BY <2>7 DEF Generate
  <2>8. CASE BuildFails(p)  BY <2>8 DEF BuildFails
  <2>9. CASE AttachSingle(p)  BY <2>9 DEF AttachSingle, Changed
  <2>10. CASE PinLock(p)  BY <2>10 DEF PinLock
  <2>11. CASE PinDone(p)  BY <2>11 DEF PinDone
  <2>12. CASE PinFails(p)  BY <2>12 DEF PinFails
  <2>13. CASE \E g \in Programs : PinProgram(p, g)  BY <2>13 DEF PinProgram
  <2>14. CASE Swap(p)  BY <2>14 DEF Swap, Changed
  <2>15. CASE SwapRejected(p)  BY <2>15 DEF SwapRejected
  <2>16. CASE SwapNone(p)  BY <2>16 DEF SwapNone, Changed, TryAgain
  <2>17. CASE Close(p)  BY <2>17 DEF Close
  <2>18. CASE UnpinLock(p)  BY <2>18 DEF UnpinLock
  <2>19. CASE UnpinDone(p)  BY <2>19 DEF UnpinDone, UnpinReturns, TryAgain
  <2>20. CASE \E g \in Programs : UnpinProgram(p, g)  BY <2>20 DEF UnpinProgram
  <2>21. CASE \E g \in Programs : UnpinStops(p, g)
    BY <2>21 DEF UnpinStops, UnpinReturns, TryAgain
  <2>22. CASE CleanLock(p)  BY <2>22 DEF CleanLock
  <2>23. CASE CleanRmdir(p)  BY <2>23 DEF CleanRmdir
  <2>24. CASE CleanDone(p)  BY <2>24 DEF CleanDone
  <2>25. CASE \E g \in Programs : CleanUnlink(p, g)  BY <2>25 DEF CleanUnlink
  <2>26. CASE \E d \in visit[p] : CleanQuery(p, d)  BY <2>26 DEF CleanQuery
  <2>27. CASE Crash(p)  BY <2>27 DEF Crash
  <2> QED  BY <2>1, <2>2, <2>3, <2>4, <2>5, <2>6, <2>7, <2>8, <2>9, <2>10, <2>11, <2>12,
                <2>13, <2>14, <2>15, <2>16, <2>17, <2>18, <2>19, <2>20, <2>21, <2>22,
                <2>23, <2>24, <2>25, <2>26, <2>27 DEF Step
<1>3. ASSUME attached' # None, IsDispatcher(attached)'
      PROVE  Kept(attached)'
  <2>1. CASE attached' = attached
    <3>1. PICK i \in Ids : i = attached /\ Kept(i)
      BY <1>0, <1>3, <2>1 DEF Types, DirInv, IsDispatcher
    <3>2. Kept(i)'  BY <3>1, KeptKept
    <3> QED  BY <2>1, <3>1, <3>2 DEF Kept
  <2>2. CASE Swap(p) /\ Expected(p)
    <3>1. /\ attached' = new[p] /\ pc[p] = "swap" /\ dirs' = dirs /\ swept' = swept
      BY <2>2 DEF Swap, Changed
    <3> QED  BY <3>1 DEF DirInv, Kept
  <2>3. CASE SwapNone(p) /\ Expected(p)  BY <1>3, <2>3 DEF SwapNone
  <2>4. CASE AttachSingle(p) /\ attached = None
    BY <1>0, <1>3, <2>4, IdParts DEF AttachSingle, IsDispatcher
  <2> QED  BY <1>0, <2>1, <2>2, <2>3, <2>4, InterfaceSteps
<1> QED  BY <1>1, <1>2, <1>3 DEF DirInv

-----------------------------------------------------------------------------
(* A clean holds the lock from its first look at the directories to the    *)
(* last.                                                                   *)
LEMMA CleanedStep ==
  ASSUME LinkInv, LeftInv,
         UNCHANGED job, NEW p \in Procs, Start(p) \/ Step(p) \/ Crash(p),
         NEW q \in Procs
  PROVE  Cleaned(q)'
<1>0. /\ Types /\ Types' /\ ProcInv(p) /\ Cleaned(q) /\ DispatcherInv /\ Locked
      /\ pins \in [Ids -> SUBSET Programs]
  BY StepTypes DEF LinkInv, LeftInv, DispatcherInv
<1>1. CASE q # p
  <2> SUFFICES ASSUME pc'[q] \in {"cleaning", "removing"}, q \notin overlapped'
               PROVE  dirs' \subseteq {attached'} \cup visit'[q]
                               \cup (IF pc'[q] = "removing" THEN {cand'[q]} ELSE {})
    BY DEF Cleaned
  <2>1. /\ pc'[q] = pc[q] /\ cand'[q] = cand[q] /\ visit'[q] = visit[q]
        /\ attached' = attached /\ q \notin overlapped
    BY <1>0, <1>1, OthersUntouched, OthersUntouchedToo DEF LeftInv
  <2>2. dirs' \subseteq dirs
    <3>1. pc[q] \in Holding  BY <2>1 DEF Holding
    <3> QED  BY <1>0, <1>1, <3>1, OthersLeave DEF Types
  <2> QED  BY <1>0, <2>1, <2>2 DEF Cleaned
<1>2. CASE q = p
  <2> USE <1>0, <1>2 DEF Types, Cleaned, Ended, Goto, End, sharedVars, readVars, history
  <2>1. CASE Start(p)  BY <2>1 DEF Start
  <2>2. CASE Query(p)  BY <2>2 DEF Query, NothingThere
  <2>3. CASE Open(p)  BY <2>3 DEF Open, AfterRead
  <2>4. CASE Disappeared(p)  BY <2>4 DEF Disappeared, NothingThere
  <2>5. CASE Read(p)  BY <2>5 DEF Read, AfterRead
  <2>6. CASE Check(p)  BY <2>6 DEF Check
  <2>7. CASE Generate(p)  BY <2>7 DEF Generate
  <2>8. CASE BuildFails(p)  BY <2>8 DEF BuildFails
  <2>9. CASE AttachSingle(p)  BY <2>9 DEF AttachSingle, Changed
  <2>10. CASE PinLock(p)  BY <2>10 DEF PinLock
  <2>11. CASE PinDone(p)  BY <2>11 DEF PinDone
  <2>12. CASE PinFails(p)  BY <2>12 DEF PinFails
  <2>13. CASE \E g \in Programs : PinProgram(p, g)  BY <2>13 DEF PinProgram
  <2>14. CASE Swap(p)  BY <2>14 DEF Swap, Changed
  <2>15. CASE SwapRejected(p)  BY <2>15 DEF SwapRejected
  <2>16. CASE SwapNone(p)  BY <2>16 DEF SwapNone, Changed, TryAgain
  <2>17. CASE Close(p)  BY <2>17 DEF Close
  <2>18. CASE UnpinLock(p)  BY <2>18 DEF UnpinLock
  <2>19. CASE UnpinDone(p)  BY <2>19 DEF UnpinDone, UnpinReturns, TryAgain
  <2>20. CASE \E g \in Programs : UnpinProgram(p, g)  BY <2>20 DEF UnpinProgram
  <2>21. CASE \E g \in Programs : UnpinStops(p, g)
    BY <2>21 DEF UnpinStops, UnpinReturns, TryAgain
  <2>22. CASE CleanLock(p)  BY <2>22 DEF CleanLock
  <2>23. CASE CleanRmdir(p)  BY <2>23 DEF CleanRmdir
  <2>24. CASE CleanDone(p)  BY <2>24 DEF CleanDone
  <2>25. CASE \E g \in Programs : CleanUnlink(p, g)  BY <2>25 DEF CleanUnlink
  <2>26. CASE \E d \in visit[p] : CleanQuery(p, d)  BY <2>26 DEF CleanQuery, StillToVisit
  <2>27. CASE Crash(p)  BY <2>27 DEF Crash
  <2> QED  BY <2>1, <2>2, <2>3, <2>4, <2>5, <2>6, <2>7, <2>8, <2>9, <2>10, <2>11, <2>12,
                <2>13, <2>14, <2>15, <2>16, <2>17, <2>18, <2>19, <2>20, <2>21, <2>22,
                <2>23, <2>24, <2>25, <2>26, <2>27 DEF Step
<1> QED  BY <1>1, <1>2

-----------------------------------------------------------------------------
(* As long as nobody else changes the interface, what an attach found      *)
(* there is there.                                                         *)
LEMMA UndisturbedStep ==
  ASSUME LinkInv, LeftInv,
         UNCHANGED job, NEW p \in Procs, Start(p) \/ Step(p) \/ Crash(p),
         NEW q \in Procs
  PROVE  Undisturbed(q)'
<1>0. /\ Types /\ Types' /\ DispatcherInv /\ ProcInv(p) /\ Undisturbed(q)
      /\ swept \subseteq swept' /\ DirInv /\ LinksSurvive /\ err \in [Procs -> Errors]
  BY StepTypes, PinsChange DEF LinkInv, LeftInv, DispatcherInv
<1>1. attached' = attached /\ Unreadable => Unreadable'
  BY <1>0 DEF Unreadable, IsDispatcher
<1>2. CASE q # p
  <2>1. /\ pc'[q] = pc[q] /\ cand'[q] = cand[q] /\ old'[q] = old[q]
        /\ legacy'[q] = legacy[q] /\ err'[q] = err[q]
        /\ q \notin overlapped' => attached' = attached /\ q \notin overlapped
    BY <1>0, <1>2, OthersUntouched, OthersUntouchedToo DEF LeftInv
  <2> QED  BY <1>0, <1>1, <2>1 DEF Undisturbed
<1>3. CASE q = p
  <2> USE <1>0, <1>1, <1>3 DEF Types, Undisturbed, Built, Undoing, Ended, Goto, End,
                              sharedVars, readVars, history
  <2>1. CASE Start(p)  BY <2>1 DEF Start
  <2>2. CASE Query(p)  BY <2>2 DEF Query, NothingThere, ProcInv, Reads, Attaches
  <2>3. CASE Open(p)  BY <2>3 DEF Open, AfterRead, Attaches, Unreadable, ProcInv, Kinds
  <2>4. CASE Disappeared(p)
    BY <2>4 DEF Disappeared, NothingThere, Alive, ProcInv, Kinds, Attaches
  <2>5. CASE Read(p)
    BY <2>5 DEF Read, AfterRead, Complete, DirInv, Kept, LinksSurvive, Unreadable,
            ProcInv, Reads, Attaches
  <2>6. CASE Check(p)  BY <2>6 DEF Check, ProcInv, Kinds
  <2>7. CASE Generate(p)  BY <2>7 DEF Generate, Refusal
  <2>8. CASE BuildFails(p)  BY <2>8 DEF BuildFails
  <2>9. CASE AttachSingle(p)  BY <2>9 DEF AttachSingle, Changed
  <2>10. CASE PinLock(p)  BY <2>10 DEF PinLock
  <2>11. CASE PinDone(p)  BY <2>11 DEF PinDone
  <2>12. CASE PinFails(p)  BY <2>12 DEF PinFails
  <2>13. CASE \E g \in Programs : PinProgram(p, g)  BY <2>13 DEF PinProgram
  <2>14. CASE Swap(p)  BY <2>14 DEF Swap, Changed, Expected
  <2>15. CASE SwapRejected(p)  BY <2>15 DEF SwapRejected
  <2>16. CASE SwapNone(p)  BY <2>16 DEF SwapNone, Changed, TryAgain, ProcInv, Kinds
  <2>17. CASE Close(p)  BY <2>17 DEF Close
  <2>18. CASE UnpinLock(p)  BY <2>18 DEF UnpinLock
  <2>19. CASE UnpinDone(p)
    BY <2>19 DEF UnpinDone, UnpinReturns, TryAgain, ProcInv, Effects, Attaches
  <2>20. CASE \E g \in Programs : UnpinProgram(p, g)  BY <2>20 DEF UnpinProgram
  <2>21. CASE \E g \in Programs : UnpinStops(p, g)
    BY <2>21 DEF UnpinStops, UnpinReturns, TryAgain, ProcInv, Effects, Attaches
  <2>22. CASE CleanLock(p)  BY <2>22 DEF CleanLock
  <2>23. CASE CleanRmdir(p)  BY <2>23 DEF CleanRmdir
  <2>24. CASE CleanDone(p)  BY <2>24 DEF CleanDone
  <2>25. CASE \E g \in Programs : CleanUnlink(p, g)  BY <2>25 DEF CleanUnlink
  <2>26. CASE \E d \in visit[p] : CleanQuery(p, d)
    BY <2>26 DEF CleanQuery, ProcInv, Kinds, Cleaning
  <2>27. CASE Crash(p)  BY <2>27 DEF Crash
  <2> QED  BY <2>1, <2>2, <2>3, <2>4, <2>5, <2>6, <2>7, <2>8, <2>9, <2>10, <2>11, <2>12,
                <2>13, <2>14, <2>15, <2>16, <2>17, <2>18, <2>19, <2>20, <2>21, <2>22,
                <2>23, <2>24, <2>25, <2>26, <2>27 DEF Step
<1> QED  BY <1>2, <1>3

-----------------------------------------------------------------------------
(* New directories.                                                        *)
LEMMA DirsGrow ==
  ASSUME Types,
         UNCHANGED job, NEW p \in Procs, Start(p) \/ Step(p) \/ Crash(p),
         NEW i \in Ids, i \in dirs', i \notin dirs
  PROVE  PinLock(p) /\ i = new[p]
<1>1. CASE PinLock(p)  BY <1>1 DEF PinLock
<1>2. ASSUME ~PinLock(p)  PROVE dirs' \subseteq dirs
  BY <1>2 DEF Step, sharedVars, Start, Query, Open, Disappeared, Read, Check, Generate,
     BuildFails, AttachSingle, PinDone, PinFails, PinProgram, Swap, SwapRejected, SwapNone,
     Close, UnpinLock, UnpinDone, UnpinProgram, UnpinStops, CleanLock, CleanRmdir, CleanDone,
     CleanUnlink, CleanQuery, Crash
<1> QED  BY <1>1, <1>2

LEMMA ArrivesAtPin ==
  ASSUME DispatcherInv,
         UNCHANGED job, NEW p \in Procs, Start(p) \/ Step(p) \/ Crash(p),
         pc'[p] = "pin"
  PROVE  pc[p] = "generate" /\ retry' = retry /\ dirs' = dirs
<1>0. Types  BY DEF DispatcherInv
<1> USE <1>0 DEF Types, Ended, Goto, End, sharedVars
<1>1. CASE Start(p)  BY <1>1 DEF Start
<1>2. CASE Query(p)  BY <1>2 DEF Query, NothingThere
<1>3. CASE Open(p)  BY <1>3 DEF Open, AfterRead
<1>4. CASE Disappeared(p)  BY <1>4 DEF Disappeared, NothingThere
<1>5. CASE Read(p)  BY <1>5 DEF Read, AfterRead
<1>6. CASE Check(p)  BY <1>6 DEF Check
<1>7. CASE Generate(p)  BY <1>7 DEF Generate
<1>8. CASE BuildFails(p)  BY <1>8 DEF BuildFails
<1>9. CASE AttachSingle(p)  BY <1>9 DEF AttachSingle, Changed
<1>10. CASE PinLock(p)  BY <1>10 DEF PinLock
<1>11. CASE PinDone(p)  BY <1>11 DEF PinDone
<1>12. CASE PinFails(p)  BY <1>12 DEF PinFails
<1>13. CASE \E g \in Programs : PinProgram(p, g)  BY <1>13 DEF PinProgram
<1>14. CASE Swap(p)  BY <1>14 DEF Swap, Changed
<1>15. CASE SwapRejected(p)  BY <1>15 DEF SwapRejected
<1>16. CASE SwapNone(p)  BY <1>16 DEF SwapNone, Changed, TryAgain
<1>17. CASE Close(p)  BY <1>17 DEF Close
<1>18. CASE UnpinLock(p)  BY <1>18 DEF UnpinLock
<1>19. CASE UnpinDone(p)  BY <1>19 DEF UnpinDone, UnpinReturns, TryAgain
<1>20. CASE \E g \in Programs : UnpinProgram(p, g)  BY <1>20 DEF UnpinProgram
<1>21. CASE \E g \in Programs : UnpinStops(p, g)
  BY <1>21 DEF UnpinStops, UnpinReturns, TryAgain
<1>22. CASE CleanLock(p)  BY <1>22 DEF CleanLock
<1>23. CASE CleanRmdir(p)  BY <1>23 DEF CleanRmdir
<1>24. CASE CleanDone(p)  BY <1>24 DEF CleanDone
<1>25. CASE \E g \in Programs : CleanUnlink(p, g)  BY <1>25 DEF CleanUnlink
<1>26. CASE \E d \in visit[p] : CleanQuery(p, d)  BY <1>26 DEF CleanQuery
<1>27. CASE Crash(p)  BY <1>27 DEF Crash
<1> QED  BY <1>1, <1>2, <1>3, <1>4, <1>5, <1>6, <1>7, <1>8, <1>9, <1>10, <1>11, <1>12,
              <1>13, <1>14, <1>15, <1>16, <1>17, <1>18, <1>19, <1>20, <1>21, <1>22,
              <1>23, <1>24, <1>25, <1>26, <1>27 DEF Step

(* Whoever owes the removal of a directory, or its swap, keeps the         *)
(* promise.                                                                *)
LEMMA PromiseKept ==
  ASSUME LinkInv, LeftInv, Tidy,
         UNCHANGED job, NEW p \in Procs, Start(p) \/ Step(p) \/ Crash(p),
         pc'[p] # "crashed",
         NEW i \in Ids, i \in dirs, i \in dirs', Owes(p, i)
  PROVE  Owes(p, i)' \/ attached' = i
<1>0. /\ Types /\ Types' /\ DispatcherInv /\ ProcInv(p) /\ Locked /\ LegacyHasNone(p)
      /\ Remaining(p) /\ Ready(p) /\ Replaced(p) /\ pins \in [Ids -> SUBSET Programs]
      /\ left \in [Procs -> SUBSET Programs]
      /\ NewId(p) \in Ids /\ NewId(p)[1] = p /\ None \notin Ids
  BY StepTypes, IdParts DEF LinkInv, LeftInv, DispatcherInv, Tidy
<1> USE <1>0 DEF Types, Owes, Undoing, Ended, Goto, End, sharedVars, readVars, history
<1>1. CASE Start(p)  BY <1>1 DEF Start
<1>2. CASE Query(p)  BY <1>2 DEF Query, NothingThere
<1>3. CASE Open(p)  BY <1>3 DEF Open, AfterRead
<1>4. CASE Disappeared(p)  BY <1>4 DEF Disappeared, NothingThere
<1>5. CASE Read(p)  BY <1>5 DEF Read, AfterRead
<1>6. CASE Check(p)  BY <1>6 DEF Check
<1>7. CASE Generate(p)  BY <1>7 DEF Generate
<1>8. CASE BuildFails(p)  BY <1>8 DEF BuildFails
<1>9. CASE AttachSingle(p)  BY <1>9 DEF AttachSingle, Changed
<1>10. CASE PinLock(p)  BY <1>10 DEF PinLock
<1>11. CASE PinDone(p)  BY <1>11 DEF PinDone
<1>12. CASE PinFails(p)  BY <1>12 DEF PinFails
<1>13. CASE \E g \in Programs : PinProgram(p, g)  BY <1>13 DEF PinProgram
<1>14. CASE Swap(p)  BY <1>14 DEF Swap, Changed
<1>15. CASE SwapRejected(p)  BY <1>15 DEF SwapRejected
<1>16. CASE SwapNone(p)  BY <1>16 DEF SwapNone, Changed, TryAgain
<1>17. CASE Close(p)  BY <1>17 DEF Close
<1>18. CASE UnpinLock(p)  BY <1>18 DEF UnpinLock
<1>19. CASE UnpinDone(p)  BY <1>19 DEF UnpinDone, UnpinReturns, TryAgain, Target, Remaining
<1>20. CASE \E g \in Programs : UnpinProgram(p, g)  BY <1>20 DEF UnpinProgram, Target
<1>21. CASE \E g \in Programs : UnpinStops(p, g)
  BY <1>21 DEF UnpinStops, UnpinReturns, TryAgain, Target, Remaining
<1>22. CASE CleanLock(p)  BY <1>22 DEF CleanLock
<1>23. CASE CleanRmdir(p)  BY <1>23 DEF CleanRmdir
<1>24. CASE CleanDone(p)  BY <1>24 DEF CleanDone
<1>25. CASE \E g \in Programs : CleanUnlink(p, g)  BY <1>25 DEF CleanUnlink
<1>26. CASE \E d \in visit[p] : CleanQuery(p, d)  BY <1>26 DEF CleanQuery
<1>27. CASE Crash(p)  BY <1>27 DEF Crash
<1> QED  BY <1>1, <1>2, <1>3, <1>4, <1>5, <1>6, <1>7, <1>8, <1>9, <1>10, <1>11, <1>12,
              <1>13, <1>14, <1>15, <1>16, <1>17, <1>18, <1>19, <1>20, <1>21, <1>22,
              <1>23, <1>24, <1>25, <1>26, <1>27 DEF Step

LEMMA OwnedStep ==
  ASSUME LinkInv, LeftInv, Tidy,
         UNCHANGED job, NEW p \in Procs, Start(p) \/ Step(p) \/ Crash(p),
         pc'[p] # "crashed",
         NEW i \in Ids
  PROVE  Owned(i)'
<1>0. /\ Types /\ Types' /\ DispatcherInv /\ ProcInv(p) /\ Locked /\ LegacyHasNone(p)
      /\ Remaining(p) /\ Ready(p) /\ Replaced(p) /\ pins \in [Ids -> SUBSET Programs]
      /\ left \in [Procs -> SUBSET Programs]
      /\ NewId(p) \in Ids /\ NewId(p)[1] = p /\ None \notin Ids
  BY StepTypes, IdParts DEF LinkInv, LeftInv, DispatcherInv, Tidy
<1> SUFFICES ASSUME i \in dirs'
             PROVE  /\ IsDispatcher(i) /\ ~Unbuilt(i)'
                    /\ pc'[i[1]] = "pin" => i # NewId(i[1])'
                    /\ attached' = i \/ \E q \in Procs : Owes(q, i)'
  BY DEF Owned, IsDispatcher
<1>1. CASE i \notin dirs
  <2>1. PinLock(p) /\ i = new[p]  BY <1>0, <1>1, DirsGrow
  <2>2. /\ pc[p] = "pin" /\ pc'[p] = "pinning" /\ new'[p] = i /\ retry' = retry
        /\ i = NewId(p) /\ job[p].kind \in {"attach", "detach"}
    BY <1>0, <2>1 DEF PinLock, ProcInv, Builds, Kinds, Built, Types, Goto
  <2>3. ~Unbuilt(i)'
    BY <1>0, <2>2, DispatcherAssumption, IdParts DEF Unbuilt, BeforeBuild, Types, Tries
  <2> QED  BY <1>0, <2>2, <2>3 DEF IsDispatcher, Owes
<1>2. CASE i \in dirs
  <2>0. /\ IsDispatcher(i) /\ ~Unbuilt(i)
        /\ pc[i[1]] = "pin" => i # NewId(i[1])
        /\ attached = i \/ \E q \in Procs : Owes(q, i)
        /\ i[1] \in Procs
    BY <1>0, <1>2, IdParts DEF Tidy, Owned
  <2>1. ~Unbuilt(i)'  BY <1>0, <2>0, StaysBuilt
  <2>2. pc'[i[1]] = "pin" => i # NewId(i[1])'
    <3>1. CASE i[1] # p  BY <1>0, <2>0, <3>1, OthersUntouched DEF NewId
    <3>2. CASE i[1] = p
      <4> SUFFICES ASSUME pc'[p] = "pin"  PROVE i # NewId(p)'
        BY <3>2
      <4>1. pc[p] = "generate" /\ NewId(p)' = NewId(p)  BY <1>0, ArrivesAtPin DEF NewId
      <4>2. Unbuilt(NewId(p))  BY <1>0, <4>1, IdParts DEF Unbuilt, BeforeBuild
      <4> QED  BY <2>0, <4>1, <4>2
    <3> QED  BY <3>1, <3>2
  <2>3. attached' = i \/ \E q \in Procs : Owes(q, i)'
    <3>1. CASE \E q \in Procs : Owes(q, i)
      <4>1. PICK q \in Procs : Owes(q, i)  BY <3>1
      <4>2. CASE q = p  BY <1>2, <4>1, <4>2, PromiseKept
      <4>3. CASE q # p
        <5>1. pc'[q] = pc[q] /\ new'[q] = new[q] /\ old'[q] = old[q]
          BY <1>0, <4>3, OthersUntouched
        <5> QED  BY <4>1, <5>1 DEF Owes
      <4> QED  BY <4>2, <4>3
    <3>2. CASE attached = i
      <4>1. CASE Swap(p) /\ Expected(p)
        <5>1. pc'[p] = "unpinold" /\ old'[p] = i
          BY <1>0, <3>2, <4>1 DEF Swap, Expected, Goto, Types, readVars
        <5> QED  BY <5>1 DEF Owes
      <4>2. CASE SwapNone(p) /\ Expected(p)
        <5>1. pc'[p] = "unpinold" /\ old'[p] = i
          BY <1>0, <1>2, <3>2, <4>2 DEF SwapNone, Expected, Goto, Types, LegacyHasNone
        <5> QED  BY <5>1 DEF Owes
      <4>3. CASE AttachSingle(p) /\ attached = None  BY <1>0, <3>2, <4>3
      <4> QED  BY <1>0, <3>2, <4>1, <4>2, <4>3, InterfaceSteps
    <3> QED  BY <2>0, <3>1, <3>2
  <2> QED  BY <2>0, <2>1, <2>2, <2>3
<1> QED  BY <1>1, <1>2

(* When the lock is free, every directory is complete.                     *)
LEMMA FreeMeansFull ==
  ASSUME DispatcherInv, Locked, Tidy, lock = None, NEW i \in dirs
  PROVE  pins[i] = comps[i]
<1>1. i \in Ids  BY DEF DispatcherInv, Types
<1>2. \A q \in Procs : pc[q] \notin Holding  BY DispatcherAssumption DEF Locked
<1>3. \A q \in Procs : ~WorksOn(q, i)  BY <1>2, HolderWorks
<1> QED  BY <1>1, <1>3 DEF Tidy, Full

LEMMA FullStep ==
  ASSUME LinkInv, LeftInv, Tidy,
         UNCHANGED job, NEW p \in Procs, Start(p) \/ Step(p) \/ Crash(p),
         pc'[p] # "crashed",
         NEW i \in Ids
  PROVE  Full(i)'
<1>0. /\ Types /\ Types' /\ DispatcherInv /\ ProcInv(p) /\ Locked /\ LegacyHasNone(p)
      /\ Remaining(p) /\ Ready(p) /\ Replaced(p) /\ pins \in [Ids -> SUBSET Programs]
      /\ left \in [Procs -> SUBSET Programs]
      /\ NewId(p) \in Ids /\ NewId(p)[1] = p /\ None \notin Ids
  BY StepTypes, IdParts DEF LinkInv, LeftInv, DispatcherInv, Tidy
<1>a. Full(i) /\ Owned(i)  BY DEF Tidy
<1>b. pins' \in [Ids -> SUBSET Programs]  BY <1>0, PinsChange
<1>1. CASE comps'[i] # comps[i]
  <2>1. i = NewId(p) /\ pc[p] = "generate"  BY <1>0, <1>1, CompsChange
  <2>2. Unbuilt(i)  BY <1>0, <2>1, IdParts DEF Unbuilt, BeforeBuild
  <2>2a. i \notin dirs  BY <1>a, <2>2 DEF Owned
  <2>3. i \notin dirs' /\ pins'[i] = {}
    <3>1. ~WorksOn(p, i) /\ ~PinLock(p)  BY <2>1 DEF WorksOn, PinLock
    <3> QED  BY <1>0, <1>a, <2>2a, <3>1, OnlyWorkers DEF Full
  <2> QED  BY <2>3 DEF Full
<1>2. CASE comps'[i] = comps[i] /\ ~WorksOn(p, i)
  <2>1. CASE PinLock(p) /\ i = new[p]
    <3>1. /\ pc[p] = "pin" /\ i = NewId(p) /\ pc'[p] = "pinning" /\ new'[p] = new[p]
          /\ pins' = pins
      BY <1>0, <2>1 DEF PinLock, ProcInv, Builds, Built, Goto, Types
    <3>2. i \notin dirs  BY <1>0, <1>a, <3>1 DEF Owned
    <3>3. WorksOn(p, i)' /\ i \in dirs'  BY <2>1, <3>1 DEF WorksOn, PinLock
    <3> QED  BY <1>2, <1>a, <3>1, <3>2, <3>3 DEF Full
  <2>2. CASE ~(PinLock(p) /\ i = new[p])
    <3>1. pins'[i] = pins[i] /\ (i \in dirs') = (i \in dirs)
      BY <1>0, <1>2, <2>2, OnlyWorkers
    <3>2. ASSUME NEW q \in Procs, WorksOn(q, i)  PROVE WorksOn(q, i)'
      <4>1. /\ q # p /\ pc'[q] = pc[q] /\ new'[q] = new[q] /\ old'[q] = old[q]
            /\ cand'[q] = cand[q]
        BY <1>0, <1>2, <3>2, OthersUntouched
      <4> QED  BY <3>2, <4>1 DEF WorksOn
    <3> QED  BY <1>2, <1>a, <3>1, <3>2 DEF Full
  <2> QED  BY <2>1, <2>2
<1>3. CASE comps'[i] = comps[i] /\ WorksOn(p, i)
  <2>1. \/ WorksOn(p, i)' /\ pins'[i] \subseteq comps[i] /\ (i \notin dirs' => pins'[i] = {})
        \/ i \notin dirs' /\ pins'[i] = {}
        \/ i \in dirs' /\ pins'[i] = comps[i]
    <3> USE <1>0, <1>3, <1>a DEF Types, Full, WorksOn, Remaining, Ended, Goto, End, sharedVars,
                              readVars, history
    <3>1. CASE Start(p)  BY <3>1 DEF Start
    <3>2. CASE Query(p)  BY <3>2 DEF Query, NothingThere
    <3>3. CASE Open(p)  BY <3>3 DEF Open, AfterRead
    <3>4. CASE Disappeared(p)  BY <3>4 DEF Disappeared, NothingThere
    <3>5. CASE Read(p)  BY <3>5 DEF Read, AfterRead
    <3>6. CASE Check(p)  BY <3>6 DEF Check
    <3>7. CASE Generate(p)  BY <3>7 DEF Generate
    <3>8. CASE BuildFails(p)  BY <3>8 DEF BuildFails
    <3>9. CASE AttachSingle(p)  BY <3>9 DEF AttachSingle, Changed
    <3>10. CASE PinLock(p)  BY <3>10 DEF PinLock
    <3>11. CASE PinDone(p)  BY <3>11 DEF PinDone, PinnedAll
    <3>12. CASE PinFails(p)  BY <3>12 DEF PinFails
    <3>13. CASE \E g \in Programs : PinProgram(p, g)  BY <3>13 DEF PinProgram
    <3>14. CASE Swap(p)  BY <3>14 DEF Swap, Changed
    <3>15. CASE SwapRejected(p)  BY <3>15 DEF SwapRejected
    <3>16. CASE SwapNone(p)  BY <3>16 DEF SwapNone, Changed, TryAgain
    <3>17. CASE Close(p)  BY <3>17 DEF Close
    <3>18. CASE UnpinLock(p)  BY <3>18 DEF UnpinLock
    <3>19. CASE UnpinDone(p)  BY <3>19 DEF UnpinDone, UnpinReturns, TryAgain, Target
    <3>20. CASE \E g \in Programs : UnpinProgram(p, g)  BY <3>20 DEF UnpinProgram, Target
    <3>21. CASE \E g \in Programs : UnpinStops(p, g)
      BY <3>21 DEF UnpinStops, UnpinReturns, TryAgain, Target
    <3>22. CASE CleanLock(p)  BY <3>22 DEF CleanLock
    <3>23. CASE CleanRmdir(p)  BY <3>23 DEF CleanRmdir
    <3>24. CASE CleanDone(p)  BY <3>24 DEF CleanDone
    <3>25. CASE \E g \in Programs : CleanUnlink(p, g)  BY <3>25 DEF CleanUnlink
    <3>26. CASE \E d \in visit[p] : CleanQuery(p, d)  BY <3>26 DEF CleanQuery
    <3>27. CASE Crash(p)  BY <3>27 DEF Crash
    <3> HIDE <1>0, <1>3, <1>a DEF Types, Full, WorksOn, Remaining, Ended, Goto, End, sharedVars,
                               readVars, history
    <3> QED  BY <3>1, <3>2, <3>3, <3>4, <3>5, <3>6, <3>7, <3>8, <3>9, <3>10, <3>11, <3>12,
                  <3>13, <3>14, <3>15, <3>16, <3>17, <3>18, <3>19, <3>20, <3>21, <3>22,
                  <3>23, <3>24, <3>25, <3>26, <3>27 DEF Step
  <2> QED  BY <1>3, <2>1, <1>a DEF Full, WorksOn
<1> QED  BY <1>1, <1>2, <1>3

LEMMA RemainingOwn ==
  ASSUME LinkInv, LeftInv, Tidy,
         UNCHANGED job, NEW p \in Procs, Start(p) \/ Step(p) \/ Crash(p),
         pc'[p] # "crashed"
  PROVE  Remaining(p)'
<1>0. /\ Types /\ Types' /\ DispatcherInv /\ ProcInv(p) /\ Locked /\ LegacyHasNone(p)
      /\ Remaining(p) /\ Ready(p) /\ Replaced(p) /\ pins \in [Ids -> SUBSET Programs]
      /\ left \in [Procs -> SUBSET Programs]
      /\ NewId(p) \in Ids /\ NewId(p)[1] = p /\ None \notin Ids
  BY StepTypes, IdParts DEF LinkInv, LeftInv, DispatcherInv, Tidy
<1>a. /\ pc[p] \in {"swap", "swapnone"} /\ ~legacy[p] /\ old[p] # None =>
           oldProgs[p] = comps[old[p]]
      /\ pc[p] = "swap" => ~legacy[p]
      /\ pc[p] = "swapnone" => old[p] # None
  BY <1>0 DEF ProcInv, Reads, Builds, Kinds, Built, Attaches
<1>b. lock = None /\ old[p] \in dirs => pins[old[p]] = comps[old[p]]
  BY <1>0, FreeMeansFull
<1>c. lock = None /\ new[p] \in dirs => pins[new[p]] = comps[new[p]]
  BY <1>0, FreeMeansFull
<1> USE <1>0, <1>a, <1>b, <1>c DEF Types, Remaining, Ended, Goto, End, sharedVars,
                                   readVars, history
<1>1. CASE Start(p)  BY <1>1 DEF Start
<1>2. CASE Query(p)  BY <1>2 DEF Query, NothingThere
<1>3. CASE Open(p)  BY <1>3 DEF Open, AfterRead
<1>4. CASE Disappeared(p)  BY <1>4 DEF Disappeared, NothingThere
<1>5. CASE Read(p)  BY <1>5 DEF Read, AfterRead
<1>6. CASE Check(p)  BY <1>6 DEF Check
<1>7. CASE Generate(p)  BY <1>7 DEF Generate
<1>8. CASE BuildFails(p)  BY <1>8 DEF BuildFails
<1>9. CASE AttachSingle(p)  BY <1>9 DEF AttachSingle, Changed
<1>10. CASE PinLock(p)  BY <1>10 DEF PinLock
<1>11. CASE PinDone(p)  BY <1>11 DEF PinDone
<1>12. CASE PinFails(p)  BY <1>12 DEF PinFails
<1>13. CASE \E g \in Programs : PinProgram(p, g)  BY <1>13 DEF PinProgram
<1>14. CASE Swap(p)  BY <1>14 DEF Swap, Changed, ToUndo
<1>15. CASE SwapRejected(p)  BY <1>15 DEF SwapRejected, ToUndo
<1>16. CASE SwapNone(p)  BY <1>16 DEF SwapNone, Changed, TryAgain
<1>17. CASE Close(p)  BY <1>17 DEF Close
<1>18. CASE UnpinLock(p)  BY <1>18 DEF UnpinLock
<1>19. CASE UnpinDone(p)  BY <1>19 DEF UnpinDone, UnpinReturns, TryAgain
<1>20. CASE \E g \in Programs : UnpinProgram(p, g)  BY <1>20 DEF UnpinProgram, Target
<1>21. CASE \E g \in Programs : UnpinStops(p, g)
  BY <1>21 DEF UnpinStops, UnpinReturns, TryAgain
<1>22. CASE CleanLock(p)  BY <1>22 DEF CleanLock
<1>23. CASE CleanRmdir(p)  BY <1>23 DEF CleanRmdir
<1>24. CASE CleanDone(p)  BY <1>24 DEF CleanDone
<1>25. CASE \E g \in Programs : CleanUnlink(p, g)  BY <1>25 DEF CleanUnlink
<1>26. CASE \E d \in visit[p] : CleanQuery(p, d)  BY <1>26 DEF CleanQuery
<1>27. CASE Crash(p)  BY <1>27 DEF Crash
<1> QED  BY <1>1, <1>2, <1>3, <1>4, <1>5, <1>6, <1>7, <1>8, <1>9, <1>10, <1>11, <1>12,
              <1>13, <1>14, <1>15, <1>16, <1>17, <1>18, <1>19, <1>20, <1>21, <1>22,
              <1>23, <1>24, <1>25, <1>26, <1>27 DEF Step

LEMMA RemainingOthers ==
  ASSUME LinkInv, LeftInv, Tidy,
         UNCHANGED job, NEW p \in Procs, Start(p) \/ Step(p) \/ Crash(p),
         pc'[p] # "crashed",
         NEW q \in Procs \ {p}
  PROVE  Remaining(q)'
<1>0. /\ Types /\ Types' /\ DispatcherInv /\ ProcInv(p) /\ Locked /\ LegacyHasNone(p)
      /\ Remaining(p) /\ Ready(p) /\ Replaced(p) /\ pins \in [Ids -> SUBSET Programs]
      /\ left \in [Procs -> SUBSET Programs]
      /\ NewId(p) \in Ids /\ NewId(p)[1] = p /\ None \notin Ids
  BY StepTypes, IdParts DEF LinkInv, LeftInv, DispatcherInv, Tidy
<1>1. /\ pc'[q] = pc[q] /\ new'[q] = new[q] /\ old'[q] = old[q] /\ left'[q] = left[q]
      /\ Remaining(q) /\ ProcInv(q) /\ Ready(q) /\ Replaced(q) /\ NewId(q) \in Ids
      /\ old[q] \in Ids \cup {None} /\ new[q] \in Ids \cup {None}
  BY <1>0, OthersUntouched, OthersUntouchedToo, IdParts
     DEF LinkInv, LeftInv, DispatcherInv, Tidy, Types
<1>2. /\ old[q] \in Ids => comps'[old[q]] = comps[old[q]]
      /\ new[q] \in Ids => comps'[new[q]] = comps[new[q]]
  BY <1>0, KnownKept
<1>3. pc[q] \in Holding =>
        \A i \in Ids : pins'[i] = pins[i] /\ (i \in dirs') = (i \in dirs)
  BY <1>0, OthersLeave
<1>4. /\ pc[q] \in {"unpinold", "unpinningold"} => old[q] \in Ids
      /\ pc[q] \in {"pinning"} \cup Undoing => new[q] \in Ids
  BY <1>1 DEF Replaced, Ready, ProcInv, Builds, Built
<1> QED  BY <1>1, <1>2, <1>3, <1>4 DEF Remaining, Holding, Undoing

LEMMA LegacyStep ==
  ASSUME LinkInv, LeftInv, Tidy,
         UNCHANGED job, NEW p \in Procs, Start(p) \/ Step(p) \/ Crash(p),
         pc'[p] # "crashed",
         NEW q \in Procs
  PROVE  LegacyHasNone(q)'
<1>0. /\ Types /\ Types' /\ DispatcherInv /\ ProcInv(p) /\ Locked /\ LegacyHasNone(p)
      /\ Remaining(p) /\ Ready(p) /\ Replaced(p) /\ pins \in [Ids -> SUBSET Programs]
      /\ left \in [Procs -> SUBSET Programs]
      /\ NewId(p) \in Ids /\ NewId(p)[1] = p /\ None \notin Ids
  BY StepTypes, IdParts DEF LinkInv, LeftInv, DispatcherInv, Tidy
<1>1. CASE q # p
  <2>1. /\ pc'[q] = pc[q] /\ legacy'[q] = legacy[q] /\ old'[q] = old[q]
        /\ LegacyHasNone(q) /\ old[q] \in Ids \cup {None} /\ dirs' \subseteq Ids
    BY <1>0, <1>1, OthersUntouched DEF Tidy, Types
  <2>2. old[q] \in Ids /\ old[q] \notin dirs => old[q] \notin dirs'
    <3> SUFFICES ASSUME old[q] \in Ids, old[q] \notin dirs, old[q] \in dirs'  PROVE FALSE
      OBVIOUS
    <3>1. PinLock(p) /\ old[q] = new[p]  BY <1>0, DirsGrow
    <3>2. pc[p] = "pin" /\ new[p] = NewId(p)
      BY <1>0, <3>1 DEF PinLock, ProcInv, Builds, Built
    <3>3. Private(NewId(p)) /\ Unswapped(NewId(p))
      BY <1>0, <3>2, IdParts DEF LinkInv, Unswapped, Built
    <3> QED  BY <3>1, <3>2, <3>3 DEF Private
  <2> QED  BY <1>0, <2>1, <2>2 DEF LegacyHasNone
<1>2. CASE q = p
  <2>a. pc[p] = "open" /\ ~IsDispatcher(cand[p]) => cand[p] \notin dirs
    BY <1>0 DEF Tidy, Owned, Types
  <2>b. pc[p] = "read" /\ lock = None /\ ~Complete(old[p]) => old[p] \notin dirs
    BY <1>0, FreeMeansFull DEF Complete
  <2> USE <1>0, <1>2, <2>a, <2>b DEF Types, LegacyHasNone, Ended, Goto, End, sharedVars,
                                     readVars, history
  <2>1. CASE Start(p)  BY <2>1 DEF Start
  <2>2. CASE Query(p)  BY <2>2 DEF Query, NothingThere
  <2>3. CASE Open(p)  BY <2>3 DEF Open, AfterRead
  <2>4. CASE Disappeared(p)  BY <2>4 DEF Disappeared, NothingThere
  <2>5. CASE Read(p)  BY <2>5 DEF Read, AfterRead
  <2>6. CASE Check(p)  BY <2>6 DEF Check
  <2>7. CASE Generate(p)  BY <2>7 DEF Generate
  <2>8. CASE BuildFails(p)  BY <2>8 DEF BuildFails
  <2>9. CASE AttachSingle(p)  BY <2>9 DEF AttachSingle, Changed
  <2>10. CASE PinLock(p)  BY <2>10 DEF PinLock
  <2>11. CASE PinDone(p)  BY <2>11 DEF PinDone
  <2>12. CASE PinFails(p)  BY <2>12 DEF PinFails
  <2>13. CASE \E g \in Programs : PinProgram(p, g)  BY <2>13 DEF PinProgram
  <2>14. CASE Swap(p)  BY <2>14 DEF Swap, Changed
  <2>15. CASE SwapRejected(p)  BY <2>15 DEF SwapRejected
  <2>16. CASE SwapNone(p)  BY <2>16 DEF SwapNone, Changed, TryAgain
  <2>17. CASE Close(p)  BY <2>17 DEF Close
  <2>18. CASE UnpinLock(p)  BY <2>18 DEF UnpinLock
  <2>19. CASE UnpinDone(p)  BY <2>19 DEF UnpinDone, UnpinReturns, TryAgain
  <2>20. CASE \E g \in Programs : UnpinProgram(p, g)  BY <2>20 DEF UnpinProgram
  <2>21. CASE \E g \in Programs : UnpinStops(p, g)
    BY <2>21 DEF UnpinStops, UnpinReturns, TryAgain
  <2>22. CASE CleanLock(p)  BY <2>22 DEF CleanLock
  <2>23. CASE CleanRmdir(p)  BY <2>23 DEF CleanRmdir
  <2>24. CASE CleanDone(p)  BY <2>24 DEF CleanDone
  <2>25. CASE \E g \in Programs : CleanUnlink(p, g)  BY <2>25 DEF CleanUnlink
  <2>26. CASE \E d \in visit[p] : CleanQuery(p, d)  BY <2>26 DEF CleanQuery
  <2>27. CASE Crash(p)  BY <2>27 DEF Crash
  <2> QED  BY <2>1, <2>2, <2>3, <2>4, <2>5, <2>6, <2>7, <2>8, <2>9, <2>10, <2>11, <2>12,
                <2>13, <2>14, <2>15, <2>16, <2>17, <2>18, <2>19, <2>20, <2>21, <2>22,
                <2>23, <2>24, <2>25, <2>26, <2>27 DEF Step
<1> QED  BY <1>1, <1>2

LEMMA DeadDoNothing ==
  ASSUME NEW p \in Procs, Start(p) \/ Step(p) \/ Crash(p)
  PROVE  pc[p] # "crashed"
BY DEF Start, Step, Crash, Ended, Query, Open, Disappeared, Read, Check, Generate, BuildFails,
       AttachSingle, PinLock, PinDone, PinFails, PinProgram, Swap, SwapRejected, SwapNone,
       Close, UnpinLock, UnpinDone, UnpinProgram, UnpinStops, CleanLock, CleanRmdir, CleanDone,
       CleanUnlink, CleanQuery

LEMMA LeftInitially ==
  ASSUME Init
  PROVE  LeftInv
<1> USE DEF Init
<1>1. /\ left \in [Procs -> SUBSET Programs] /\ err \in [Procs -> Errors]
      /\ overlapped \subseteq Procs
  BY DEF Errors
<1>2. Locked /\ DirInv  BY DEF Locked, DirInv, Holding
<1>3. ASSUME NEW i \in Ids  PROVE Owned(i) /\ Full(i)
  BY <1>3 DEF Owned, Full
<1>4. ASSUME NEW p \in Procs  PROVE Remaining(p) /\ LegacyHasNone(p)
  BY <1>4 DEF Remaining, LegacyHasNone
<1>5. ASSUME NEW p \in Procs  PROVE Cleaned(p) /\ Undisturbed(p)
  BY <1>5 DEF Cleaned, Undisturbed, Built, Undoing
<1> QED  BY <1>1, <1>2, <1>3, <1>4, <1>5 DEF LeftInv, Tidy

LEMMA LeftStep ==
  ASSUME LinkInv, LeftInv, [Next]_vars
  PROVE  LeftInv'
<1>1. CASE UNCHANGED vars
  <2> USE <1>1 DEF vars, sharedVars, readVars, history
  <2>1. /\ left' \in [Procs -> SUBSET Programs] /\ err' \in [Procs -> Errors]
        /\ overlapped' \subseteq Procs
    BY DEF LeftInv
  <2>2. Locked'  BY DEF LeftInv, Locked
  <2>3. DirInv'  BY DEF LeftInv, DirInv, Kept, IsDispatcher
  <2>4. ASSUME NoCrash', NEW i \in Ids  PROVE Owned(i)' /\ Full(i)'
    <3>1. Owned(i) /\ Full(i)  BY <2>4 DEF LeftInv, NoCrash, Tidy
    <3>2. Owned(i)'
      BY <3>1 DEF Owned, Owes, Unbuilt, NewId, IsDispatcher
    <3>3. Full(i)'  BY <3>1 DEF Full, WorksOn
    <3> QED  BY <3>2, <3>3
  <2>5. ASSUME NoCrash', NEW p \in Procs  PROVE Remaining(p)' /\ LegacyHasNone(p)'
    BY <2>5 DEF LeftInv, NoCrash, Tidy, Remaining, LegacyHasNone
  <2>6. ASSUME NEW p \in Procs  PROVE Cleaned(p)'
    BY <2>6 DEF LeftInv, Cleaned
  <2>7. ASSUME NEW p \in Procs  PROVE Undisturbed(p)'
    BY <2>7 DEF LeftInv, Undisturbed, Unreadable, IsDispatcher
  <2> HIDE <1>1 DEF vars, sharedVars, readVars, history
  <2>8. NoCrash' => Tidy'  BY <2>4, <2>5 DEF Tidy
  <2> QED  BY <2>1, <2>2, <2>3, <2>6, <2>7, <2>8 DEF LeftInv
<1>2. CASE Next
  <2>1. PICK p \in Procs : Start(p) \/ Step(p) \/ Crash(p)  BY <1>2 DEF Next
  <2>2. UNCHANGED job  BY <1>2 DEF Next
  <2>3. DispatcherInv /\ Types  BY DEF LinkInv, DispatcherInv
  <2>4. /\ left' \in [Procs -> SUBSET Programs] /\ err' \in [Procs -> Errors]
        /\ overlapped' \subseteq Procs
    BY <2>1, <2>2, <2>3, OthersUntouchedToo DEF LeftInv
  <2>5. Locked'  BY <2>1, <2>2, <2>3, StaysLocked DEF LeftInv
  <2>6. DirInv'  BY <2>1, <2>2, DirsStep DEF LeftInv
  <2>7. ASSUME NEW q \in Procs  PROVE Cleaned(q)' /\ Undisturbed(q)'
    BY <2>1, <2>2, <2>7, CleanedStep, UndisturbedStep
  <2>8. ASSUME NoCrash'  PROVE Tidy'
    <3>1. pc'[p] # "crashed"  BY <2>8 DEF NoCrash
    <3>2. NoCrash
      <4> SUFFICES ASSUME NEW q \in Procs, pc[q] = "crashed"  PROVE FALSE
        BY DEF NoCrash
      <4>1. q # p  BY <2>1, DeadDoNothing
      <4>2. pc'[q] = pc[q]  BY <2>1, <2>2, <2>3, <4>1, OthersUntouched
      <4> QED  BY <2>8, <4>2 DEF NoCrash
    <3>3. Tidy  BY <3>2 DEF LeftInv
    <3>4. ASSUME NEW i \in Ids  PROVE Owned(i)' /\ Full(i)'
      BY <2>1, <2>2, <3>1, <3>3, <3>4, OwnedStep, FullStep
    <3>5. ASSUME NEW q \in Procs  PROVE Remaining(q)' /\ LegacyHasNone(q)'
      <4>1. CASE q = p  BY <2>1, <2>2, <3>1, <3>3, <4>1, RemainingOwn, LegacyStep
      <4>2. CASE q # p  BY <2>1, <2>2, <3>1, <3>3, <4>2, RemainingOthers, LegacyStep
      <4> QED  BY <4>1, <4>2
    <3> QED  BY <3>4, <3>5 DEF Tidy
  <2> QED  BY <2>4, <2>5, <2>6, <2>7, <2>8 DEF LeftInv
<1> QED  BY <1>1, <1>2

LEMMA LeftAlways == Spec => [](LinkInv /\ LeftInv)
<1>1. Init => LinkInv /\ LeftInv  BY LinksInitially, LeftInitially
<1>2. LinkInv /\ LeftInv /\ [Next]_vars => LinkInv' /\ LeftInv'  BY LinksStep, LeftStep
<1> QED  BY <1>1, <1>2, PTL DEF Spec

-----------------------------------------------------------------------------
(* Whatever way any number of attach, detach and clean operations ran and  *)
(* failed, once all are over only the attached dispatcher has a directory  *)
(* of pins (err_unpin and the unpins around a swap, libxdp.c 3146-3157 and *)
(* 1844-1881), unless one of the processes died in the middle.             *)
THEOREM NothingIsLeft == Spec => []NothingLeftBehind
<1>1. LinkInv /\ LeftInv => NothingLeftBehind
  <2> SUFFICES ASSUME LinkInv, LeftInv, \A p \in Procs : pc[p] \in {"idle", "ok", "failed"},
                      NEW i \in dirs
               PROVE  i = attached
    BY DEF NothingLeftBehind
  <2>1. NoCrash  BY DEF NoCrash
  <2>2. Owned(i)  BY <2>1 DEF LeftInv, Tidy, LinkInv, DispatcherInv, Types
  <2>3. \A p \in Procs : ~Owes(p, i)  BY DEF Owes, Undoing
  <2> QED  BY <2>2, <2>3 DEF Owned
<1> QED  BY <1>1, LeftAlways, PTL

(* libxdp_clean_references (libxdp.c 3455-3502) leaves the directory of    *)
(* the attached dispatcher and no other, whoever died before it and        *)
(* however many did, if nobody changed the interface while it ran.         *)
THEOREM CleanRemovesTheRest == Spec => []CleanRecovers
<1>1. LinkInv /\ LeftInv => CleanRecovers
  BY DEF LeftInv, Cleaned, CleanRecovers
<1> QED  BY <1>1, LeftAlways, PTL

(* An attach that ran while nobody changed the interface is refused only   *)
(* when there are too many programs, when a system call failed, or when    *)
(* what is attached cannot be read as a dispatcher: never because another  *)
(* process was there (xdp_program__attach_multi, libxdp.c 1843-1864).      *)
THEOREM RefusedForItsOwnReasons == Spec => []RefusedOnlyWhenOverlapped
<1>1. LinkInv /\ LeftInv => RefusedOnlyWhenOverlapped
  BY DEF LeftInv, Undisturbed, Unreadable, RefusedOnlyWhenOverlapped
<1> QED  BY <1>1, LeftAlways, PTL
=============================================================================
