--------------------------- MODULE TestEnv_proofs ---------------------------
(***************************************************************************)
(* Prefixes and the state directory, for any number of shells, names,      *)
(* commands and kills. The prefix argument: only a command that runs       *)
(* beside no other one adds to the good environments (Good), so whatever a *)
(* shell has read of them, its number included, is not outdated by the     *)
(* others; and for a command that runs alone the number it read is the one *)
(* on file. The directory argument: who finds no environment will remove   *)
(* what others wrote meanwhile, or those others are still to look          *)
(* themselves.                                                             *)
(*                                                                         *)
(* The last part: environments exist as a whole or not at all. A shell     *)
(* that is the only one engaged on its environment knows at every step of  *)
(* setup, teardown, reset and trap which parts are there (Known); a second *)
(* one on the same name is seen by the history variable clash, and the     *)
(* name counts as dirty until somebody alone has repaired it.              *)
(***************************************************************************)
EXTENDS TestEnv, FiniteSetTheorems, TLAPS

SettingUp == {"netnsadd", "linkadd", "configure", "create", "append", "ping", "current"}
Numbering == {"exists", "getnum", "putnum"}
TearingDown == {"netnsdel", "rmstate", "rmcurrent"}
Leaving == {"exit", "undostate", "glob", "remove", "rmdir"}
Labels ==
  {"idle", "nsname", "ensure", "select", "linkdel"}
    \cup Numbering \cup SettingUp \cup TearingDown \cup Leaving

Types ==
  /\ statedir \in BOOLEAN /\ highest \in Nat /\ current \in Names \cup {None}
  /\ statefile \subseteq Names /\ prefix \in [Names -> Nat]
  /\ pc \in [Shells -> Labels] /\ cmd \in [Shells -> Commands]
  /\ ns \in [Shells -> Names \cup {None}]
  /\ num \in [Shells -> Nat] /\ ip6prefix \in [Shells -> Nat]
  /\ cleanupFunc \in [Shells -> {"none", "cleanup_setup", "cleanup_teardown"}]
  /\ status \in [Shells -> {"ok", "failed"}]
  /\ phase \in [Shells -> {"none", "setup", "teardown"}]
  /\ littered \in BOOLEAN

(* What the place in the script says of the command and its variables.     *)
Control(p) ==
  /\ pc[p] \in SettingUp \cup Numbering => cmd[p] \in {"setup", "reset"}
  /\ pc[p] \in {"linkdel"} \cup TearingDown => cmd[p] \in {"teardown", "reset"}
  /\ cmd[p] = "setup" => pc[p] \notin {"ensure", "select"}
  /\ pc[p] \in {"idle", "nsname", "ensure", "select"} => ip6prefix[p] = 0
  /\ cmd[p] = "setup" /\ pc[p] \in Numbering => ip6prefix[p] = 0
  /\ pc[p] \notin {"idle", "nsname", "ensure"} \cup Leaving => ns[p] \in Names
  /\ pc[p] = "putnum" => num[p] # 0
  /\ pc[p] \in {"netnsadd", "linkadd", "configure", "create", "append"} =>
       ip6prefix[p] # 0 /\ cleanupFunc[p] = "cleanup_setup"
  /\ cleanupFunc[p] = "cleanup_setup" => phase[p] = "setup"
  /\ pc[p] = "undostate" => phase[p] = "setup"
  /\ pc[p] \in SettingUp => phase[p] = "setup"
  /\ pc[p] \in TearingDown => phase[p] = "teardown"
  /\ pc[p] \in Numbering => phase[p] # "setup"
  /\ pc[p] \in {"idle", "nsname", "ensure", "select", "linkdel"} => phase[p] = "none"
  /\ phase[p] # "none" => ns[p] \in Names /\ cmd[p] # "other"

(* A command that has not met another one runs alone, in its directory.    *)
Alone ==
  \A p \in Running \ overlapped : statedir /\ Running = {p}

(* Environments set up by a command that ran alone.                        *)
Good(a) == a \in statefile \ rough /\ prefix[a] # 0

(* Their prefixes differ, and the number given last is not below them.     *)
GoodDistinct ==
  /\ \A a, b \in Names : Good(a) /\ Good(b) /\ a # b => prefix[a] # prefix[b]
  /\ \A a \in Names : Good(a) => prefix[a] <= highest

(* The number a shell is about to write is above them all; a shell that is *)
(* about to remove the file has seen that there is none; the prefix of a   *)
(* shell that runs alone is taken by no other one, and its number follows  *)
(* the one on file.                                                        *)
NumberIsNew(p) == pc[p] = "putnum" => \A a \in Names : Good(a) => prefix[a] < num[p]
NoneIsGood(p) == pc[p] = "remove" => \A a \in Names : ~Good(a)
PrefixIsFree(p) ==
  /\ p \in Running \ overlapped /\ pc[p] \notin Leaving
  /\ cmd[p] \in {"setup", "reset"} /\ ip6prefix[p] # 0
  => \/ cmd[p] = "reset" /\ ns[p] \in rough
     \/ /\ ip6prefix[p] <= highest
        /\ \A a \in Names : Good(a) /\ a # ns[p] => prefix[a] # ip6prefix[p]
NumberFollows(p) == p \in Running \ overlapped /\ pc[p] = "putnum" => num[p] = highest + 1

(* Every step keeps the types.                                             *)
LEMMA StepTypes ==
  ASSUME Types, NEW p \in Shells, Control(p), Step(p)
  PROVE  Types'
<1> USE DEF Types, Labels, SettingUp, Numbering, TearingDown, Leaving, Commands, Goto,
    files, network, shellVars, history
<1>1. ASSUME NEW c \in Commands, NEW n \in Names \cup {None}, Start(p, c, n)  PROVE Types'
  BY <1>1 DEF Start
<1>2. ASSUME NEW n \in Names \cup {None}, GetNsname(p, n)  PROVE Types'
  BY <1>2 DEF GetNsname, NsNames
<1>3. CASE EnsureNsname(p)  BY <1>3 DEF EnsureNsname, Exit
<1>4. CASE Select(p)  BY <1>4 DEF Select, Exit, Control
<1>5. CASE Exists(p)  BY <1>5 DEF Exists, Exit
<1>6. CASE GetNum(p)  BY <1>6 DEF GetNum
<1>7. CASE PutNum(p)  BY <1>7 DEF PutNum, NextNum
<1>8. CASE NetnsAdd(p)  BY <1>8 DEF NetnsAdd
<1>9. CASE LinkAdd(p)  BY <1>9 DEF LinkAdd
<1>10. CASE Configure(p)  BY <1>10 DEF Configure
<1>11. CASE CreateStatefile(p)  BY <1>11 DEF CreateStatefile, Control
<1>12. CASE AppendStatefile(p)  BY <1>12 DEF AppendStatefile, Control
<1>13. CASE RunPing(p)  BY <1>13 DEF RunPing, Control
<1>14. CASE SetCurrent(p)  BY <1>14 DEF SetCurrent, Exit, Control
<1>15. CASE LinkDel(p)  BY <1>15 DEF LinkDel
<1>16. CASE NetnsDel(p)  BY <1>16 DEF NetnsDel
<1>17. CASE GoesOn(p)  BY <1>17 DEF GoesOn
<1>18. CASE RmStatefile(p)  BY <1>18 DEF RmStatefile
<1>19. CASE RmCurrent(p)  BY <1>19 DEF RmCurrent, Exit
<1>20. CASE Fails(p)  BY <1>20 DEF Fails, Exit
<1>21. CASE CleanupSetup(p)  BY <1>21 DEF CleanupSetup, RegisteredCleanup
<1>22. CASE UndoStatefile(p)  BY <1>22 DEF UndoStatefile
<1>23. CASE Glob(p)
  <2>1. CASE statedir /\ statefile = {}  BY <1>23, <2>1 DEF Glob
  <2>2. CASE Gone(p)  BY <1>23, <2>2 DEF Glob, Gone
  <2> QED  BY <1>23, <2>1, <2>2 DEF Glob, Return
<1>24. CASE Remove(p)  BY <1>24 DEF Remove, ToRemove
<1>25. CASE Rmdir(p)  BY <1>25 DEF Rmdir, Return, Gone
<1>26. CASE Kill(p)  BY <1>26 DEF Kill, Gone
<1> QED  BY <1>1, <1>2, <1>3, <1>4, <1>5, <1>6, <1>7, <1>8, <1>9, <1>10, <1>11, <1>12,
           <1>13, <1>14, <1>15, <1>16, <1>17, <1>18, <1>19, <1>20, <1>21, <1>22, <1>23,
           <1>24, <1>25, <1>26 DEF Step

(* A step of one shell leaves the variables of the others.                 *)
LEMMA OthersUntouched ==
  ASSUME Types, NEW p \in Shells, Step(p), NEW q \in Shells \ {p}
  PROVE  /\ pc'[q] = pc[q] /\ cmd'[q] = cmd[q] /\ ns'[q] = ns[q] /\ num'[q] = num[q]
         /\ ip6prefix'[q] = ip6prefix[q] /\ cleanupFunc'[q] = cleanupFunc[q]
         /\ status'[q] = status[q] /\ phase'[q] = phase[q]
<1> DEFINE Same ==
       /\ pc'[q] = pc[q] /\ cmd'[q] = cmd[q] /\ ns'[q] = ns[q] /\ num'[q] = num[q]
       /\ ip6prefix'[q] = ip6prefix[q] /\ cleanupFunc'[q] = cleanupFunc[q]
       /\ status'[q] = status[q] /\ phase'[q] = phase[q]
<1> USE DEF Types, Goto, files, network, shellVars, history
<1>1. ASSUME NEW c \in Commands, NEW n \in Names \cup {None}, Start(p, c, n)  PROVE Same
  BY <1>1 DEF Start
<1>2. ASSUME NEW n \in Names \cup {None}, GetNsname(p, n)  PROVE Same
  BY <1>2 DEF GetNsname, NsNames
<1>3. CASE EnsureNsname(p)  BY <1>3 DEF EnsureNsname, Exit
<1>4. CASE Select(p)  BY <1>4 DEF Select, Exit
<1>5. CASE Exists(p)  BY <1>5 DEF Exists, Exit
<1>6. CASE GetNum(p)  BY <1>6 DEF GetNum
<1>7. CASE PutNum(p)  BY <1>7 DEF PutNum, NextNum
<1>8. CASE NetnsAdd(p)  BY <1>8 DEF NetnsAdd
<1>9. CASE LinkAdd(p)  BY <1>9 DEF LinkAdd
<1>10. CASE Configure(p)  BY <1>10 DEF Configure
<1>11. CASE CreateStatefile(p)  BY <1>11 DEF CreateStatefile
<1>12. CASE AppendStatefile(p)  BY <1>12 DEF AppendStatefile
<1>13. CASE RunPing(p)  BY <1>13 DEF RunPing
<1>14. CASE SetCurrent(p)  BY <1>14 DEF SetCurrent, Exit
<1>15. CASE LinkDel(p)  BY <1>15 DEF LinkDel
<1>16. CASE NetnsDel(p)  BY <1>16 DEF NetnsDel
<1>17. CASE GoesOn(p)  BY <1>17 DEF GoesOn
<1>18. CASE RmStatefile(p)  BY <1>18 DEF RmStatefile
<1>19. CASE RmCurrent(p)  BY <1>19 DEF RmCurrent, Exit
<1>20. CASE Fails(p)  BY <1>20 DEF Fails, Exit
<1>21. CASE CleanupSetup(p)  BY <1>21 DEF CleanupSetup, RegisteredCleanup
<1>22. CASE UndoStatefile(p)  BY <1>22 DEF UndoStatefile
<1>23. CASE Glob(p)  BY <1>23 DEF Glob, Return, Gone
<1>24. CASE Remove(p)  BY <1>24 DEF Remove, ToRemove
<1>25. CASE Rmdir(p)  BY <1>25 DEF Rmdir, Return, Gone
<1>26. CASE Kill(p)  BY <1>26 DEF Kill, Gone
<1> QED  BY <1>1, <1>2, <1>3, <1>4, <1>5, <1>6, <1>7, <1>8, <1>9, <1>10, <1>11, <1>12,
           <1>13, <1>14, <1>15, <1>16, <1>17, <1>18, <1>19, <1>20, <1>21, <1>22, <1>23,
           <1>24, <1>25, <1>26 DEF Step

(* Where a shell is in the script fixes what its command is and what it    *)
(* has set.                                                                *)
LEMMA OwnControl ==
  ASSUME Types, NEW p \in Shells, Control(p), Step(p)
  PROVE  Control(p)'
<1> USE DEF Types, Labels, Control, SettingUp, Numbering, TearingDown, Leaving, Commands,
    Goto, files, network, shellVars, history
<1>1. ASSUME NEW c \in Commands, NEW n \in Names \cup {None}, Start(p, c, n)
      PROVE  Control(p)'
  BY <1>1 DEF Start
<1>2. ASSUME NEW n \in Names \cup {None}, GetNsname(p, n)  PROVE Control(p)'
  BY <1>2 DEF GetNsname, NsNames
<1>3. CASE EnsureNsname(p)  BY <1>3 DEF EnsureNsname, Exit
<1>4. CASE Select(p)  BY <1>4 DEF Select, Exit
<1>5. CASE Exists(p)  BY <1>5 DEF Exists, Exit
<1>6. CASE GetNum(p)  BY <1>6 DEF GetNum
<1>7. CASE PutNum(p)  BY <1>7 DEF PutNum, NextNum
<1>8. CASE NetnsAdd(p)  BY <1>8 DEF NetnsAdd
<1>9. CASE LinkAdd(p)  BY <1>9 DEF LinkAdd
<1>10. CASE Configure(p)  BY <1>10 DEF Configure
<1>11. CASE CreateStatefile(p)  BY <1>11 DEF CreateStatefile
<1>12. CASE AppendStatefile(p)  BY <1>12 DEF AppendStatefile
<1>13. CASE RunPing(p)  BY <1>13 DEF RunPing
<1>14. CASE SetCurrent(p)  BY <1>14 DEF SetCurrent, Exit
<1>15. CASE LinkDel(p)  BY <1>15 DEF LinkDel
<1>16. CASE NetnsDel(p)  BY <1>16 DEF NetnsDel
<1>17. CASE GoesOn(p)  BY <1>17 DEF GoesOn
<1>18. CASE RmStatefile(p)  BY <1>18 DEF RmStatefile
<1>19. CASE RmCurrent(p)  BY <1>19 DEF RmCurrent, Exit
<1>20. CASE Fails(p)  BY <1>20 DEF Fails, Exit
<1>21. CASE CleanupSetup(p)  BY <1>21 DEF CleanupSetup, RegisteredCleanup
<1>22. CASE UndoStatefile(p)  BY <1>22 DEF UndoStatefile
<1>23. CASE Glob(p)  BY <1>23 DEF Glob, Return, Gone
<1>24. CASE Remove(p)  BY <1>24 DEF Remove, ToRemove
<1>25. CASE Rmdir(p)  BY <1>25 DEF Rmdir, Return, Gone
<1>26. CASE Kill(p)  BY <1>26 DEF Kill, Gone
<1> QED  BY <1>1, <1>2, <1>3, <1>4, <1>5, <1>6, <1>7, <1>8, <1>9, <1>10, <1>11, <1>12,
           <1>13, <1>14, <1>15, <1>16, <1>17, <1>18, <1>19, <1>20, <1>21, <1>22, <1>23,
           <1>24, <1>25, <1>26 DEF Step

(* A command begins, goes on or ends.                                      *)
LEMMA RunningChange ==
  ASSUME Types, NEW p \in Shells, Step(p)
  PROVE  \/ \E c \in Commands, n \in Names \cup {None} : Start(p, c, n)
         \/ /\ Rmdir(p) \/ Kill(p) \/ (Glob(p) /\ ~(statedir /\ statefile = {}))
            /\ Running' = Running \ {p} /\ p \in Running /\ overlapped' = overlapped \ {p}
         \/ /\ pc[p] # "idle" /\ pc'[p] # "idle" /\ Running' = Running /\ p \in Running
            /\ overlapped' = overlapped /\ statedir' = statedir
<1>0. \A q \in Shells \ {p} : pc'[q] = pc[q]  BY OthersUntouched
<1> DEFINE Quiet ==
       /\ pc[p] # "idle" /\ pc'[p] # "idle"
       /\ overlapped' = overlapped /\ statedir' = statedir
<1>a. ASSUME Quiet
      PROVE  Running' = Running /\ p \in Running
  BY <1>0, <1>a DEF Running
<1>b. CASE Rmdir(p) \/ Kill(p) \/ (Glob(p) /\ ~(statedir /\ statefile = {}))
  <2>1. pc'[p] = "idle" /\ pc[p] # "idle" /\ overlapped' = overlapped \ {p}
    BY <1>b DEF Running, Rmdir, Kill, Glob, Return, Gone, Goto, Types
  <2> QED  BY <1>0, <1>b, <2>1 DEF Running
<1>c. \/ \E c \in Commands, n \in Names \cup {None} : Start(p, c, n)
      \/ Rmdir(p) \/ Kill(p) \/ (Glob(p) /\ ~(statedir /\ statefile = {}))
      \/ Quiet
  <2> USE DEF Types, Goto, files, network, shellVars, history
  <2>1. ASSUME NEW n \in Names \cup {None}, GetNsname(p, n)  PROVE Quiet
    BY <2>1 DEF GetNsname
  <2>2. CASE EnsureNsname(p)  BY <2>2 DEF EnsureNsname, Exit
  <2>3. CASE Select(p)  BY <2>3 DEF Select, Exit
  <2>4. CASE Exists(p)  BY <2>4 DEF Exists, Exit
  <2>5. CASE GetNum(p)  BY <2>5 DEF GetNum
  <2>6. CASE PutNum(p)  BY <2>6 DEF PutNum
  <2>7. CASE NetnsAdd(p)  BY <2>7 DEF NetnsAdd
  <2>8. CASE LinkAdd(p)  BY <2>8 DEF LinkAdd
  <2>9. CASE Configure(p)  BY <2>9 DEF Configure
  <2>10. CASE CreateStatefile(p)  BY <2>10 DEF CreateStatefile
  <2>11. CASE AppendStatefile(p)  BY <2>11 DEF AppendStatefile
  <2>12. CASE RunPing(p)  BY <2>12 DEF RunPing
  <2>13. CASE SetCurrent(p)  BY <2>13 DEF SetCurrent, Exit
  <2>14. CASE LinkDel(p)  BY <2>14 DEF LinkDel
  <2>15. CASE NetnsDel(p)  BY <2>15 DEF NetnsDel
  <2>16. CASE GoesOn(p)  BY <2>16 DEF GoesOn
  <2>17. CASE RmStatefile(p)  BY <2>17 DEF RmStatefile
  <2>18. CASE RmCurrent(p)  BY <2>18 DEF RmCurrent, Exit
  <2>19. CASE Fails(p)  BY <2>19 DEF Fails, Exit
  <2>20. CASE CleanupSetup(p)  BY <2>20 DEF CleanupSetup
  <2>21. CASE UndoStatefile(p)  BY <2>21 DEF UndoStatefile
  <2>22. CASE Glob(p)
    <3>1. CASE statedir /\ statefile = {}  BY <2>22, <3>1 DEF Glob
    <3>2. CASE ~(statedir /\ statefile = {})  BY <2>22, <3>2
    <3> QED  BY <3>1, <3>2
  <2>23. CASE Remove(p)  BY <2>23 DEF Remove, ToRemove
  <2> QED  BY <2>1, <2>2, <2>3, <2>4, <2>5, <2>6, <2>7, <2>8, <2>9, <2>10, <2>11, <2>12,
             <2>13, <2>14, <2>15, <2>16, <2>17, <2>18, <2>19, <2>20, <2>21, <2>22,
             <2>23 DEF Step
<1> QED  BY <1>a, <1>b, <1>c

(* A command that runs beside no other one keeps the state directory.      *)
LEMMA AloneStep ==
  ASSUME Types, Alone, NEW p \in Shells, Step(p)
  PROVE  Alone'
<1>1. ASSUME NEW c \in Commands, NEW n \in Names \cup {None}, Start(p, c, n)  PROVE Alone'
  <2>1. statedir' /\ Running' = Running \cup {p}
    BY <1>1 DEF Running, Start, Goto, Types
  <2> QED  BY <1>1, <2>1 DEF Start, Alone
<1> QED  BY <1>1, RunningChange DEF Alone

LEMMA OthersControl ==
  ASSUME Types, NEW p \in Shells, Step(p), NEW q \in Shells \ {p}, Control(q)
  PROVE  Control(q)'
BY OthersUntouched DEF Control

(* The operations on state files.                                          *)
LEMMA FilesChange ==
  ASSUME NEW p \in Shells, Step(p)
  PROVE  \/ UNCHANGED <<statefile, prefix, rough>>
         \/ AppendStatefile(p) \/ CreateStatefile(p) \/ RmStatefile(p) \/ UndoStatefile(p)
<1> USE DEF files, network, shellVars, history
<1>1. ASSUME NEW c \in Commands, NEW n \in Names \cup {None}, Start(p, c, n)
      PROVE  UNCHANGED <<statefile, prefix, rough>>
  BY <1>1 DEF Start
<1>2. ASSUME NEW n \in Names \cup {None}, GetNsname(p, n)
      PROVE  UNCHANGED <<statefile, prefix, rough>>
  BY <1>2 DEF GetNsname
<1>3. CASE EnsureNsname(p)  BY <1>3 DEF EnsureNsname
<1>4. CASE Select(p)  BY <1>4 DEF Select
<1>5. CASE Exists(p)  BY <1>5 DEF Exists
<1>6. CASE GetNum(p)  BY <1>6 DEF GetNum
<1>7. CASE PutNum(p)  BY <1>7 DEF PutNum
<1>8. CASE NetnsAdd(p)  BY <1>8 DEF NetnsAdd
<1>9. CASE LinkAdd(p)  BY <1>9 DEF LinkAdd
<1>10. CASE Configure(p)  BY <1>10 DEF Configure
<1>11. CASE RunPing(p)  BY <1>11 DEF RunPing
<1>12. CASE SetCurrent(p)  BY <1>12 DEF SetCurrent
<1>13. CASE LinkDel(p)  BY <1>13 DEF LinkDel
<1>14. CASE NetnsDel(p)  BY <1>14 DEF NetnsDel
<1>15. CASE GoesOn(p)  BY <1>15 DEF GoesOn
<1>16. CASE RmCurrent(p)  BY <1>16 DEF RmCurrent
<1>17. CASE Fails(p)  BY <1>17 DEF Fails
<1>18. CASE CleanupSetup(p)  BY <1>18 DEF CleanupSetup
<1>19. CASE Glob(p)  BY <1>19 DEF Glob
<1>20. CASE Remove(p)  BY <1>20 DEF Remove
<1>21. CASE Rmdir(p)  BY <1>21 DEF Rmdir
<1>22. CASE Kill(p)  BY <1>22 DEF Kill
<1> QED  BY <1>1, <1>2, <1>3, <1>4, <1>5, <1>6, <1>7, <1>8, <1>9, <1>10, <1>11, <1>12,
           <1>13, <1>14, <1>15, <1>16, <1>17, <1>18, <1>19, <1>20, <1>21, <1>22 DEF Step

(* Only a command that runs beside no other one adds a name to the good    *)
(* ones, and only by writing its prefix.                                   *)
LEMMA GoodChange ==
  ASSUME Types, NEW p \in Shells, Step(p), NEW a \in Names, Good(a)'
  PROVE  \/ Good(a) /\ prefix'[a] = prefix[a]
         \/ /\ AppendStatefile(p) /\ p \notin overlapped
            /\ a = ns[p] /\ prefix'[a] = ip6prefix[p]
            /\ cmd[p] = "reset" => a \notin rough
<1>1. CASE UNCHANGED <<statefile, prefix, rough>>  BY <1>1 DEF Good
<1>2. CASE AppendStatefile(p)  BY <1>2 DEF Good, AppendStatefile, Types
<1>3. CASE CreateStatefile(p)  BY <1>3 DEF Good, CreateStatefile, Types, history
<1>4. CASE RmStatefile(p)  BY <1>4 DEF Good, RmStatefile, Types, history
<1>5. CASE UndoStatefile(p)  BY <1>5 DEF Good, UndoStatefile, Types, history
<1> QED  BY <1>1, <1>2, <1>3, <1>4, <1>5, FilesChange

(* The number given last is written by setup and removed by the trap.      *)
LEMMA NumberChange ==
  ASSUME NEW p \in Shells, Step(p)
  PROVE  UNCHANGED highest \/ PutNum(p) \/ Remove(p)
<1> USE DEF files, network, shellVars, history
<1>1. ASSUME NEW c \in Commands, NEW n \in Names \cup {None}, Start(p, c, n)
      PROVE  UNCHANGED highest
  BY <1>1 DEF Start
<1>2. ASSUME NEW n \in Names \cup {None}, GetNsname(p, n)  PROVE UNCHANGED highest
  BY <1>2 DEF GetNsname
<1>3. CASE EnsureNsname(p)  BY <1>3 DEF EnsureNsname
<1>4. CASE Select(p)  BY <1>4 DEF Select
<1>5. CASE Exists(p)  BY <1>5 DEF Exists
<1>6. CASE GetNum(p)  BY <1>6 DEF GetNum
<1>7. CASE NetnsAdd(p)  BY <1>7 DEF NetnsAdd
<1>8. CASE LinkAdd(p)  BY <1>8 DEF LinkAdd
<1>9. CASE Configure(p)  BY <1>9 DEF Configure
<1>10. CASE CreateStatefile(p)  BY <1>10 DEF CreateStatefile
<1>11. CASE AppendStatefile(p)  BY <1>11 DEF AppendStatefile
<1>12. CASE RunPing(p)  BY <1>12 DEF RunPing
<1>13. CASE SetCurrent(p)  BY <1>13 DEF SetCurrent
<1>14. CASE LinkDel(p)  BY <1>14 DEF LinkDel
<1>15. CASE NetnsDel(p)  BY <1>15 DEF NetnsDel
<1>16. CASE GoesOn(p)  BY <1>16 DEF GoesOn
<1>17. CASE RmStatefile(p)  BY <1>17 DEF RmStatefile
<1>18. CASE RmCurrent(p)  BY <1>18 DEF RmCurrent
<1>19. CASE Fails(p)  BY <1>19 DEF Fails
<1>20. CASE CleanupSetup(p)  BY <1>20 DEF CleanupSetup
<1>21. CASE UndoStatefile(p)  BY <1>21 DEF UndoStatefile
<1>22. CASE Glob(p)  BY <1>22 DEF Glob
<1>23. CASE Rmdir(p)  BY <1>23 DEF Rmdir
<1>24. CASE Kill(p)  BY <1>24 DEF Kill
<1> QED  BY <1>1, <1>2, <1>3, <1>4, <1>5, <1>6, <1>7, <1>8, <1>9, <1>10, <1>11, <1>12,
           <1>13, <1>14, <1>15, <1>16, <1>17, <1>18, <1>19, <1>20, <1>21, <1>22, <1>23,
           <1>24 DEF Step

PrefixInv ==
  /\ Types /\ Alone /\ GoodDistinct
  /\ \A p \in Shells : /\ Control(p) /\ NumberIsNew(p) /\ NoneIsGood(p)
                       /\ PrefixIsFree(p) /\ NumberFollows(p)

(* Whoever is beside another command does not add to the good names.       *)
LEMMA BesideAdds ==
  ASSUME PrefixInv, NEW p \in Shells, Step(p), NEW q \in Running \ {p}, NEW a \in Names,
         Good(a)'
  PROVE  Good(a) /\ prefix'[a] = prefix[a]
<1>1. ASSUME AppendStatefile(p)  PROVE p \in overlapped
  BY <1>1 DEF PrefixInv, Alone, AppendStatefile, Running
<1> QED  BY <1>1, GoodChange DEF PrefixInv

(* How a shell comes to write the number, to remove the files and to       *)
(* remove the directory.                                                   *)
LEMMA Arrives ==
  ASSUME Types, NEW p \in Shells, Step(p)
  PROVE  /\ pc'[p] = "putnum" => GetNum(p)
         /\ pc'[p] = "remove" => Glob(p)
         /\ pc'[p] = "rmdir" => Remove(p)
<1> USE DEF Types, Goto
<1>1. ASSUME NEW c \in Commands, NEW n \in Names \cup {None}, Start(p, c, n)
      PROVE  pc'[p] \notin {"putnum", "remove", "rmdir"}
  BY <1>1 DEF Start
<1>2. ASSUME NEW n \in Names \cup {None}, GetNsname(p, n)
      PROVE  pc'[p] \notin {"putnum", "remove", "rmdir"}
  BY <1>2 DEF GetNsname
<1>3. CASE EnsureNsname(p)  BY <1>3 DEF EnsureNsname, Exit
<1>4. CASE Select(p)  BY <1>4 DEF Select, Exit
<1>5. CASE Exists(p)  BY <1>5 DEF Exists, Exit
<1>6. CASE GetNum(p)  BY <1>6 DEF GetNum
<1>7. CASE PutNum(p)  BY <1>7 DEF PutNum
<1>8. CASE NetnsAdd(p)  BY <1>8 DEF NetnsAdd
<1>9. CASE LinkAdd(p)  BY <1>9 DEF LinkAdd
<1>10. CASE Configure(p)  BY <1>10 DEF Configure
<1>11. CASE CreateStatefile(p)  BY <1>11 DEF CreateStatefile
<1>12. CASE AppendStatefile(p)  BY <1>12 DEF AppendStatefile
<1>13. CASE RunPing(p)  BY <1>13 DEF RunPing
<1>14. CASE SetCurrent(p)  BY <1>14 DEF SetCurrent, Exit
<1>15. CASE LinkDel(p)  BY <1>15 DEF LinkDel
<1>16. CASE NetnsDel(p)  BY <1>16 DEF NetnsDel
<1>17. CASE GoesOn(p)  BY <1>17 DEF GoesOn
<1>18. CASE RmStatefile(p)  BY <1>18 DEF RmStatefile
<1>19. CASE RmCurrent(p)  BY <1>19 DEF RmCurrent, Exit
<1>20. CASE Fails(p)  BY <1>20 DEF Fails, Exit
<1>21. CASE CleanupSetup(p)  BY <1>21 DEF CleanupSetup
<1>22. CASE UndoStatefile(p)  BY <1>22 DEF UndoStatefile
<1>23. CASE Glob(p)  BY <1>23 DEF Glob, Return, Gone
<1>24. CASE Remove(p)  BY <1>24 DEF Remove
<1>25. CASE Rmdir(p)  BY <1>25 DEF Rmdir, Return, Gone
<1>26. CASE Kill(p)  BY <1>26 DEF Kill, Gone
<1> QED  BY <1>1, <1>2, <1>3, <1>4, <1>5, <1>6, <1>7, <1>8, <1>9, <1>10, <1>11, <1>12,
           <1>13, <1>14, <1>15, <1>16, <1>17, <1>18, <1>19, <1>20, <1>21, <1>22, <1>23,
           <1>24, <1>25, <1>26 DEF Step

(* What a shell read stays true while others run, for they add no good     *)
(* name.                                                                   *)
LEMMA NumberIsNewStep ==
  ASSUME PrefixInv, NEW p \in Shells, Step(p), NEW q \in Shells
  PROVE  NumberIsNew(q)' /\ NoneIsGood(q)'
<1>0. Types /\ NumberIsNew(q) /\ NoneIsGood(q) /\ NumberIsNew(p) /\ NoneIsGood(p) /\ Types'
  BY StepTypes DEF PrefixInv
<1>1. CASE q # p
  <2>1. pc'[q] = pc[q] /\ num'[q] = num[q]  BY <1>0, <1>1, OthersUntouched
  <2> QED  BY <1>0, <1>1, <2>1, BesideAdds DEF NumberIsNew, NoneIsGood, Running
<1>2. CASE GetNum(p) /\ q = p
  <2>1. num'[p] = highest + 1 /\ pc'[p] = "putnum"  BY <1>0, <1>2 DEF GetNum, Goto, Types
  <2>2. ASSUME NEW a \in Names, Good(a)'  PROVE prefix'[a] < num'[p]
    <3>1. Good(a) /\ prefix'[a] = prefix[a]
      BY <1>2, <2>2 DEF GetNum, files, history, Good
    <3> QED  BY <1>0, <2>1, <3>1 DEF PrefixInv, GoodDistinct, Types
  <2> QED  BY <1>2, <2>1, <2>2 DEF NumberIsNew, NoneIsGood
<1>3. CASE Glob(p) /\ q = p  BY <1>0, <1>3 DEF Glob, Return, Gone, Goto, Types, NumberIsNew,
                                       NoneIsGood, Good, files
<1>4. ASSUME q = p, ~GetNum(p), ~Glob(p)  PROVE pc'[q] # "putnum" /\ pc'[q] # "remove"
  BY <1>0, <1>4, Arrives
<1> QED  BY <1>1, <1>2, <1>3, <1>4 DEF NumberIsNew, NoneIsGood

(* So good environments never share a prefix.                              *)
LEMMA GoodDistinctStep ==
  ASSUME PrefixInv, NEW p \in Shells, Step(p)
  PROVE  GoodDistinct'
<1>0. Types /\ Control(p) /\ Types' /\ GoodDistinct  BY StepTypes DEF PrefixInv
<1>1. ASSUME NEW a \in Names, AppendStatefile(p), a = ns[p], p \notin overlapped,
             cmd[p] = "reset" => a \notin rough
      PROVE  /\ ip6prefix[p] <= highest
             /\ \A b \in Names : Good(b) /\ b # a => prefix[b] # ip6prefix[p]
  <2>1. PrefixIsFree(p)  BY DEF PrefixInv
  <2>2. p \in Running /\ pc[p] = "append"  BY <1>1 DEF AppendStatefile, Running
  <2>3. ip6prefix[p] # 0 /\ cmd[p] \in {"setup", "reset"}  BY <1>0, <2>2 DEF Control,
      SettingUp
  <2> QED  BY <1>1, <2>1, <2>2, <2>3 DEF PrefixIsFree, Leaving
<1>2. \A a, b \in Names : Good(a)' /\ Good(b)' /\ a # b => prefix'[a] # prefix'[b]
  BY <1>0, <1>1, GoodChange DEF GoodDistinct
<1>3. ASSUME NEW a \in Names, Good(a)'  PROVE prefix'[a] <= highest'
  <2>1. CASE PutNum(p)
    <3>1. Good(a) /\ prefix'[a] = prefix[a]  BY <1>3, <2>1 DEF PutNum, Good
    <3>2. highest' = num[p] \/ highest' = highest  BY <2>1 DEF PutNum, NextNum
    <3>3. pc[p] = "putnum" /\ NumberIsNew(p)  BY <2>1 DEF PutNum, PrefixInv
    <3> QED  BY <1>0, <3>1, <3>2, <3>3 DEF NumberIsNew, GoodDistinct, Types
  <2>2. CASE Remove(p)
    BY <1>3, <2>2 DEF Remove, Good, history, PrefixInv, NoneIsGood
  <2>3. CASE UNCHANGED highest
    BY <1>0, <1>1, <1>3, <2>3, GoodChange DEF GoodDistinct
  <2> QED  BY <2>1, <2>2, <2>3, NumberChange
<1> QED  BY <1>2, <1>3 DEF GoodDistinct

(* Beside a command that runs alone nobody makes a step.                   *)
LEMMA StepsAlone ==
  ASSUME PrefixInv, NEW p \in Shells, Step(p), NEW q \in Running' \ overlapped'
  PROVE  q = p
<1>0. Types /\ Alone'  BY AloneStep DEF PrefixInv
<1>1. ASSUME NEW c \in Commands, NEW n \in Names \cup {None}, Start(p, c, n)
      PROVE  p \in Running'
  BY <1>0, <1>1 DEF Running, Start, Goto, Types
<1> QED  BY <1>0, <1>1, RunningChange DEF Alone, PrefixInv

(* A command that runs alone knows that its prefix is free.                *)
LEMMA PrefixIsFreeStep ==
  ASSUME PrefixInv, NEW p \in Shells, Step(p), NEW q \in Shells
  PROVE  PrefixIsFree(q)'
<1> SUFFICES ASSUME q \in Running' \ overlapped', pc'[q] \notin Leaving,
                    cmd'[q] \in {"setup", "reset"}, ip6prefix'[q] # 0
             PROVE  \/ cmd'[q] = "reset" /\ ns'[q] \in rough'
                    \/ /\ ip6prefix'[q] <= highest'
                       /\ \A a \in Names :
                            Good(a)' /\ a # ns'[q] => prefix'[a] # ip6prefix'[q]
  BY DEF PrefixIsFree
<1>0. Types /\ Types' /\ Control(p) /\ PrefixIsFree(p)  BY StepTypes DEF PrefixInv
<1>2. Control(q)'  BY OwnControl, OthersControl DEF PrefixInv
<1>3. q = p  BY StepsAlone
<1>4. /\ pc'[q] \notin {"idle", "nsname", "ensure", "select"}
      /\ cmd'[q] = "setup" => pc'[q] \notin Numbering
  BY <1>2 DEF Control
<1>p. p \in Running \ overlapped
  <2>1. ~\E c \in Commands, n \in Names \cup {None} : Start(p, c, n)
    BY <1>0, <1>3, <1>4 DEF Start, Goto, Types
  <2> QED  BY <1>0, <1>3, <2>1, RunningChange DEF Running
<1>5. CASE Select(p)
  <2>1. /\ ns[p] \in statefile /\ ip6prefix'[p] = prefix[ns[p]] /\ prefix[ns[p]] # 0
        /\ ns' = ns /\ cmd' = cmd
        /\ UNCHANGED <<highest, statefile, prefix, rough>>
    BY <1>0, <1>3, <1>5 DEF Select, Exit, Goto, Types, Leaving, history
  <2>2. cmd[p] = "reset"  BY <1>0, <1>3, <1>5, <2>1 DEF Control, Select
  <2>3. CASE ns[p] \in rough  BY <1>3, <2>1, <2>2, <2>3
  <2>4. CASE ns[p] \notin rough
    <3>1. Good(ns[p]) /\ ns[p] \in Names  BY <1>0, <2>1, <2>4 DEF Good, Types
    <3> QED  BY <1>3, <2>1, <3>1 DEF PrefixInv, GoodDistinct, Good
  <2> QED  BY <2>3, <2>4
<1>6. CASE PutNum(p)
  <2>1. /\ pc[p] = "putnum" /\ p \in Running \ overlapped
        /\ ns' = ns /\ cmd' = cmd /\ UNCHANGED <<statefile, prefix, rough>>
        /\ highest' = IF statedir THEN num[p] ELSE highest
        /\ ip6prefix'[p] = IF ip6prefix[p] = 0 THEN num[p] ELSE ip6prefix[p]
    BY <1>0, <1>3, <1>6 DEF PutNum, NextNum, Goto, Types, Running
  <2>2. highest' = num[p] /\ num[p] = highest + 1 /\ NumberIsNew(p)
    BY <2>1 DEF PrefixInv, Alone, NumberFollows
  <2>3. \A a \in Names : Good(a)' => Good(a) /\ prefix'[a] = prefix[a] /\ prefix[a] < num[p]
    BY <2>1, <2>2 DEF Good, NumberIsNew
  <2>4. CASE ip6prefix[p] = 0
    BY <1>0, <1>3, <2>1, <2>2, <2>3, <2>4 DEF Types
  <2>5. CASE ip6prefix[p] # 0
    BY <1>0, <1>3, <2>1, <2>2, <2>3, <2>5 DEF PrefixIsFree, Leaving, Types
  <2> QED  BY <2>4, <2>5
<1>7. ASSUME ~Select(p), ~PutNum(p)
      PROVE  /\ pc[p] \notin Leaving
             /\ cmd' = cmd /\ ns' = ns /\ ip6prefix' = ip6prefix /\ highest' = highest
             /\ rough' # rough => cmd[p] # "reset" /\ AppendStatefile(p)
  <2>0. /\ pc'[p] \notin {"idle", "nsname", "ensure", "select"} \cup Leaving
        /\ cmd'[p] = "setup" => pc'[p] \notin Numbering
    BY <1>3, <1>4
  <2> DEFINE Kept ==
         /\ pc[p] \notin Leaving
         /\ cmd' = cmd /\ ns' = ns /\ ip6prefix' = ip6prefix /\ highest' = highest
         /\ rough' # rough => cmd[p] # "reset" /\ AppendStatefile(p)
  <2> USE <1>0, <1>7, <1>p, <2>0 DEF Types, Leaving, Numbering, Goto, files, shellVars,
      history
  <2>1. ASSUME NEW c \in Commands, NEW n \in Names \cup {None}, Start(p, c, n)  PROVE Kept
    BY <2>1 DEF Start
  <2>2. ASSUME NEW n \in Names \cup {None}, GetNsname(p, n)  PROVE Kept
    BY <2>2 DEF GetNsname, NsNames
  <2>3. CASE EnsureNsname(p)  BY <2>3 DEF EnsureNsname, Exit
  <2>4. CASE Exists(p)  BY <2>4 DEF Exists, Exit
  <2>5. CASE GetNum(p)  BY <2>5 DEF GetNum
  <2>6. CASE NetnsAdd(p)  BY <2>6 DEF NetnsAdd
  <2>7. CASE LinkAdd(p)  BY <2>7 DEF LinkAdd
  <2>8. CASE Configure(p)  BY <2>8 DEF Configure
  <2>9. CASE CreateStatefile(p)  BY <2>9 DEF CreateStatefile
  <2>10. CASE AppendStatefile(p)  BY <2>10 DEF AppendStatefile
  <2>11. CASE RunPing(p)  BY <2>11 DEF RunPing
  <2>12. CASE SetCurrent(p)  BY <2>12 DEF SetCurrent, Exit
  <2>13. CASE LinkDel(p)  BY <2>13 DEF LinkDel
  <2>14. CASE NetnsDel(p)  BY <2>14 DEF NetnsDel
  <2>15. CASE GoesOn(p)  BY <2>15 DEF GoesOn
  <2>16. CASE RmStatefile(p)  BY <2>16 DEF RmStatefile
  <2>17. CASE RmCurrent(p)  BY <2>17 DEF RmCurrent, Exit
  <2>18. CASE Fails(p)  BY <2>18 DEF Fails, Exit
  <2>19. CASE CleanupSetup(p)  BY <2>19 DEF CleanupSetup
  <2>20. CASE UndoStatefile(p)  BY <2>20 DEF UndoStatefile
  <2>21. CASE Glob(p)  BY <2>21 DEF Glob, Return, Gone
  <2>22. CASE Remove(p)  BY <2>22 DEF Remove
  <2>23. CASE Rmdir(p)  BY <2>23 DEF Rmdir, Return, Gone
  <2>24. CASE Kill(p)  BY <2>24 DEF Kill, Gone
  <2> QED  BY <2>1, <2>2, <2>3, <2>4, <2>5, <2>6, <2>7, <2>8, <2>9, <2>10, <2>11, <2>12,
             <2>13, <2>14, <2>15, <2>16, <2>17, <2>18, <2>19, <2>20, <2>21, <2>22, <2>23,
             <2>24 DEF Step
<1>8. ASSUME ~Select(p), ~PutNum(p), NEW a \in Names, Good(a)', a # ns'[q]
      PROVE  Good(a) /\ prefix'[a] = prefix[a]
  BY <1>0, <1>3, <1>7, <1>8, GoodChange
<1>9. CASE ~Select(p) /\ ~PutNum(p)
  BY <1>0, <1>3, <1>p, <1>7, <1>8, <1>9 DEF PrefixIsFree
<1> QED  BY <1>5, <1>6, <1>9

(* And that nobody has written a number since it read one.                 *)
LEMMA NumberFollowsStep ==
  ASSUME PrefixInv, NEW p \in Shells, Step(p), NEW q \in Shells
  PROVE  NumberFollows(q)'
<1> SUFFICES ASSUME q \in Running' \ overlapped', pc'[q] = "putnum"
             PROVE  num'[q] = highest' + 1
  BY DEF NumberFollows
<1>0. Types /\ Types'  BY StepTypes DEF PrefixInv
<1>2. q = p  BY StepsAlone
<1>3. GetNum(p)  BY <1>0, <1>2, Arrives
<1> QED  BY <1>0, <1>2, <1>3 DEF GetNum, files, Types

(* The state directory is made by check_prereq and removed by the trap.    *)
LEMMA DirectoryChange ==
  ASSUME NEW p \in Shells, Step(p)
  PROVE  \/ statedir' \/ UNCHANGED statedir
         \/ Rmdir(p)
<1>0. ASSUME NEW c \in Commands, NEW n \in Names \cup {None}, Start(p, c, n)
      PROVE  statedir'
  BY <1>0 DEF Start
<1> USE DEF files, network, shellVars, history
<1>1. ASSUME NEW n \in Names \cup {None}, GetNsname(p, n)  PROVE UNCHANGED statedir
  BY <1>1 DEF GetNsname
<1>2. CASE EnsureNsname(p)  BY <1>2 DEF EnsureNsname
<1>3. CASE Select(p)  BY <1>3 DEF Select
<1>4. CASE Exists(p)  BY <1>4 DEF Exists
<1>5. CASE GetNum(p)  BY <1>5 DEF GetNum
<1>6. CASE PutNum(p)  BY <1>6 DEF PutNum
<1>7. CASE NetnsAdd(p)  BY <1>7 DEF NetnsAdd
<1>8. CASE LinkAdd(p)  BY <1>8 DEF LinkAdd
<1>9. CASE Configure(p)  BY <1>9 DEF Configure
<1>10. CASE CreateStatefile(p)  BY <1>10 DEF CreateStatefile
<1>11. CASE AppendStatefile(p)  BY <1>11 DEF AppendStatefile
<1>12. CASE RunPing(p)  BY <1>12 DEF RunPing
<1>13. CASE SetCurrent(p)  BY <1>13 DEF SetCurrent
<1>14. CASE LinkDel(p)  BY <1>14 DEF LinkDel
<1>15. CASE NetnsDel(p)  BY <1>15 DEF NetnsDel
<1>16. CASE GoesOn(p)  BY <1>16 DEF GoesOn
<1>17. CASE RmStatefile(p)  BY <1>17 DEF RmStatefile
<1>18. CASE RmCurrent(p)  BY <1>18 DEF RmCurrent
<1>19. CASE Fails(p)  BY <1>19 DEF Fails
<1>20. CASE CleanupSetup(p)  BY <1>20 DEF CleanupSetup
<1>21. CASE UndoStatefile(p)  BY <1>21 DEF UndoStatefile
<1>22. CASE Glob(p)  BY <1>22 DEF Glob
<1>23. CASE Remove(p)  BY <1>23 DEF Remove
<1>24. CASE Kill(p)  BY <1>24 DEF Kill
<1> QED  BY <1>0, <1>1, <1>2, <1>3, <1>4, <1>5, <1>6, <1>7, <1>8, <1>9, <1>10, <1>11, <1>12,
           <1>13, <1>14, <1>15, <1>16, <1>17, <1>18, <1>19, <1>20, <1>21, <1>22, <1>23,
           <1>24 DEF Step

LEMMA PrefixInitially ==
  ASSUME Init
  PROVE  PrefixInv
<1>1. Cardinality(statefile) \in Nat /\ (statefile # {} => Cardinality(statefile) = 1)
  <2>1. statefile = {} \/ statefile = {current}  BY DEF Init
  <2>2. Cardinality({}) = 0  BY FS_EmptySet
  <2>3. Cardinality({current}) = 1  BY FS_Singleton
  <2> QED  BY <2>1, <2>2, <2>3
<1>2. Types  BY <1>1, TestEnvAssumption DEF Init, Types, Labels, Commands
<1>3. Running = {}  BY DEF Init, Running
<1>4. Alone /\ \A p \in Shells : PrefixIsFree(p) /\ NumberFollows(p)
  BY <1>3 DEF Alone, PrefixIsFree, NumberFollows
<1>5. \A p \in Shells : Control(p) /\ NumberIsNew(p) /\ NoneIsGood(p)
  BY DEF Init, Control, NumberIsNew, NoneIsGood, SettingUp, Numbering, TearingDown, Leaving
<1>6. ASSUME NEW a \in Names, Good(a)
      PROVE  prefix[a] = 1 /\ highest = 1 /\ a = current
  BY <1>1, <1>6 DEF Init, Good
<1>7. GoodDistinct  BY <1>6 DEF GoodDistinct
<1> QED  BY <1>2, <1>4, <1>5, <1>7 DEF PrefixInv

LEMMA PrefixStep ==
  ASSUME PrefixInv, [Next]_vars
  PROVE  PrefixInv'
<1>1. CASE UNCHANGED vars
  <2> USE <1>1 DEF vars, files, network, shellVars, history
  <2>1. Types' /\ Running' = Running  BY DEF PrefixInv, Types, Running
  <2>2. Alone'  BY <2>1 DEF PrefixInv, Alone
  <2>3. \A a \in Names : Good(a)' = Good(a)  BY DEF Good
  <2>4. GoodDistinct'  BY <2>3 DEF PrefixInv, GoodDistinct
  <2>5. ASSUME NEW p \in Shells
        PROVE  (NumberIsNew(p) /\ NoneIsGood(p) /\ PrefixIsFree(p) /\ NumberFollows(p))'
    BY <2>1, <2>3 DEF PrefixInv, NumberIsNew, NoneIsGood, PrefixIsFree, NumberFollows
  <2>6. ASSUME NEW p \in Shells  PROVE Control(p)'
    BY DEF PrefixInv, Control
  <2> QED  BY <2>1, <2>2, <2>4, <2>5, <2>6 DEF PrefixInv
<1>2. CASE Next
  <2>1. PICK p \in Shells : Step(p)  BY <1>2 DEF Next
  <2>2. Types'  BY <2>1, StepTypes DEF PrefixInv
  <2>3. Alone'  BY <2>1, AloneStep DEF PrefixInv
  <2>4. \A q \in Shells : Control(q)'  BY <2>1, OwnControl, OthersControl DEF PrefixInv
  <2>5. GoodDistinct'  BY <2>1, GoodDistinctStep
  <2>6. ASSUME NEW q \in Shells
        PROVE  (NumberIsNew(q) /\ NoneIsGood(q) /\ PrefixIsFree(q) /\ NumberFollows(q))'
    BY <2>1, NumberIsNewStep, PrefixIsFreeStep, NumberFollowsStep
  <2> QED  BY <2>2, <2>3, <2>4, <2>5, <2>6 DEF PrefixInv
<1> QED  BY <1>1, <1>2

(* get_num (testenv.sh:102-111) gives every environment a prefix of its    *)
(* own for any number of shells, names, commands and kills: only           *)
(* environments set up or reset beside another command may share one.      *)
THEOREM PrefixesStayDistinct == Spec => []PrefixesDistinct
<1>1. Init => PrefixInv  BY PrefixInitially
<1>2. PrefixInv /\ [Next]_vars => PrefixInv'  BY PrefixStep
<1>3. PrefixInv => PrefixesDistinct
  BY DEF PrefixInv, GoodDistinct, PrefixesDistinct, Good, Types
<1> QED  BY <1>1, <1>2, <1>3, PTL DEF Spec

-----------------------------------------------------------------------------
(* A directory without environments has somebody who will still look at    *)
(* it, or is about to remove it and finds nothing in it.                   *)
DirectoryInv ==
  /\ statefile # {} => statedir
  /\ ~littered /\ statedir /\ statefile = {} =>
       \/ \E p \in Running : pc[p] # "rmdir"
       \/ highest = 0 /\ current = None /\ \E p \in Running : pc[p] = "rmdir"

(* Every step keeps DirectoryInv.                                          *)
LEMMA DirectoryStep ==
  ASSUME Types, DirectoryInv, NEW p \in Shells, Step(p)
  PROVE  DirectoryInv'
<1>1. statefile' # {} => statedir'
  <2>1. CASE AppendStatefile(p)  BY <2>1 DEF AppendStatefile
  <2>2. CASE CreateStatefile(p)  BY <2>2 DEF CreateStatefile
  <2>3. CASE RmStatefile(p)  BY <2>3 DEF RmStatefile, DirectoryInv
  <2>4. CASE UndoStatefile(p)  BY <2>4 DEF UndoStatefile, DirectoryInv
  <2>5. CASE Rmdir(p)  BY <2>5 DEF Rmdir, DirectoryInv
  <2>6. CASE ~Rmdir(p) /\ UNCHANGED <<statefile, prefix, rough>>
    BY <2>6, DirectoryChange DEF DirectoryInv
  <2> QED  BY <2>1, <2>2, <2>3, <2>4, <2>5, <2>6, FilesChange
<1>2. ASSUME ~littered', statedir', statefile' = {}
      PROVE  \/ \E q \in Running' : pc'[q] # "rmdir"
             \/ highest' = 0 /\ current' = None /\ \E q \in Running' : pc'[q] = "rmdir"
  <2>1. ASSUME NEW c \in Commands, NEW n \in Names \cup {None}, Start(p, c, n)
        PROVE  p \in Running' /\ pc'[p] # "rmdir"
    BY <2>1 DEF Start, Goto, Running, Types
  <2>2. CASE p \in Running' /\ pc'[p] = "rmdir"
    BY <2>2, Arrives DEF Remove, ToRemove
  <2>3. CASE Rmdir(p)
    <3>1. /\ pc[p] = "rmdir" /\ ~(highest = 0 /\ current = None)
          /\ statedir /\ ~littered /\ statefile = {}
      BY <1>2, <2>3 DEF Rmdir
    <3>2. PICK q \in Running : pc[q] # "rmdir"  BY <3>1 DEF DirectoryInv
    <3>3. q \in Shells \ {p} /\ pc[q] # "idle"  BY <3>1, <3>2 DEF Running
    <3>4. pc'[q] = pc[q]  BY <3>3, OthersUntouched
    <3> QED  BY <3>2, <3>3, <3>4 DEF Running
  <2>4. ~Kill(p)  BY <1>2 DEF Kill
  <2>5. ~(Glob(p) /\ ~(statedir /\ statefile = {}))  BY <1>2 DEF Glob, files
  <2> QED  BY <2>1, <2>2, <2>3, <2>4, <2>5, RunningChange DEF Running
<1> QED  BY <1>1, <1>2 DEF DirectoryInv

(* However the EXIT traps (testenv.sh:146-158) of any number of shells     *)
(* interleave, the state directory is there after the last command exactly *)
(* when an environment is.                                                 *)
THEOREM DirectoryGoesWithTheLast == Spec => []NoLitter
<1>1. Init => PrefixInv /\ DirectoryInv
  BY PrefixInitially DEF Init, DirectoryInv
<1>2. PrefixInv /\ DirectoryInv /\ [Next]_vars => (PrefixInv /\ DirectoryInv)'
  <2> SUFFICES ASSUME PrefixInv, DirectoryInv, [Next]_vars  PROVE DirectoryInv'
    BY PrefixStep
  <2>1. CASE UNCHANGED vars
    BY <2>1 DEF vars, files, history, DirectoryInv, Running
  <2>2. CASE Next  BY <2>2, DirectoryStep DEF Next, PrefixInv
  <2> QED  BY <2>1, <2>2
<1>3. PrefixInv /\ DirectoryInv => NoLitter
  BY DEF PrefixInv, Types, DirectoryInv, NoLitter
<1> QED  BY <1>1, <1>2, <1>3, PTL DEF Spec

-----------------------------------------------------------------------------

(* A command that has chosen its environment and may change it, or has     *)
(* changed it.                                                             *)
Engaged(p) ==
  /\ cmd[p] # "other" /\ ns[p] \in Names
  /\ phase[p] # "none" \/ pc[p] \notin {"idle", "nsname"} \cup Leaving

(* Two shells engaged on one environment know it, and it is marked as      *)
(* dirty.                                                                  *)
Clashes ==
  /\ \A p, q \in Shells :
       Engaged(p) /\ Engaged(q) /\ ns[p] = ns[q] /\ p # q => p \in clash
  /\ \A p \in clash :
       /\ p \in Running /\ ns[p] \in dirty /\ ns[p] \in Names /\ cmd[p] # "other"
       /\ \A q \in Shells : Engaged(q) /\ ns[q] = ns[p] => q \in clash
Whole(n) == n \in netns \cap link \cap statefile /\ prefix[n] # 0
Empty(n) == n \notin netns \cup link \cup statefile

(* Free of commands that have changed it, an environment is whole or       *)
(* empty.                                                                  *)
Settled(n) ==
  n \notin dirty /\ (\A p \in Shells : ns[p] = n => phase[p] = "none") =>
    Whole(n) \/ Empty(n)

(* What a shell that met no other on its environment has made of it so     *)
(* far.                                                                    *)
Known(p) ==
  p \notin clash =>
    LET n == ns[p] IN
    /\ phase[p] = "setup" =>
         /\ pc[p] = "linkadd" => n \in netns
         /\ pc[p] \in {"configure", "create", "append"} => n \in netns \cap link
         /\ pc[p] \in {"ping", "current"} => Whole(n)
         /\ pc[p] = "exit" => cleanupFunc[p] = "cleanup_setup" \/ Whole(n)
         /\ pc[p] = "undostate" => n \notin netns \cup link
         /\ pc[p] \in {"glob", "remove", "rmdir"} => Whole(n) \/ Empty(n)
    /\ phase[p] = "teardown" =>
         /\ cmd[p] = "teardown" /\ pc[p] = "rmstate" => n \notin netns \cup link
         /\ cmd[p] = "teardown" /\ pc[p] = "rmcurrent" => Empty(n)
         /\ pc[p] \in Leaving /\ status[p] = "ok" => Empty(n)

WholeInv ==
  /\ Types /\ Clashes
  /\ \A p \in Shells : Control(p) /\ Known(p)
  /\ \A n \in Names : Settled(n)

(* A step leaves environment n as it is.                                   *)
Same(n) ==
  /\ (n \in netns') = (n \in netns) /\ (n \in link') = (n \in link)
  /\ (n \in statefile') = (n \in statefile) /\ prefix'[n] = prefix[n]

(* A step gives the shell its name, ends it, or leaves marks and name      *)
(* alone.                                                                  *)
LEMMA ClashCases ==
  ASSUME Types, NEW p \in Shells, Control(p), Step(p)
  PROVE  \/ \E n \in Names \cup {None} : GetNsname(p, n)
         \/ /\ pc[p] # "idle" /\ pc'[p] = "idle" /\ phase'[p] = "none"
            /\ clash' = clash \ {p}
            /\ \/ dirty \subseteq dirty'
               \/ p \notin clash /\ phase[p] # "none" /\ dirty' = dirty \ {ns[p]}
         \/ /\ clash' = clash /\ dirty' = dirty /\ (Engaged(p)' => Engaged(p))
            /\ pc'[p] # "idle" /\ ns'[p] = ns[p] /\ cmd'[p] = cmd[p]
            /\ phase[p] # "none" => phase'[p] # "none"
         \/ /\ clash' = clash /\ dirty' = dirty /\ ~Engaged(p)' /\ pc[p] = "idle"
<1> DEFINE GoesAhead ==
      /\ clash' = clash /\ dirty' = dirty /\ (Engaged(p)' => Engaged(p))
      /\ pc'[p] # "idle" /\ ns'[p] = ns[p] /\ cmd'[p] = cmd[p]
      /\ phase[p] # "none" => phase'[p] # "none"
<1>1. ASSUME NEW c \in Commands, NEW n \in Names \cup {None}, Start(p, c, n)
      PROVE  clash' = clash /\ dirty' = dirty /\ ~Engaged(p)' /\ pc[p] = "idle"
  BY <1>1 DEF Start, Engaged, Control, Types, Goto
<1>2. ASSUME Return(p), pc[p] # "idle"
      PROVE  /\ pc[p] # "idle" /\ pc'[p] = "idle" /\ phase'[p] = "none"
             /\ clash' = clash \ {p}
             /\ \/ dirty \subseteq dirty'
                \/ p \notin clash /\ phase[p] # "none" /\ dirty' = dirty \ {ns[p]}
  BY <1>2 DEF Return, Gone, Goto, Types
<1>3. CASE Kill(p)
  BY <1>3 DEF Kill, Gone, Goto, Types, Running
<1>4. CASE Rmdir(p)  BY <1>2, <1>4 DEF Rmdir
<1>5. CASE Glob(p)
  <2>1. CASE statedir /\ statefile = {}
    BY <1>5, <2>1 DEF Glob, Goto, shellVars, Engaged, Types, Leaving
  <2>2. CASE ~(statedir /\ statefile = {})  BY <1>2, <1>5, <2>2 DEF Glob
  <2> QED  BY <2>1, <2>2
<1>6. \/ GoesAhead \/ Kill(p) \/ Rmdir(p) \/ Glob(p)
      \/ \E n \in Names \cup {None} : GetNsname(p, n)
      \/ \E c \in Commands, n \in Names \cup {None} : Start(p, c, n)
  <2> USE DEF Types, Engaged, Control, Leaving, SettingUp, Numbering, TearingDown, Goto,
      Exit,
              shellVars, history
  <2>1. CASE EnsureNsname(p)  BY <2>1 DEF EnsureNsname
  <2>2. CASE Select(p)  BY <2>2 DEF Select
  <2>3. CASE Exists(p)  BY <2>3 DEF Exists
  <2>4. CASE GetNum(p)  BY <2>4 DEF GetNum
  <2>5. CASE PutNum(p)  BY <2>5 DEF PutNum
  <2>6. CASE NetnsAdd(p)  BY <2>6 DEF NetnsAdd
  <2>7. CASE LinkAdd(p)  BY <2>7 DEF LinkAdd
  <2>8. CASE Configure(p)  BY <2>8 DEF Configure
  <2>9. CASE CreateStatefile(p)  BY <2>9 DEF CreateStatefile
  <2>10. CASE AppendStatefile(p)  BY <2>10 DEF AppendStatefile
  <2>11. CASE RunPing(p)  BY <2>11 DEF RunPing
  <2>12. CASE SetCurrent(p)  BY <2>12 DEF SetCurrent
  <2>13. CASE LinkDel(p)  BY <2>13 DEF LinkDel
  <2>14. CASE NetnsDel(p)  BY <2>14 DEF NetnsDel
  <2>15. CASE GoesOn(p)  BY <2>15 DEF GoesOn
  <2>16. CASE RmStatefile(p)  BY <2>16 DEF RmStatefile
  <2>17. CASE RmCurrent(p)  BY <2>17 DEF RmCurrent
  <2>18. CASE Fails(p)  BY <2>18 DEF Fails
  <2>19. CASE CleanupSetup(p)  BY <2>19 DEF CleanupSetup
  <2>20. CASE UndoStatefile(p)  BY <2>20 DEF UndoStatefile
  <2>21. CASE Remove(p)  BY <2>21 DEF Remove
  <2> QED  BY <2>1, <2>2, <2>3, <2>4, <2>5, <2>6, <2>7, <2>8, <2>9, <2>10, <2>11, <2>12,
             <2>13, <2>14, <2>15, <2>16, <2>17, <2>18, <2>19, <2>20, <2>21 DEF Step
<1> QED  BY <1>1, <1>3, <1>4, <1>5, <1>6

LEMMA EngagedRuns ==
  ASSUME Types, NEW p \in Shells, Control(p), Engaged(p)
  PROVE  p \in Running
BY DEF Engaged, Control, Running

LEMMA OthersEngaged ==
  ASSUME Types, NEW p \in Shells, Step(p), NEW q \in Shells \ {p}
  PROVE  /\ Engaged(q)' = Engaged(q) /\ (q \in Running') = (q \in Running)
         /\ ns'[q] = ns[q] /\ cmd'[q] = cmd[q]
<1>1. pc'[q] = pc[q] /\ ns'[q] = ns[q] /\ cmd'[q] = cmd[q] /\ phase'[q] = phase[q]
  BY OthersUntouched
<1> QED  BY <1>1 DEF Engaged, Running

(* Every step keeps Clashes.                                               *)
LEMMA ClashesStep ==
  ASSUME WholeInv, NEW p \in Shells, Step(p)
  PROVE  Clashes'
<1>0. Types /\ Control(p) /\ Clashes  BY DEF WholeInv
<1>o. \A q \in Shells \ {p} :
        /\ Engaged(q)' = Engaged(q) /\ (q \in Running') = (q \in Running)
        /\ ns'[q] = ns[q] /\ cmd'[q] = cmd[q]
  BY <1>0, OthersEngaged
<1>r. \A q \in Shells : Engaged(q) => q \in Running  BY EngagedRuns DEF WholeInv
<1>1. ASSUME NEW n \in Names \cup {None}, GetNsname(p, n)  PROVE Clashes'
  <2>1. /\ p \in Running /\ p \in Running' /\ ns'[p] = n /\ cmd'[p] = cmd[p] /\ ~Engaged(p)
        /\ ns[p] \in Names => n = ns[p]
    BY <1>0, <1>1, TestEnvAssumption
       DEF GetNsname, NsNames, Goto, Types, Running, Engaged, Control
  <2>2. CASE n # None /\ cmd[p] # "other" /\ Rivals(p, n) # {}
    <3>1. clash' = clash \cup Rivals(p, n) \cup {p} /\ dirty' = dirty \cup {n}
      BY <1>1, <2>2 DEF GetNsname
    <3>2. \A q \in Shells \ {p} : q \in Running /\ ns[q] = n /\ cmd[q] # "other" =>
                                q \in Rivals(p, n)
      BY DEF Rivals
    <3>3. \A q \in Rivals(p, n) :
            q \in Shells \ {p} /\ q \in Running /\ ns[q] = n /\ cmd[q] # "other"
      BY DEF Rivals, Running
    <3>4. \A x, y \in Shells :
            Engaged(x)' /\ Engaged(y)' /\ ns'[x] = ns'[y] /\ x # y => x \in clash'
      <4>1. ASSUME NEW x \in Shells \ {p}, Engaged(x)', ns'[x] = n  PROVE x \in clash'
        BY <1>o, <1>r, <3>1, <3>2, <4>1 DEF Engaged
      <4> QED  BY <1>0, <1>o, <2>1, <3>1, <4>1 DEF Clashes
    <3>5. ASSUME NEW x \in clash', NEW y \in Shells, Engaged(y)', ns'[y] = ns'[x]
          PROVE  y \in clash'
      <4>1. CASE y = p  BY <3>1, <4>1
      <4>2. CASE y # p /\ ns[y] = n  BY <1>o, <1>r, <3>1, <3>2, <3>5, <4>2 DEF Engaged
      <4>3. CASE y # p /\ ns[y] # n
        <5>1. x # p /\ x \in clash /\ x \in Shells
          BY <1>0, <1>o, <2>1, <3>1, <3>3, <3>5, <4>3 DEF Clashes, Running
        <5> QED  BY <1>0, <1>o, <3>1, <3>5, <4>3, <5>1 DEF Clashes
      <4> QED  BY <4>1, <4>2, <4>3
    <3>6. ASSUME NEW x \in clash'
          PROVE  /\ x \in Running' /\ ns'[x] \in dirty'
                 /\ ns'[x] \in Names /\ cmd'[x] # "other"
      BY <1>0, <1>o, <2>1, <2>2, <3>1, <3>3, <3>6 DEF Clashes, Running
    <3> QED  BY <3>4, <3>5, <3>6 DEF Clashes
  <2>3. CASE ~(n # None /\ cmd[p] # "other" /\ Rivals(p, n) # {})
    <3>1. clash' = clash /\ dirty' = dirty  BY <1>1, <2>3 DEF GetNsname
    <3>2. ASSUME Engaged(p)', NEW q \in Shells \ {p}, q \in Running, ns[q] = n
          PROVE  cmd[q] = "other"
      BY <2>1, <2>3, <3>2, TestEnvAssumption DEF Engaged, Rivals
    <3>3. ASSUME NEW x \in Shells, NEW y \in Shells, Engaged(x)', Engaged(y)',
                 ns'[x] = ns'[y], x # y
          PROVE  x \in clash'
      <4>1. x # p /\ y # p
        BY <1>o, <1>r, <2>1, <3>2, <3>3 DEF Engaged
      <4> QED  BY <1>0, <1>o, <3>1, <3>3, <4>1 DEF Clashes
    <3>4. ASSUME NEW x \in clash', NEW y \in Shells, Engaged(y)', ns'[y] = ns'[x]
          PROVE  y \in clash'
      <4>1. x \in Shells /\ x \in Running /\ cmd[x] # "other"
        BY <1>0, <3>1, <3>4 DEF Clashes, Running
      <4>2. CASE y # p
        BY <1>0, <1>o, <2>1, <3>1, <3>4, <4>1, <4>2 DEF Clashes
      <4>3. CASE y = p  BY <1>o, <2>1, <3>1, <3>2, <3>4, <4>1, <4>3
      <4> QED  BY <4>2, <4>3
    <3>5. ASSUME NEW x \in clash'
          PROVE  /\ x \in Running' /\ ns'[x] \in dirty'
                 /\ ns'[x] \in Names /\ cmd'[x] # "other"
      BY <1>0, <1>o, <2>1, <3>1, <3>5 DEF Clashes, Running
    <3> QED  BY <3>3, <3>4, <3>5 DEF Clashes
  <2> QED  BY <2>2, <2>3
<1>2. ASSUME pc[p] # "idle", pc'[p] = "idle", phase'[p] = "none", clash' = clash \ {p},
             \/ dirty \subseteq dirty'
             \/ p \notin clash /\ phase[p] # "none" /\ dirty' = dirty \ {ns[p]}
      PROVE  Clashes'
  <2>1. ~Engaged(p)'  BY <1>2 DEF Engaged
  <2>2. ASSUME NEW x \in clash'  PROVE ns[x] \in dirty'
    <3>1. x \in clash /\ ns[x] \in dirty  BY <1>0, <1>2, <2>2 DEF Clashes
    <3>2. ASSUME p \notin clash, phase[p] # "none"  PROVE ns[p] # ns[x]
      BY <1>0, <3>1, <3>2 DEF Clashes, Engaged, Control
    <3> QED  BY <1>2, <3>1, <3>2
  <2>3. \A x \in clash' : x \in Shells \ {p} /\ x \in clash
    BY <1>0, <1>2 DEF Clashes, Running
  <2> QED  BY <1>0, <1>2, <1>o, <2>1, <2>2, <2>3 DEF Clashes
<1>3. ASSUME clash' = clash, dirty' = dirty, Engaged(p)' => Engaged(p),
             pc'[p] # "idle", ns'[p] = ns[p], cmd'[p] = cmd[p]
      PROVE  Clashes'
  <2>1. \A x \in Shells : /\ Engaged(x)' => Engaged(x)
                          /\ ns'[x] = ns[x] /\ cmd'[x] = cmd[x]
                          /\ x \in Running => x \in Running'
    BY <1>3, <1>o DEF Running
  <2>2. clash \subseteq Shells  BY <1>0 DEF Clashes, Running
  <2> QED  BY <1>0, <1>3, <2>1, <2>2 DEF Clashes
<1>4. ASSUME clash' = clash, dirty' = dirty, ~Engaged(p)', pc[p] = "idle"  PROVE Clashes'
  <2>1. clash \subseteq Shells \ {p}  BY <1>0, <1>4 DEF Clashes, Running
  <2> QED  BY <1>0, <1>4, <1>o, <2>1 DEF Clashes
<1> QED  BY <1>0, <1>1, <1>2, <1>3, <1>4, ClashCases

(* Only a shell that is engaged on an environment changes it.              *)
LEMMA ResourceChange ==
  ASSUME Types, NEW p \in Shells, Control(p), Step(p), NEW n \in Names
  PROVE  Same(n) \/ (ns[p] = n /\ Engaged(p) /\ phase'[p] # "none" /\ ns'[p] = ns[p])
<1> USE DEF Same, Types, files, network, shellVars, history
<1>1. ASSUME NEW c \in Commands, NEW m \in Names \cup {None}, Start(p, c, m)  PROVE Same(n)
  BY <1>1 DEF Start
<1>2. ASSUME NEW m \in Names \cup {None}, GetNsname(p, m)  PROVE Same(n)
  BY <1>2 DEF GetNsname
<1>3. CASE EnsureNsname(p)  BY <1>3 DEF EnsureNsname
<1>4. CASE Select(p)  BY <1>4 DEF Select
<1>5. CASE Exists(p)  BY <1>5 DEF Exists
<1>6. CASE GetNum(p)  BY <1>6 DEF GetNum
<1>7. CASE PutNum(p)  BY <1>7 DEF PutNum
<1>8. CASE NetnsAdd(p)
  BY <1>8 DEF NetnsAdd, Engaged, Control, Leaving, SettingUp, TearingDown
<1>9. CASE LinkAdd(p)
  BY <1>9 DEF LinkAdd, Engaged, Control, Leaving, SettingUp, TearingDown
<1>10. CASE Configure(p)  BY <1>10 DEF Configure
<1>11. CASE CreateStatefile(p)
  BY <1>11 DEF CreateStatefile, Engaged, Control, Leaving, SettingUp, TearingDown
<1>12. CASE AppendStatefile(p)
  BY <1>12 DEF AppendStatefile, Engaged, Control, Leaving, SettingUp, TearingDown
<1>13. CASE RunPing(p)  BY <1>13 DEF RunPing
<1>14. CASE SetCurrent(p)  BY <1>14 DEF SetCurrent
<1>15. CASE LinkDel(p)
  BY <1>15 DEF LinkDel, Engaged, Control, Leaving, SettingUp, TearingDown
<1>16. CASE NetnsDel(p)
  BY <1>16 DEF NetnsDel, Engaged, Control, Leaving, SettingUp, TearingDown
<1>17. CASE GoesOn(p)  BY <1>17 DEF GoesOn
<1>18. CASE RmStatefile(p)
  BY <1>18 DEF RmStatefile, Engaged, Control, Leaving, SettingUp, TearingDown
<1>19. CASE RmCurrent(p)  BY <1>19 DEF RmCurrent
<1>20. CASE Fails(p)  BY <1>20 DEF Fails
<1>21. CASE CleanupSetup(p)
  BY <1>21 DEF CleanupSetup, RegisteredCleanup, Engaged, Control, Leaving, SettingUp,
      TearingDown
<1>22. CASE UndoStatefile(p)
  BY <1>22 DEF UndoStatefile, Engaged, Control, Leaving, SettingUp, TearingDown
<1>23. CASE Glob(p)  BY <1>23 DEF Glob
<1>24. CASE Remove(p)  BY <1>24 DEF Remove
<1>25. CASE Rmdir(p)  BY <1>25 DEF Rmdir
<1>26. CASE Kill(p)  BY <1>26 DEF Kill
<1> QED  BY <1>1, <1>2, <1>3, <1>4, <1>5, <1>6, <1>7, <1>8, <1>9, <1>10, <1>11, <1>12,
           <1>13, <1>14, <1>15, <1>16, <1>17, <1>18, <1>19, <1>20, <1>21, <1>22, <1>23,
           <1>24, <1>25, <1>26 DEF Step

(* An environment that becomes free of commands is left whole or empty.    *)
LEMMA SettledStep ==
  ASSUME WholeInv, NEW p \in Shells, Step(p), NEW n \in Names
  PROVE  Settled(n)'
<1> SUFFICES ASSUME n \notin dirty', \A q \in Shells : ns'[q] = n => phase'[q] = "none"
             PROVE  Whole(n)' \/ Empty(n)'
  BY DEF Settled
<1>0. Types /\ Control(p) /\ Clashes /\ Known(p) /\ Settled(n)  BY DEF WholeInv
<1>1. Same(n)  BY <1>0, ResourceChange
<1>2. Whole(n)' = Whole(n) /\ Empty(n)' = Empty(n)  BY <1>1 DEF Same, Whole, Empty
<1>3. ASSUME Return(p), pc[p] \in {"glob", "rmdir"}, ns[p] = n, phase[p] # "none"
      PROVE  Whole(n) \/ Empty(n)
  <2>1. p \notin clash  BY <1>0, <1>3 DEF Return, Clashes
  <2>2. phase[p] = "setup" \/ status[p] = "ok"  BY <1>3, <2>1 DEF Return
  <2> QED  BY <1>0, <1>3, <2>1, <2>2 DEF Known, Types, Leaving
<1>4. CASE ns[p] = n /\ phase[p] # "none"
  <2>1. pc'[p] = "idle"
    <3>1. ~\E m \in Names \cup {None} : GetNsname(p, m)
      BY <1>0, <1>4 DEF GetNsname, Control
    <3>2. pc[p] # "idle"  BY <1>0, <1>4 DEF Control
    <3> QED  BY <1>0, <1>4, <3>1, <3>2, ClashCases
  <2>2. Kill(p) \/ Rmdir(p) \/ (Glob(p) /\ ~(statedir /\ statefile = {}))
    BY <1>0, <1>4, <2>1, RunningChange DEF Start, Control, Types, Labels
  <2>3. ~Kill(p)  BY <1>4 DEF Kill
  <2>4. Return(p) /\ pc[p] \in {"glob", "rmdir"}  BY <2>2, <2>3 DEF Rmdir, Glob
  <2> QED  BY <1>2, <1>3, <1>4, <2>4
<1>5. CASE ~(ns[p] = n /\ phase[p] # "none")
  <2>1. n \notin dirty
    <3>1. \A m \in Names \cup {None} : GetNsname(p, m) => dirty \subseteq dirty'
      BY DEF GetNsname
    <3> QED  BY <1>0, <1>5, <3>1, ClashCases
  <2>2. \A q \in Shells : ns[q] = n => phase[q] = "none"
    BY <1>0, <1>5, OthersUntouched
  <2> QED  BY <1>0, <1>2, <2>1, <2>2 DEF Settled
<1> QED  BY <1>4, <1>5

(* What a shell knows is not spoiled by others: they would be engaged on   *)
(* the same name.                                                          *)
LEMMA OthersKnown ==
  ASSUME WholeInv, NEW p \in Shells, Step(p), NEW q \in Shells \ {p}
  PROVE  Known(q)'
<1>0. Types /\ Control(p) /\ Control(q) /\ Clashes /\ Known(q)  BY DEF WholeInv
<1>1. /\ pc'[q] = pc[q] /\ cmd'[q] = cmd[q] /\ ns'[q] = ns[q] /\ status'[q] = status[q]
      /\ cleanupFunc'[q] = cleanupFunc[q] /\ phase'[q] = phase[q]
  BY <1>0, OthersUntouched
<1>2. q \in clash => q \in clash'
  <2>1. \A m \in Names \cup {None} : GetNsname(p, m) => clash \subseteq clash'
    BY DEF GetNsname
  <2> QED  BY <1>0, <2>1, ClashCases
<1>3. CASE phase[q] = "none"  BY <1>1, <1>3 DEF Known
<1>4. CASE q \in clash  BY <1>2, <1>4 DEF Known
<1>5. CASE phase[q] # "none" /\ q \notin clash
  <2>1. Engaged(q) /\ ns[q] \in Names  BY <1>0, <1>5 DEF Control, Engaged
  <2>2. Same(ns[q])  BY <1>0, <1>5, <2>1, ResourceChange DEF Clashes
  <2>3. /\ Whole(ns[q])' = Whole(ns[q]) /\ Empty(ns[q])' = Empty(ns[q])
    BY <1>1, <2>2 DEF Same, Whole, Empty
  <2> QED  BY <1>0, <1>1, <1>5, <2>2, <2>3 DEF Known, Same
<1> QED  BY <1>3, <1>4, <1>5

(* What a shell knows follows from where it was.                           *)
LEMMA OwnKnown ==
  ASSUME WholeInv, NEW p \in Shells, Step(p)
  PROVE  Known(p)'
<1>0. Types /\ Control(p) /\ Known(p)  BY DEF WholeInv
<1>1. Control(p)' /\ Types'  BY <1>0, OwnControl, StepTypes
<1>2. CASE p \in clash
  <2>1. \A m \in Names \cup {None} : GetNsname(p, m) => clash \subseteq clash'
    BY DEF GetNsname
  <2>2. p \in clash' \/ phase'[p] = "none"  BY <1>0, <1>2, <2>1, ClashCases
  <2> QED  BY <2>2 DEF Known
<1>3. CASE phase'[p] = "none"  BY <1>3 DEF Known
<1>4. ASSUME p \notin clash, phase'[p] # "none"  PROVE Known(p)'
  <2> USE <1>0, <1>4 DEF Types, Known, Whole, Empty, Control, SettingUp, Numbering,
      TearingDown,
              Leaving, Goto, files, network, shellVars, history
  <2>1. ASSUME NEW c \in Commands, NEW n \in Names \cup {None}, Start(p, c, n)
        PROVE  Known(p)'
    BY <2>1 DEF Start
  <2>2. ASSUME NEW n \in Names \cup {None}, GetNsname(p, n)  PROVE Known(p)'
    BY <2>2 DEF GetNsname, NsNames
  <2>3. CASE EnsureNsname(p)  BY <2>3 DEF EnsureNsname, Exit
  <2>4. CASE Select(p)  BY <2>4 DEF Select, Exit
  <2>5. CASE Exists(p)  BY <2>5 DEF Exists, Exit
  <2>6. CASE GetNum(p)  BY <2>6 DEF GetNum
  <2>7. CASE PutNum(p)  BY <2>7 DEF PutNum, NextNum
  <2>8. CASE NetnsAdd(p)  BY <2>8 DEF NetnsAdd
  <2>9. CASE LinkAdd(p)  BY <2>9 DEF LinkAdd
  <2>10. CASE Configure(p)  BY <2>10 DEF Configure
  <2>11. CASE CreateStatefile(p)  BY <2>11 DEF CreateStatefile
  <2>12. CASE AppendStatefile(p)  BY <2>12 DEF AppendStatefile
  <2>13. CASE RunPing(p)  BY <2>13 DEF RunPing
  <2>14. CASE SetCurrent(p)  BY <2>14 DEF SetCurrent, Exit
  <2>15. CASE LinkDel(p)  BY <2>15 DEF LinkDel
  <2>16. CASE NetnsDel(p)  BY <2>16 DEF NetnsDel
  <2>17. CASE GoesOn(p)  BY <2>17 DEF GoesOn
  <2>18. CASE RmStatefile(p)  BY <2>18 DEF RmStatefile
  <2>19. CASE RmCurrent(p)  BY <2>19 DEF RmCurrent, Exit
  <2>20. CASE Fails(p)
    <3>1. pc'[p] = "exit" /\ status'[p] = "failed" /\ UNCHANGED <<phase, cleanupFunc>>
      BY <2>20 DEF Fails, Exit
    <3>2. phase[p] = "setup" => pc[p] \in SettingUp  BY <2>20 DEF Fails, Labels
    <3>3. phase[p] = "setup" => cleanupFunc[p] = "cleanup_setup" \/ Whole(ns[p])  BY <3>2
    <3>4. Whole(ns[p])' = Whole(ns[p])  BY <2>20 DEF Fails
    <3> QED  BY <3>1, <3>3, <3>4
  <2>21. CASE CleanupSetup(p)  BY <2>21 DEF CleanupSetup, RegisteredCleanup
  <2>22. CASE UndoStatefile(p)  BY <2>22 DEF UndoStatefile
  <2>23. CASE Glob(p)  BY <2>23 DEF Glob, Return, Gone
  <2>24. CASE Remove(p)  BY <2>24 DEF Remove, ToRemove
  <2>25. CASE Rmdir(p)  BY <2>25 DEF Rmdir, Return, Gone
  <2>26. CASE Kill(p)  BY <2>26 DEF Kill, Gone
  <2> QED  BY <2>1, <2>2, <2>3, <2>4, <2>5, <2>6, <2>7, <2>8, <2>9, <2>10, <2>11, <2>12,
             <2>13, <2>14, <2>15, <2>16, <2>17, <2>18, <2>19, <2>20, <2>21, <2>22, <2>23,
             <2>24, <2>25, <2>26 DEF Step
<1> QED  BY <1>2, <1>3, <1>4

(* For any number of shells, names, commands and kills, setup, teardown    *)
(* and reset (testenv.sh:216-335) leave an environment whole or not at     *)
(* all, unless somebody was killed on it, two commands worked on it at     *)
(* once or a teardown was given up.                                        *)
THEOREM EnvironmentsWhole == Spec => []AllOrNothing
<1>1. Init => WholeInv
  <2> SUFFICES ASSUME Init  PROVE WholeInv
    OBVIOUS
  <2>1. Types /\ \A p \in Shells : Control(p)  BY PrefixInitially DEF PrefixInv
  <2>2. Clashes  BY DEF Init, Clashes, Engaged
  <2>3. \A p \in Shells : Known(p)  BY DEF Init, Known
  <2>4. ASSUME NEW n \in Names  PROVE Settled(n)
    BY <2>4 DEF Init, Settled, Whole, Empty
  <2> QED  BY <2>1, <2>2, <2>3, <2>4 DEF WholeInv
<1>2. WholeInv /\ [Next]_vars => WholeInv'
  <2> SUFFICES ASSUME WholeInv, [Next]_vars  PROVE WholeInv'
    OBVIOUS
  <2>1. CASE UNCHANGED vars
    <3> USE <2>1 DEF vars, files, network, shellVars, history
    <3>1. Types'  BY DEF WholeInv, Types
    <3>2. ASSUME NEW p \in Shells  PROVE Control(p)' /\ Engaged(p)' = Engaged(p)
      BY DEF WholeInv, Control, Engaged
    <3>3. Clashes'  BY <3>2 DEF WholeInv, Clashes, Running
    <3>4. ASSUME NEW p \in Shells  PROVE Known(p)'
      BY DEF WholeInv, Known, Whole, Empty
    <3>5. ASSUME NEW n \in Names  PROVE Settled(n)'
      BY DEF WholeInv, Settled, Whole, Empty
    <3> QED  BY <3>1, <3>2, <3>3, <3>4, <3>5 DEF WholeInv
  <2>2. CASE Next
    <3>1. PICK p \in Shells : Step(p)  BY <2>2 DEF Next
    <3>2. Types'  BY <3>1, StepTypes DEF WholeInv
    <3>3. \A q \in Shells : Control(q)'  BY <3>1, OwnControl, OthersControl DEF WholeInv
    <3>4. Clashes'  BY <3>1, ClashesStep
    <3>5. \A q \in Shells : Known(q)'  BY <3>1, OwnKnown, OthersKnown
    <3>6. \A n \in Names : Settled(n)'  BY <3>1, SettledStep
    <3> QED  BY <3>2, <3>3, <3>4, <3>5, <3>6 DEF WholeInv
  <2> QED  BY <2>1, <2>2
<1>3. ASSUME WholeInv, NEW n \in Names \ dirty,
             \A p \in Running : ns[p] # n \/ cmd[p] = "other"
      PROVE  Whole(n) \/ Empty(n)
  <2>1. ASSUME NEW p \in Shells, ns[p] = n  PROVE phase[p] = "none"
    BY <1>3, <2>1 DEF WholeInv, Control, Running, Types
  <2> QED  BY <1>3, <2>1 DEF WholeInv, Settled
<1>4. WholeInv => AllOrNothing  BY <1>3 DEF AllOrNothing, Whole, Empty
<1> QED  BY <1>1, <1>2, <1>4, PTL DEF Spec
=============================================================================
