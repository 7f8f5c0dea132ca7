------------------------------- MODULE TestEnv -------------------------------
(***************************************************************************)
(* setup, teardown and reset of the test environments (testenv/testenv.sh) *)
(* run by several shells.  The commands share the state directory (the     *)
(* number given last, the name selected last, one state file for each      *)
(* environment) and the kernel's namespaces and links, and take no lock.   *)
(* The script runs with errexit: a command that fails, or a signal, ends   *)
(* it through the EXIT trap; SIGKILL ends it without.                      *)
(***************************************************************************)
EXTENDS Naturals, FiniteSets

CONSTANTS
  Shells,
  Names,        \* names of environments
  None,
  MaxCommands,  \* bound of the model: commands started in all
  MaxKills      \* bound of the model: shells killed

ASSUME TestEnvAssumption ==
  /\ MaxCommands \in Nat /\ MaxKills \in Nat
  /\ None \notin Names

Commands == {"setup", "teardown", "reset", "other"}

VARIABLES
  statedir,     \* STATEDIR exists
  highest,      \* highest_num, 0 without that file
  current,
  statefile,    \* names that have a state file
  prefix,       \* the IP6_PREFIX in it, by its number; 0 when there is none
  netns, link,
  pc, cmd,
  ns,           \* NS
  num,          \* NUM
  ip6prefix,    \* IP6_PREFIX, 0 when empty
  cleanupFunc,  \* CLEANUP_FUNC
  status,
  runs, kills,  \* counted for the bounds
  phase,        \* history: what the command has begun to change
  overlapped,   \* history: commands that ran beside another one
  clash,        \* history: commands that ran beside another one on the same name
  rough,        \* history: names set up by an overlapped command
  littered,     \* history: a shell was killed and none has reached its trap since
  dirty         \* history: names somebody was killed on, clashed on or gave up tearing down

files == <<statedir, highest, current, statefile, prefix>>
network == <<netns, link>>
shellVars == <<cmd, ns, num, ip6prefix, cleanupFunc, status>>
history == <<phase, overlapped, clash, rough, littered, dirty>>
vars == <<files, network, pc, shellVars, runs, kills, history>>

(* No environment is there, or one that was set up before.                 *)
Init ==
  /\ current \in Names \cup {None}
  /\ statefile = {current} \ {None} /\ netns = statefile /\ link = statefile
  /\ statedir = (current # None) /\ highest = Cardinality(statefile)
  /\ prefix = [n \in Names |-> IF n = current THEN 1 ELSE 0]
  /\ pc = [p \in Shells |-> "idle"]
  /\ cmd = [p \in Shells |-> "other"] /\ ns = [p \in Shells |-> None]
  /\ num = [p \in Shells |-> 0] /\ ip6prefix = num
  /\ cleanupFunc = [p \in Shells |-> "none"] /\ status = [p \in Shells |-> "ok"]
  /\ runs = 0 /\ kills = 0
  /\ phase = [p \in Shells |-> "none"]
  /\ overlapped = {} /\ clash = {} /\ rough = {} /\ dirty = {}
  /\ littered = FALSE

Goto(p, l) == pc' = [pc EXCEPT ![p] = l]
Running == {p \in Shells : pc[p] # "idle"}

(* The script ends and the EXIT trap runs.                                 *)
Exit(p, s) ==
  /\ Goto(p, "exit")
  /\ status' = [status EXCEPT ![p] = s]

(* A new shell, and check_prereq.                                          *)
Start(p, c, n) ==
  /\ pc[p] = "idle" /\ runs < MaxCommands
  /\ runs' = runs + 1
  /\ statedir' = TRUE
  /\ Goto(p, "nsname")
  /\ cmd' = [cmd EXCEPT ![p] = c] /\ ns' = [ns EXCEPT ![p] = n]
  /\ overlapped' = IF Running = {} THEN {} ELSE overlapped \cup Running \cup {p}
  /\ UNCHANGED <<highest, current, statefile, prefix, network, num, ip6prefix, cleanupFunc,
                 status, kills, phase, clash, rough, littered, dirty>>

(* get_nsname: the name given, or the current one; setup makes up a new    *)
(* name when there is none, or when told to by --gen-new.                  *)
NsNames(p) ==
  IF ns[p] # None THEN {ns[p]}
  ELSE {current} \cup (IF cmd[p] = "setup" THEN Names ELSE {})

(* Other commands that change the same environment.                        *)
Rivals(p, n) == {q \in Running \ {p} : ns[q] = n /\ cmd[q] # "other"}

GetNsname(p, n) ==
  /\ pc[p] = "nsname" /\ n \in NsNames(p)
  /\ cmd[p] = "setup" => n # None
  /\ ns' = [ns EXCEPT ![p] = n]
  /\ Goto(p, IF cmd[p] = "setup" THEN "exists" ELSE "ensure")
  /\ IF n # None /\ cmd[p] # "other" /\ Rivals(p, n) # {}
     THEN clash' = clash \cup Rivals(p, n) \cup {p} /\ dirty' = dirty \cup {n}
     ELSE UNCHANGED <<clash, dirty>>
  /\ UNCHANGED <<files, network, cmd, num, ip6prefix, cleanupFunc, status, runs, kills,
                 phase, overlapped, rough, littered>>

(* ensure_nsname: the check, then the name is written and the file read.   *)
EnsureNsname(p) ==
  /\ pc[p] = "ensure"
  /\ IF ns[p] \in statefile THEN Goto(p, "select") /\ UNCHANGED status ELSE Exit(p, "failed")
  /\ UNCHANGED <<files, network, cmd, ns, num, ip6prefix, cleanupFunc, runs, kills, history>>

(* reset runs teardown with errexit off, so it goes on without the file.   *)
Select(p) ==
  /\ pc[p] = "select"
  /\ current' = IF statedir THEN ns[p] ELSE current
  /\ IF ns[p] \in statefile \/ cmd[p] = "reset"
     THEN /\ ip6prefix' = [ip6prefix EXCEPT
                             ![p] = IF ns[p] \in statefile THEN prefix[ns[p]] ELSE 0]
          /\ IF cmd[p] = "other" THEN Exit(p, "ok") /\ UNCHANGED cleanupFunc
             ELSE /\ Goto(p, "linkdel")
                  /\ cleanupFunc' = [cleanupFunc EXCEPT ![p] = "cleanup_teardown"]
                  /\ UNCHANGED status
     ELSE Exit(p, "failed") /\ UNCHANGED <<ip6prefix, cleanupFunc>>
  /\ UNCHANGED <<statedir, highest, statefile, prefix, network, cmd, ns, num, runs, kills,
                 history>>

-----------------------------------------------------------------------------
(* setup                                                                   *)
Exists(p) ==
  /\ pc[p] = "exists"
  /\ IF ns[p] \in statefile THEN Exit(p, "failed") ELSE Goto(p, "getnum") /\ UNCHANGED status
  /\ UNCHANGED <<files, network, cmd, ns, num, ip6prefix, cleanupFunc, runs, kills, history>>

GetNum(p) ==
  /\ pc[p] = "getnum"
  /\ num' = [num EXCEPT ![p] = highest + 1]
  /\ Goto(p, "putnum")
  /\ UNCHANGED <<files, network, cmd, ns, ip6prefix, cleanupFunc, status, runs, kills, history>>

(* The write fails unnoticed when the directory is gone.  After a reset    *)
(* the prefix is still that of the state file.                             *)
NextNum_Kept(p) == IF highest = 0 THEN num[p] ELSE highest  \* mutant: written once only
NextNum(p) == num[p]
PutNum(p) ==
  /\ pc[p] = "putnum"
  /\ highest' = IF statedir THEN NextNum(p) ELSE highest
  /\ ip6prefix' = [ip6prefix EXCEPT ![p] = IF @ = 0 THEN num[p] ELSE @]
  /\ cleanupFunc' = [cleanupFunc EXCEPT ![p] = "cleanup_setup"]
  /\ phase' = [phase EXCEPT ![p] = "setup"]
  /\ Goto(p, "netnsadd")
  /\ UNCHANGED <<statedir, current, statefile, prefix, network, cmd, ns, num, status, runs,
                 kills, overlapped, clash, rough, littered, dirty>>

NetnsAdd(p) ==
  /\ pc[p] = "netnsadd" /\ ns[p] \notin netns
  /\ netns' = netns \cup {ns[p]}
  /\ Goto(p, "linkadd")
  /\ UNCHANGED <<files, link, shellVars, runs, kills, history>>

LinkAdd(p) ==
  /\ pc[p] = "linkadd" /\ ns[p] \in netns /\ ns[p] \notin link
  /\ link' = link \cup {ns[p]}
  /\ Goto(p, "configure")
  /\ UNCHANGED <<files, netns, shellVars, runs, kills, history>>

(* Addresses, neighbours, routes and VLANs of both ends.                   *)
Configure(p) ==
  /\ pc[p] = "configure" /\ ns[p] \in netns \cap link
  /\ Goto(p, "create")
  /\ UNCHANGED <<files, network, shellVars, runs, kills, history>>

(* write_statefile truncates the file, then appends the variables.         *)
CreateStatefile(p) ==
  /\ pc[p] = "create" /\ statedir
  /\ statefile' = statefile \cup {ns[p]}
  /\ prefix' = [prefix EXCEPT ![ns[p]] = 0]
  /\ Goto(p, "append")
  /\ UNCHANGED <<statedir, highest, current, network, shellVars, runs, kills, history>>

AppendStatefile(p) ==
  /\ pc[p] = "append" /\ statedir
  /\ statefile' = statefile \cup {ns[p]}
  /\ prefix' = [prefix EXCEPT ![ns[p]] = ip6prefix[p]]
  /\ cleanupFunc' = [cleanupFunc EXCEPT ![p] = "none"]
  /\ rough' = IF p \in overlapped THEN rough \cup {ns[p]}
              ELSE IF cmd[p] = "reset" THEN rough ELSE rough \ {ns[p]}
  /\ Goto(p, "ping")
  /\ UNCHANGED <<statedir, highest, current, network, cmd, ns, num, ip6prefix, status, runs,
                 kills, phase, overlapped, clash, littered, dirty>>

(* run_ping selects the environment; setup then selects it once more.      *)
RunPing(p) ==
  /\ pc[p] = "ping" /\ ns[p] \in statefile
  /\ current' = ns[p]
  /\ Goto(p, "current")
  /\ UNCHANGED <<statedir, highest, statefile, prefix, network, shellVars, runs, kills,
                 history>>

SetCurrent(p) ==
  /\ pc[p] = "current" /\ statedir
  /\ current' = ns[p]
  /\ Exit(p, "ok")
  /\ UNCHANGED <<statedir, highest, statefile, prefix, network, cmd, ns, num, ip6prefix,
                 cleanupFunc, runs, kills, history>>

-----------------------------------------------------------------------------
(* teardown                                                                *)
LinkDel(p) ==
  /\ pc[p] = "linkdel" /\ ns[p] \in link
  /\ link' = link \ {ns[p]}
  /\ phase' = [phase EXCEPT ![p] = "teardown"]
  /\ Goto(p, "netnsdel")
  /\ UNCHANGED <<files, netns, shellVars, runs, kills, overlapped, clash, rough,
                 littered, dirty>>

NetnsDel(p) ==
  /\ pc[p] = "netnsdel" /\ ns[p] \in netns
  /\ netns' = netns \ {ns[p]} /\ link' = link \ {ns[p]}
  /\ Goto(p, "rmstate")
  /\ UNCHANGED <<files, shellVars, runs, kills, history>>

(* Within reset errexit is off: a command that fails is passed over.       *)
GoesOn(p) ==
  /\ pc[p] \in {"linkdel", "netnsdel"} /\ cmd[p] = "reset"
  /\ phase' = [phase EXCEPT ![p] = "teardown"]
  /\ Goto(p, IF pc[p] = "linkdel" THEN "netnsdel" ELSE "rmstate")
  /\ UNCHANGED <<files, network, shellVars, runs, kills, overlapped, clash, rough,
                 littered, dirty>>

RmStatefile(p) ==
  /\ pc[p] = "rmstate"
  /\ statefile' = statefile \ {ns[p]}
  /\ prefix' = [prefix EXCEPT ![ns[p]] = 0]
  /\ Goto(p, "rmcurrent")
  /\ UNCHANGED <<statedir, highest, current, network, shellVars, runs, kills, history>>

RmCurrent(p) ==
  /\ pc[p] = "rmcurrent"
  /\ current' = IF current = ns[p] THEN None ELSE current
  /\ cleanupFunc' = [cleanupFunc EXCEPT ![p] = "none"]
  /\ IF cmd[p] = "reset" THEN Goto(p, "exists") /\ UNCHANGED status ELSE Exit(p, "ok")
  /\ UNCHANGED <<statedir, highest, statefile, prefix, network, cmd, ns, num, ip6prefix, runs,
                 kills, history>>

-----------------------------------------------------------------------------
(* The next command fails, for whatever reason, or a signal arrives.       *)
Fails(p) ==
  /\ pc[p] \notin {"idle", "exit", "undostate", "glob", "remove", "rmdir"}
  /\ Exit(p, "failed")
  /\ UNCHANGED <<files, network, cmd, ns, num, ip6prefix, cleanupFunc, runs, kills, history>>

(* cleanup: first the function registered, here cleanup_setup.             *)
RegisteredCleanup_Missing(p) == "none"  \* mutant: CLEANUP_FUNC is not set
RegisteredCleanup(p) == cleanupFunc[p]
CleanupSetup(p) ==
  /\ pc[p] = "exit"
  /\ IF RegisteredCleanup(p) = "cleanup_setup"
     THEN netns' = netns \ {ns[p]} /\ link' = link \ {ns[p]} /\ Goto(p, "undostate")
     ELSE Goto(p, "glob") /\ UNCHANGED network
  /\ UNCHANGED <<files, shellVars, runs, kills, history>>

UndoStatefile(p) ==
  /\ pc[p] = "undostate"
  /\ statefile' = statefile \ {ns[p]}
  /\ prefix' = [prefix EXCEPT ![ns[p]] = 0]
  /\ Goto(p, "glob")
  /\ UNCHANGED <<statedir, highest, current, network, shellVars, runs, kills, history>>

(* A shell that is gone has no variables.                                  *)
Gone(p) ==
  /\ Goto(p, "idle")
  /\ cmd' = [cmd EXCEPT ![p] = "other"] /\ ns' = [ns EXCEPT ![p] = None]
  /\ num' = [num EXCEPT ![p] = 0] /\ ip6prefix' = [ip6prefix EXCEPT ![p] = 0]
  /\ cleanupFunc' = [cleanupFunc EXCEPT ![p] = "none"]
  /\ status' = [status EXCEPT ![p] = "ok"]
  /\ phase' = [phase EXCEPT ![p] = "none"]
  /\ overlapped' = overlapped \ {p} /\ clash' = clash \ {p}

Return(p) ==
  /\ Gone(p)
  /\ dirty' = IF p \in clash \/ phase[p] = "none" THEN dirty
              ELSE IF phase[p] = "setup" \/ status[p] = "ok" THEN dirty \ {ns[p]}
              ELSE dirty \cup {ns[p]}

(* Without environments the directory is taken away as well.               *)
Glob(p) ==
  /\ pc[p] = "glob"
  /\ littered' = FALSE
  /\ IF statedir /\ statefile = {}
     THEN Goto(p, "remove") /\ UNCHANGED <<shellVars, phase, overlapped, clash, dirty>>
     ELSE Return(p)
  /\ UNCHANGED <<files, network, runs, kills, rough>>

ToRemove_CurrentOnly == [highest |-> highest, current |-> None]  \* mutant: highest_num stays
ToRemove == [highest |-> 0, current |-> None]
Remove(p) ==
  /\ pc[p] = "remove"
  /\ highest' = ToRemove.highest /\ current' = ToRemove.current
  /\ Goto(p, "rmdir")
  /\ UNCHANGED <<statedir, statefile, prefix, network, shellVars, runs, kills, history>>

Rmdir(p) ==
  /\ pc[p] = "rmdir"
  /\ statedir' = (statedir /\ ~(statefile = {} /\ highest = 0 /\ current = None))
  /\ Return(p)
  /\ UNCHANGED <<highest, current, statefile, prefix, network, runs, kills, rough, littered>>

Kill(p) ==
  /\ p \in Running /\ kills < MaxKills
  /\ kills' = kills + 1
  /\ littered' = TRUE
  /\ dirty' = IF phase[p] = "none" THEN dirty ELSE dirty \cup {ns[p]}
  /\ Gone(p)
  /\ UNCHANGED <<files, network, runs, rough>>

Step(p) ==
  \/ \E c \in Commands, n \in Names \cup {None} : Start(p, c, n)
  \/ \E n \in Names \cup {None} : GetNsname(p, n)
  \/ EnsureNsname(p) \/ Select(p)
  \/ Exists(p) \/ GetNum(p) \/ PutNum(p) \/ NetnsAdd(p) \/ LinkAdd(p) \/ Configure(p)
  \/ CreateStatefile(p) \/ AppendStatefile(p) \/ RunPing(p) \/ SetCurrent(p)
  \/ LinkDel(p) \/ NetnsDel(p) \/ GoesOn(p) \/ RmStatefile(p) \/ RmCurrent(p)
  \/ Fails(p) \/ CleanupSetup(p) \/ UndoStatefile(p)
  \/ Glob(p) \/ Remove(p) \/ Rmdir(p) \/ Kill(p)

Next == \E p \in Shells : Step(p)

Spec == Init /\ [][Next]_vars

-----------------------------------------------------------------------------
(* get_num gives every environment a prefix of its own: two environments   *)
(* share one only when the setup of one of them, or a reset since, ran     *)
(* beside another command, whatever failed or was killed before.  A reset  *)
(* keeps the prefix, so it does not part two environments that share one.  *)
PrefixesDistinct ==
  \A a, b \in statefile :
    a # b /\ prefix[a] # 0 /\ prefix[a] = prefix[b] => {a, b} \cap rough # {}

(* An environment nobody is working on exists as a whole, namespace, link  *)
(* and state file, or not at all.  The exceptions are the names on which   *)
(* a command was killed, two commands clashed or a teardown was given up;  *)
(* one more setup that gets past the check for the state file, a teardown  *)
(* that succeeds or a reset repairs them, whatever was left.               *)
AllOrNothing ==
  \A n \in Names \ dirty :
    (\A p \in Running : ns[p] # n \/ cmd[p] = "other") =>
      \/ n \in netns \cap link \cap statefile /\ prefix[n] # 0
      \/ n \notin netns \cup link \cup statefile

(* When the last command has ended, the directory is there exactly when an *)
(* environment is, with whatever interleaving of the traps: none takes it  *)
(* away from an environment set up meanwhile, and none leaves it behind.   *)
(* What a killed shell leaves is taken away by the next trap.              *)
NoLitter ==
  Running = {} /\ ~littered => statedir = (statefile # {})
=============================================================================
