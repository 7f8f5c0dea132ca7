----------------------------- MODULE StatsPoller -----------------------------
(***************************************************************************)
(* The statistics path: xdp_stats_record_action (common/xdp_stats_kern.h)  *)
(* counts on every CPU, and xdp_stats (basic-solutions/xdp_stats.c) polls  *)
(* the pinned map and prints the difference of two readings.  Meanwhile    *)
(* the program may be unloaded and loaded again and the pin may go away,   *)
(* so the map behind the path can be another one at the next poll.         *)
(*                                                                         *)
(* Map 0 stands for no map.  All packets have length 1, so that rx_bytes   *)
(* counts the packets whose second increment has happened.  A lookup in    *)
(* the per-CPU array copies CPU by CPU and word by word, without a lock,   *)
(* so each word is read in a step of its own.                              *)
(***************************************************************************)
EXTENDS Integers, Functions

CONSTANTS
  NumCpus,
  NumKeys,     \* XDP_ACTION_MAX: the keys of xdp_stats_map
  MaxMaps,     \* bound: maps created in a behaviour
  MaxPackets   \* bound: packets counted in a behaviour

ASSUME StatsAssumption ==
  /\ NumCpus \in Nat \ {0} /\ NumKeys \in Nat \ {0}
  /\ MaxMaps \in Nat /\ MaxPackets \in Nat

CPUs == 0..(NumCpus - 1)
Keys == 0..(NumKeys - 1)

VARIABLES
  maps,      \* number of maps created so far; their ids are 1..maps
  count,     \* count[m][k][c]: the datarec of map m, action k, CPU c
  attached,  \* the map the attached program counts in
  pending,   \* CPU between its two increments: the map and key, or NoRec
  pinned,    \* the map behind <pin_dir>/xdp_stats_map
  ppc,       \* where xdp_stats is
  fd,        \* the map its file descriptor refers to
  id,        \* the map id stats_poll was called with
  next,      \* the word stats_collect reads next
  low,       \* the counters when it began to read (history)
  prev, record   \* the two readings

kernelVars == <<maps, count, attached, pending>>
pollVars == <<ppc, fd, id, next, low, prev, record>>
vars == <<kernelVars, pinned, pollVars>>

NoRec == <<>>
Zero == [packets |-> 0, bytes |-> 0]
ZeroStats == [k \in Keys |-> Zero]

(* The sum over the CPUs, in the order of the loop: SumTo(f)[n] is that of *)
(* the first n.                                                            *)
SumTo(f) == LET s[n \in 0..NumCpus] == IF n = 0 THEN 0 ELSE s[n - 1] + f[n - 1] IN s
Sum(f) == SumTo(f)[NumCpus]
PacketsOf(m, k) == [c \in CPUs |-> count[m][k][c].packets]
BytesOf(m, k) == [c \in CPUs |-> count[m][k][c].bytes]
Counted(m) ==
  [k \in Keys |-> [packets |-> Sum(PacketsOf(m, k)), bytes |-> Sum(BytesOf(m, k))]]
Packets ==
  SumFunction([r \in (1..MaxMaps) \X Keys \X CPUs |-> count[r[1]][r[2]][r[3]].packets])

-----------------------------------------------------------------------------
Init ==
  /\ maps = 0
  /\ count = [m \in 1..MaxMaps |-> [k \in Keys |-> [c \in CPUs |-> Zero]]]
  /\ attached = 0 /\ pinned = 0
  /\ pending = [c \in CPUs |-> NoRec]
  /\ ppc = "start" /\ fd = 0 /\ id = 0 /\ next = 0
  /\ low = ZeroStats /\ prev = ZeroStats /\ record = ZeroStats

(* xdp-loader load --pin-path: xdp_stats_map is pinned by name, so a map   *)
(* already pinned there is reused and otherwise a new one is pinned.       *)
Load ==
  /\ attached = 0
  /\ IF pinned # 0
     THEN attached' = pinned /\ UNCHANGED <<maps, pinned>>
     ELSE /\ maps < MaxMaps
          /\ maps' = maps + 1 /\ attached' = maps + 1 /\ pinned' = maps + 1
  /\ UNCHANGED <<count, pending, pollVars>>

(* The program is detached; a pinned map stays.                            *)
Unload ==
  /\ attached # 0
  /\ attached' = 0
  /\ UNCHANGED <<maps, count, pending, pinned, pollVars>>

(* The pin file is removed, as before the removal of /sys/fs/bpf/<dev>.    *)
Unpin ==
  /\ pinned # 0
  /\ pinned' = 0
  /\ UNCHANGED <<kernelVars, pollVars>>

(* xdp_stats_record_action: two plain increments of this CPU's record.     *)
RecordPackets(c, k) ==
  /\ attached # 0 /\ pending[c] = NoRec
  /\ Packets < MaxPackets
  /\ count' = [count EXCEPT ![attached][k][c].packets = @ + 1]
  /\ pending' = [pending EXCEPT ![c] = <<attached, k>>]
  /\ UNCHANGED <<maps, attached, pinned, pollVars>>

RecordBytes(c) ==
  /\ pending[c] # NoRec
  /\ count' = [count EXCEPT ![pending[c][1]][pending[c][2]][c].bytes = @ + 1]
  /\ pending' = [pending EXCEPT ![c] = NoRec]
  /\ UNCHANGED <<maps, attached, pinned, pollVars>>

-----------------------------------------------------------------------------
(* Start of stats_collect on map m.                                        *)
BeginCollect_Keep(m) ==   \* mutant: the sums of the last reading are kept
  fd' = m /\ next' = 0 /\ low' = Counted(m) /\ UNCHANGED record
BeginCollect(m) ==
  fd' = m /\ next' = 0 /\ low' = Counted(m) /\ record' = ZeroStats

(* main of xdp_stats: open_bpf_map_file, check_map_fd_info, stats_poll.    *)
OpenFails ==
  /\ ppc = "start" /\ pinned = 0
  /\ ppc' = "exit"
  /\ UNCHANGED <<kernelVars, pinned, fd, id, next, low, prev, record>>

OpenMap ==
  /\ ppc = "start" /\ pinned # 0
  /\ ppc' = "first" /\ id' = pinned /\ BeginCollect(pinned)
  /\ UNCHANGED <<kernelVars, pinned, prev>>

(* map_collect, map_get_value_percpu_array and the lookup behind them: key *)
(* by key, CPU by CPU, rx_packets before rx_bytes, summed over the CPUs.   *)
Words == NumKeys * NumCpus * 2
KeyOf(n) == n \div (2 * NumCpus)
CpuOf(n) == (n \div 2) % NumCpus
MapCollect ==
  LET k == KeyOf(next)
      c == CpuOf(next)
  IN
  /\ ppc \in {"first", "collect"} /\ next < Words
  /\ record' = IF next % 2 = 0
               THEN [record EXCEPT ![k].packets = @ + count[fd][k][c].packets]
               ELSE [record EXCEPT ![k].bytes = @ + count[fd][k][c].bytes]
  /\ next' = next + 1
  /\ UNCHANGED <<kernelVars, pinned, ppc, fd, id, low, prev>>

(* The initial reading is complete.                                        *)
FirstDone ==
  /\ ppc = "first" /\ next = Words
  /\ ppc' = "loop"
  /\ UNCHANGED <<kernelVars, pinned, fd, id, next, low, prev, record>>

(* Top of the loop: the path is opened again.  EXIT_FAIL_BPF is positive,  *)
(* so main does not take it for an error and starts over.                  *)
ReopenFails ==
  /\ ppc = "loop" /\ pinned = 0
  /\ ppc' = "start" /\ prev' = record
  /\ UNCHANGED <<kernelVars, pinned, fd, id, next, low, record>>

SameMap_Any == TRUE   \* mutant: the id is not compared
SameMap == pinned = id
ReopenOther ==
  /\ ppc = "loop" /\ pinned # 0 /\ ~SameMap
  /\ ppc' = "start" /\ prev' = record
  /\ UNCHANGED <<kernelVars, pinned, fd, id, next, low, record>>

Reopen ==
  /\ ppc = "loop" /\ pinned # 0 /\ SameMap
  /\ ppc' = "collect" /\ prev' = record /\ BeginCollect(pinned)
  /\ UNCHANGED <<kernelVars, pinned, id>>

(* stats_print, close, sleep.                                              *)
StatsPrint ==
  /\ ppc = "collect" /\ next = Words
  /\ ppc' = "loop"
  /\ UNCHANGED <<kernelVars, pinned, fd, id, next, low, prev, record>>

Poll ==
  \/ OpenFails \/ OpenMap \/ FirstDone
  \/ ReopenFails \/ ReopenOther \/ Reopen \/ StatsPrint
  \/ MapCollect

Next ==
  \/ Load \/ Unload \/ Unpin
  \/ \E c \in CPUs : RecordBytes(c) \/ \E k \in Keys : RecordPackets(c, k)
  \/ Poll

Spec == Init /\ [][Next]_vars

(* xdp_stats keeps running: its sleeps end.                                *)
FairSpec == Spec /\ WF_vars(Poll)

-----------------------------------------------------------------------------
(* What stats_print shows never runs backwards: prev and record were read  *)
(* from the same map, although the path was opened again in between, so    *)
(* the unsigned subtraction cannot wrap.                                   *)
DeltasNotNegative ==
  ppc = "collect" /\ next = Words =>
    \A k \in Keys : /\ prev[k].packets <= record[k].packets
                    /\ prev[k].bytes <= record[k].bytes

(* A reading is a snapshot of no single moment, but every number in it is  *)
(* one that the counter had while it was being read: no packet is counted  *)
(* twice and none that was counted before the reading began is missed.     *)
ReadingInWindow ==
  ppc \in {"first", "collect"} /\ next = Words =>
    \A k \in Keys :
      /\ low[k].packets <= record[k].packets
      /\ record[k].packets <= Counted(fd)[k].packets
      /\ low[k].bytes <= record[k].bytes
      /\ record[k].bytes <= Counted(fd)[k].bytes

(* Once the pin no longer changes, the poller reads the map behind it or   *)
(* has ended because there is none: it never stays on a replaced map.      *)
FollowsPin ==
  \A m \in 0..MaxMaps :
    <>[](pinned = m) => <>[](ppc = "exit" \/ (id = m /\ fd = m))
=============================================================================
