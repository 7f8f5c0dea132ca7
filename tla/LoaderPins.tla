----------------------------- MODULE LoaderPins -----------------------------
(***************************************************************************)
(* xdp_loader (basic-solutions/xdp_loader.c): load and attach an XDP       *)
(* object, then export its maps by pinning them under /sys/fs/bpf/<dev>.   *)
(* Loaders are processes; several may run one after the other or at once.  *)
(* The pinning rules are those of lib/libbpf (bpf_map__pin and friends).   *)
(*                                                                         *)
(* A directory below /sys/fs/bpf is the sequence of its names: <<>> is the *)
(* root, <<d>> the directory of device d.  The map of name n that loader p *)
(* creates is <<p, n>>.                                                    *)
(***************************************************************************)
EXTENDS Sequences

CONSTANTS
  Loaders,     \* loader processes
  Dev,         \* Dev[p]: the --dev of loader p
  MapNames,    \* maps of the object
  Stats,       \* xdp_stats_map, one of them
  PinByName,   \* loaders whose object pins Stats by name (LIBBPF_PIN_BY_NAME)
  ReuseMaps    \* loaders started with --reuse-maps

ASSUME LoaderAssumption ==
  Stats \in MapNames /\ ReuseMaps \subseteq Loaders /\ PinByName \subseteq Loaders

NoFile == <<>>
Root == <<>>
PinDir(p) == <<Dev[p]>>
Dirs == {Root} \cup {PinDir(p) : p \in Loaders}
             \cup {<<Dev[p], Dev[p]>> : p \in Loaders}

VARIABLES
  lpc,       \* start, check, pin, rollback, ok, failed
  fs,        \* fs[d][n]: the map pinned as n in directory d
  mapId,     \* mapId[p][n]: the maps of p's object
  done,      \* maps bpf_object__pin_maps has pinned
  attached   \* loaders whose program is attached to their device

vars == <<lpc, fs, mapId, done, attached>>

-----------------------------------------------------------------------------
Init ==
  /\ lpc = [p \in Loaders |-> "start"]
  /\ fs = [d \in Dirs |-> [n \in MapNames |-> NoFile]]
  /\ mapId = [p \in Loaders |-> [n \in MapNames |-> NoFile]]
  /\ done = [p \in Loaders |-> {}]
  /\ attached = {}

ByName(p, n) == n = Stats /\ p \in PinByName

(* bpf_object__load: fresh maps; the one pinned by name is taken from the  *)
(* root directory if it is there and is pinned there otherwise.            *)
OwnMaps(p) ==
  [n \in MapNames |-> IF ByName(p, n) /\ fs[Root][Stats] # NoFile
                      THEN fs[Root][Stats] ELSE <<p, n>>]

AfterLoad(p) ==
  IF p \in PinByName THEN [fs EXCEPT ![Root][Stats] = OwnMaps(p)[Stats]] ELSE fs

(* load_bpf_and_xdp_attach.  The branch for --unload is empty, so that a   *)
(* loader called with it does the same.                                    *)
LoadAndAttach(p) ==
  /\ lpc[p] = "start"
  /\ mapId' = [mapId EXCEPT ![p] = OwnMaps(p)]
  /\ fs' = AfterLoad(p)
  /\ attached' = attached \cup {p}
  /\ lpc' = [lpc EXCEPT ![p] = IF p \in ReuseMaps THEN "ok" ELSE "check"]
  /\ UNCHANGED done

(* The object cannot be loaded, or is loaded and cannot be attached.       *)
LoadFails(p) ==
  /\ lpc[p] = "start"
  /\ lpc' = [lpc EXCEPT ![p] = "failed"]
  /\ fs' \in {fs, AfterLoad(p)}
  /\ UNCHANGED <<mapId, done, attached>>

(* bpf_object__unpin_maps for the device's directory: the files of gone    *)
(* are removed, up to the first map that has another pin path or no file.  *)
Unremovable(p, n) == ByName(p, n) \/ fs[PinDir(p)][n] = NoFile
UnpinMaps(p, gone) ==
  /\ \A n \in gone : ~Unremovable(p, n)
  /\ gone # MapNames => \E n \in MapNames \ gone : Unremovable(p, n)
  /\ fs' = [fs EXCEPT ![PinDir(p)] =
              [n \in MapNames |-> IF n \in gone THEN NoFile ELSE @[n]]]

(* pin_maps_in_bpf_object: the file that is looked for is                  *)
(* <pin_dir>/<ifname>/<map>, where pin_dir already ends in the ifname.     *)
LookedFor(p) == <<Dev[p], Dev[p]>>
CheckPrevious(p) ==
  /\ lpc[p] = "check"
  /\ IF fs[LookedFor(p)][Stats] = NoFile
     THEN lpc' = [lpc EXCEPT ![p] = "pin"] /\ UNCHANGED fs
     ELSE \E gone \in SUBSET MapNames :
            /\ UnpinMaps(p, gone)
            /\ lpc' = [lpc EXCEPT ![p] = IF gone = MapNames THEN "pin" ELSE "failed"]
  /\ UNCHANGED <<mapId, done, attached>>

(* bpf_map__pin: a map that has a pin path takes no other (EINVAL), and    *)
(* the file must not exist (EEXIST).                                       *)
CanPin(p, n) ==
  /\ ~ByName(p, n)
  /\ fs[PinDir(p)][n] = NoFile

PinMap(p, n) ==
  /\ lpc[p] = "pin" /\ n \notin done[p] /\ CanPin(p, n)
  /\ fs' = [fs EXCEPT ![PinDir(p)][n] = mapId[p][n]]
  /\ done' = [done EXCEPT ![p] = @ \cup {n}]
  /\ UNCHANGED <<lpc, mapId, attached>>

PinFails(p, n) ==
  /\ lpc[p] = "pin" /\ n \notin done[p] /\ ~CanPin(p, n)
  /\ lpc' = [lpc EXCEPT ![p] = "rollback"]
  /\ UNCHANGED <<fs, mapId, done, attached>>

(* err_unpin_maps: the maps pinned before the failing one are unlinked.    *)
RollbackSet_None(p) == {}  \* mutant: the earlier pins are left
RollbackSet(p) == done[p]
RollbackMap(p, n) ==
  /\ lpc[p] = "rollback" /\ n \in RollbackSet(p)
  /\ fs' = [fs EXCEPT ![PinDir(p)][n] = NoFile]
  /\ done' = [done EXCEPT ![p] = @ \ {n}]
  /\ UNCHANGED <<lpc, mapId, attached>>

Finish(p) ==
  /\ \/ lpc[p] = "pin" /\ done[p] = MapNames
        /\ lpc' = [lpc EXCEPT ![p] = "ok"]
     \/ lpc[p] = "rollback" /\ RollbackSet(p) = {}
        /\ lpc' = [lpc EXCEPT ![p] = "failed"]
  /\ UNCHANGED <<fs, mapId, done, attached>>

Next ==
  \E p \in Loaders :
    \/ LoadAndAttach(p) \/ LoadFails(p) \/ CheckPrevious(p) \/ Finish(p)
    \/ \E n \in MapNames : PinMap(p, n) \/ PinFails(p, n) \/ RollbackMap(p, n)

Spec == Init /\ [][Next]_vars

-----------------------------------------------------------------------------
(* The exit status is the truth: EXIT_OK without --reuse-maps means every  *)
(* map of the object is exported under the device, and a failed loader has *)
(* left none of its maps behind there, even with loaders side by side.     *)
ExitStatusTruthful ==
  \A p \in Loaders :
    /\ lpc[p] = "ok" /\ p \notin ReuseMaps =>
         \A n \in MapNames : fs[PinDir(p)][n] = mapId[p][n]
    /\ lpc[p] = "failed" =>
         \A n \in MapNames : fs[PinDir(p)][n] # NoFile => fs[PinDir(p)][n] # mapId[p][n]

(* "Use the --dev name as subdir for exporting/pinning maps": a loader     *)
(* that has attached its program and ended has exported its statistics.    *)
AttachedIsExported ==
  \A p \in Loaders \ ReuseMaps :
    p \in attached /\ lpc[p] \in {"ok", "failed"} =>
      fs[PinDir(p)][Stats] = mapId[p][Stats]
=============================================================================
