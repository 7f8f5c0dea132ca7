-------------------------- MODULE LoaderPins_proofs --------------------------
(***************************************************************************)
(* A loader's exit status tells what is exported, for any number of        *)
(* loaders, devices and maps and every interleaving of their steps.        *)
(*                                                                         *)
(* ExitStatusTruthful speaks of the end of a loader.  The invariant says   *)
(* on the way there who owns a file below the device directories: exactly  *)
(* the loader that counts it among the maps it has pinned.                 *)
(***************************************************************************)
EXTENDS LoaderPins, TLAPS

States == {"start", "check", "pin", "rollback", "ok", "failed"}
Files == {NoFile} \cup (Loaders \X MapNames)

LoaderTypes ==
  /\ lpc \in [Loaders -> States]
  /\ fs \in [Dirs -> [MapNames -> Files]]
  /\ mapId \in [Loaders -> [MapNames -> Files]]
  /\ done \in [Loaders -> SUBSET MapNames]

(* What a loader has pinned is its own map, and is there.                  *)
DoneIsPinned ==
  \A p \in Loaders : \A n \in done[p] :
    ~ByName(p, n) /\ mapId[p][n] = <<p, n>> /\ fs[PinDir(p)][n] = <<p, n>>

(* And whatever is there was pinned by the loader whose map it is, in its  *)
(* own directory.                                                          *)
PinnedIsDone ==
  \A p, q \in Loaders : \A n \in MapNames :
    fs[PinDir(p)][n] = <<q, n>> => n \in done[q] /\ PinDir(q) = PinDir(p)

(* Nothing ever gets into the directory below a device directory.          *)
NeverThere ==
  \A p \in Loaders : \A n \in MapNames : fs[LookedFor(p)][n] = NoFile

(* No map, or the map of a loader whose object pins it by name.            *)
NamedMap(f, n) == f = NoFile \/ \E r \in Loaders : ByName(r, n) /\ f = <<r, n>>
RootIsByName == \A n \in MapNames : NamedMap(fs[Root][n], n)

(* A loader's maps are its own or, if pinned by name, from the root.       *)
OwnMapIds ==
  \A p \in Loaders : \A n \in MapNames :
    /\ ByName(p, n) => NamedMap(mapId[p][n], n)
    /\ ~ByName(p, n) => mapId[p][n] \in {NoFile, <<p, n>>}
    /\ lpc[p] \in {"check", "pin", "rollback"} /\ ~ByName(p, n) => mapId[p][n] = <<p, n>>

Phases ==
  \A p \in Loaders :
    /\ lpc[p] \in {"start", "check", "failed"} => done[p] = {}
    /\ lpc[p] = "ok" /\ p \notin ReuseMaps => done[p] = MapNames

PinInv ==
  /\ LoaderTypes /\ DoneIsPinned /\ PinnedIsDone
  /\ NeverThere /\ RootIsByName /\ OwnMapIds /\ Phases

-----------------------------------------------------------------------------
(* The three kinds of directories are different.                           *)
LEMMA DirsDiffer ==
  ASSUME NEW p \in Loaders, NEW q \in Loaders
  PROVE  /\ PinDir(p) \in Dirs /\ LookedFor(p) \in Dirs /\ Root \in Dirs
         /\ PinDir(p) # Root /\ LookedFor(p) # Root /\ PinDir(p) # LookedFor(q)
<1>1. Len(PinDir(p)) = 1 /\ Len(LookedFor(p)) = 2 /\ Len(LookedFor(q)) = 2 /\ Len(Root) = 0
  BY DEF PinDir, LookedFor, Root
<1>2. PinDir(p) \in Dirs /\ LookedFor(p) \in Dirs /\ Root \in Dirs
  BY DEF Dirs, PinDir, LookedFor
<1>3. PinDir(p) # Root
  BY <1>1
<1>4. LookedFor(p) # Root
  BY <1>1
<1>5. PinDir(p) # LookedFor(q)
  BY <1>1
<1> QED BY <1>2, <1>3, <1>4, <1>5

(* A map is not the absence of one, and tells its loader.                  *)
LEMMA FilesDiffer ==
  ASSUME NEW p, NEW q, NEW n
  PROVE  <<p, n>> # NoFile /\ (<<p, n>> = <<q, n>> => p = q)
<1>1. Len(<<p, n>>) = 2 /\ Len(NoFile) = 0
  BY DEF NoFile
<1>2. <<p, n>>[1] = p /\ <<q, n>>[1] = q
  OBVIOUS
<1> QED BY <1>1, <1>2

(* Before the first loader runs nothing is pinned.                        *)
LEMMA PinInvInit == Init => PinInv
<1> SUFFICES ASSUME Init PROVE PinInv
  OBVIOUS
<1>1. LoaderTypes
  BY DEF Init, LoaderTypes, States, Files
<1>2. \A d \in Dirs, n \in MapNames : fs[d][n] = NoFile
  BY DEF Init
<1>3. \A p \in Loaders : PinDir(p) \in Dirs /\ LookedFor(p) \in Dirs
  BY DirsDiffer
<1>4. DoneIsPinned /\ Phases /\ OwnMapIds
  BY DEF Init, DoneIsPinned, Phases, OwnMapIds, NamedMap
<1>5. PinnedIsDone /\ NeverThere
  BY <1>2, <1>3, FilesDiffer DEF PinnedIsDone, NeverThere
<1>6. RootIsByName
  BY <1>2 DEF RootIsByName, NamedMap, Dirs
<1> QED BY <1>1, <1>4, <1>5, <1>6 DEF PinInv

(* Loading touches the root directory only.                                *)
LEMMA AfterLoadFiles ==
  ASSUME LoaderTypes, RootIsByName, NEW p \in Loaders
  PROVE  /\ OwnMaps(p) \in [MapNames -> Files]
         /\ \A n \in MapNames : IF ByName(p, n) THEN NamedMap(OwnMaps(p)[n], n)
                                  ELSE OwnMaps(p)[n] = <<p, n>>
         /\ \A n \in MapNames : NamedMap(AfterLoad(p)[Root][n], n)
         /\ AfterLoad(p) \in [Dirs -> [MapNames -> Files]]
         /\ \A q \in Loaders : /\ AfterLoad(p)[PinDir(q)] = fs[PinDir(q)]
                               /\ AfterLoad(p)[LookedFor(q)] = fs[LookedFor(q)]
<1>1. Root \in Dirs /\ fs[Root] \in [MapNames -> Files] /\ Stats \in MapNames
  BY DirsDiffer, LoaderAssumption DEF LoaderTypes
<1>2. OwnMaps(p) \in [MapNames -> Files]
  <2>1. \A n \in MapNames : <<p, n>> \in Files
    BY DEF Files
  <2>2. fs[Root][Stats] \in Files
    BY <1>1
  <2> QED BY <2>1, <2>2 DEF OwnMaps
<1>3. ASSUME NEW n \in MapNames
      PROVE  IF ByName(p, n) THEN NamedMap(OwnMaps(p)[n], n) ELSE OwnMaps(p)[n] = <<p, n>>
  <2>1. CASE ~ByName(p, n)
    BY <2>1 DEF OwnMaps
  <2>2. CASE ByName(p, n)
    <3>1. n = Stats
      BY <2>2 DEF ByName
    <3>2. OwnMaps(p)[n] = fs[Root][n] \/ OwnMaps(p)[n] = <<p, n>>
      BY <3>1 DEF OwnMaps
    <3> QED BY <2>2, <3>2 DEF RootIsByName, NamedMap
  <2> QED BY <2>1, <2>2
<1>4. AfterLoad(p) \in [Dirs -> [MapNames -> Files]]
  BY <1>1, <1>2 DEF AfterLoad, LoaderTypes
<1>5. \A d \in Dirs : d # Root => AfterLoad(p)[d] = fs[d]
  BY DEF AfterLoad, LoaderTypes
<1>6. ASSUME NEW n \in MapNames PROVE NamedMap(AfterLoad(p)[Root][n], n)
  <2>1. CASE p \in PinByName /\ n = Stats
    <3>1. AfterLoad(p)[Root][n] = OwnMaps(p)[n]
      BY <1>1, <2>1 DEF AfterLoad, LoaderTypes
    <3> QED BY <1>3, <2>1, <3>1 DEF ByName
  <2>2. CASE ~(p \in PinByName /\ n = Stats)
    <3>1. AfterLoad(p)[Root][n] = fs[Root][n]
      BY <1>1, <2>2 DEF AfterLoad, LoaderTypes
    <3> QED BY <3>1 DEF RootIsByName
  <2> QED BY <2>1, <2>2
<1> QED BY <1>2, <1>3, <1>4, <1>5, <1>6, DirsDiffer

(* Loading: the loader gets its maps and has pinned nothing yet.           *)
LEMMA LoadKeeps ==
  ASSUME PinInv, NEW p \in Loaders, LoadAndAttach(p) \/ LoadFails(p)
  PROVE  PinInv'
<1> USE DEF PinInv
<1>1. \A q \in Loaders : fs'[PinDir(q)] = fs[PinDir(q)] /\ fs'[LookedFor(q)] = fs[LookedFor(q)]
  BY AfterLoadFiles DEF LoadAndAttach, LoadFails
<1>2. /\ lpc[p] = "start" /\ done[p] = {} /\ UNCHANGED done
  BY DEF LoadAndAttach, LoadFails, Phases
<1>3. \A q \in Loaders : q # p => lpc'[q] = lpc[q] /\ mapId'[q] = mapId[q]
  BY DEF LoadAndAttach, LoadFails, LoaderTypes
<1>4. LoaderTypes'
  BY AfterLoadFiles DEF LoadAndAttach, LoadFails, LoaderTypes, States
<1>5. DoneIsPinned'
  <2> SUFFICES ASSUME NEW q \in Loaders, NEW n \in done[q]
               PROVE  /\ ~ByName(q, n) /\ mapId'[q][n] = <<q, n>>
                      /\ fs'[PinDir(q)][n] = <<q, n>>
    BY <1>2 DEF DoneIsPinned, PinDir, ByName
  <2>1. q # p
    BY <1>2
  <2> QED BY <1>1, <1>3, <2>1 DEF DoneIsPinned
<1>6. PinnedIsDone' /\ NeverThere'
  <2>1. /\ \A r, q \in Loaders : \A n \in MapNames :
             fs'[PinDir(r)][n] = <<q, n>> => n \in done'[q] /\ PinDir(q) = PinDir(r)
        /\ \A q \in Loaders : \A n \in MapNames : fs'[LookedFor(q)][n] = NoFile
    BY <1>1, <1>2 DEF PinnedIsDone, NeverThere
  <2> QED BY <2>1 DEF PinnedIsDone, NeverThere, PinDir, LookedFor
<1>7. \A n \in MapNames :
        \/ IF ByName(p, n) THEN NamedMap(mapId'[p][n], n) ELSE mapId'[p][n] = <<p, n>>
        \/ lpc'[p] = "failed" /\ mapId'[p][n] = mapId[p][n]
  BY AfterLoadFiles DEF LoadAndAttach, LoadFails, LoaderTypes
<1>8. OwnMapIds' /\ RootIsByName'
  <2>1. ASSUME NEW q \in Loaders, NEW n \in MapNames
        PROVE  /\ ByName(q, n) => NamedMap(mapId'[q][n], n)
               /\ ~ByName(q, n) => mapId'[q][n] \in {NoFile, <<q, n>>}
               /\ lpc'[q] \in {"check", "pin", "rollback"} /\ ~ByName(q, n) =>
                    mapId'[q][n] = <<q, n>>
    BY <1>3, <1>7 DEF OwnMapIds
  <2>2. \A n \in MapNames : NamedMap(fs'[Root][n], n)
    BY AfterLoadFiles DEF LoadAndAttach, LoadFails, RootIsByName
  <2> QED BY <2>1, <2>2 DEF OwnMapIds, RootIsByName, NamedMap, Root, NoFile, ByName
<1>9. Phases'
  <2>1. lpc'[p] \in {"check", "failed"} \/ (lpc'[p] = "ok" /\ p \in ReuseMaps)
    BY DEF LoadAndAttach, LoadFails, LoaderTypes
  <2> QED BY <1>2, <1>3, <2>1 DEF Phases
<1> QED BY <1>4, <1>5, <1>6, <1>8, <1>9

(* The search for a previous program's maps never finds any.              *)
LEMMA CheckKeeps == ASSUME PinInv, NEW p \in Loaders, CheckPrevious(p) PROVE PinInv'
<1> USE DEF PinInv
<1>1. fs[LookedFor(p)][Stats] = NoFile
  BY LoaderAssumption DEF NeverThere
<1>2. lpc[p] = "check" /\ lpc' = [lpc EXCEPT ![p] = "pin"] /\ UNCHANGED <<fs, mapId, done>>
  BY <1>1 DEF CheckPrevious
<1>3. /\ lpc' \in [Loaders -> States] /\ lpc'[p] = "pin"
      /\ \A q \in Loaders : q # p => lpc'[q] = lpc[q]
  BY <1>2 DEF LoaderTypes, States
<1>4. LoaderTypes' /\ DoneIsPinned' /\ PinnedIsDone' /\ NeverThere'
  BY <1>2, <1>3 DEF LoaderTypes, DoneIsPinned, PinnedIsDone, NeverThere, PinDir,
                    LookedFor, ByName
<1>5. OwnMapIds' /\ Phases'
  BY <1>2, <1>3 DEF OwnMapIds, Phases, ByName, NamedMap
<1>6. RootIsByName'
  BY <1>2 DEF RootIsByName, ByName, NamedMap, Root, NoFile
<1> QED BY <1>4, <1>5, <1>6

(* Pinning one map needs a free file, so no other loader's is replaced.    *)
LEMMA PinKeeps ==
  ASSUME PinInv, NEW p \in Loaders, NEW n \in MapNames, PinMap(p, n) PROVE PinInv'
<1> USE DEF PinInv
<1>1. /\ lpc[p] = "pin" /\ n \notin done[p] /\ UNCHANGED <<lpc, mapId>>
      /\ ~ByName(p, n) /\ fs[PinDir(p)][n] = NoFile /\ mapId[p][n] = <<p, n>>
  BY DEF PinMap, CanPin, OwnMapIds
<1>2. /\ done'[p] = done[p] \cup {n} /\ \A q \in Loaders : q # p => done'[q] = done[q]
  BY DEF PinMap, LoaderTypes
<1>3. /\ fs'[PinDir(p)][n] = <<p, n>>
      /\ \A d \in Dirs, m \in MapNames : d # PinDir(p) \/ m # n => fs'[d][m] = fs[d][m]
  BY <1>1, DirsDiffer DEF PinMap, LoaderTypes
<1>4. LoaderTypes'
  <2>1. <<p, n>> \in Files
    BY DEF Files
  <2> QED BY <1>1, <2>1, DirsDiffer DEF PinMap, LoaderTypes
<1>5. DoneIsPinned'
  <2> SUFFICES ASSUME NEW q \in Loaders, NEW m \in done'[q]
               PROVE  /\ ~ByName(q, m) /\ mapId[q][m] = <<q, m>>
                      /\ fs'[PinDir(q)][m] = <<q, m>>
    BY <1>1 DEF DoneIsPinned, PinDir, ByName
  <2>0. m \in MapNames
    BY <1>4 DEF LoaderTypes
  <2>1. CASE q = p /\ m = n
    BY <1>1, <1>3, <2>1
  <2>2. CASE ~(q = p /\ m = n)
    <3>1. m \in done[q]
      BY <1>2, <2>2
    <3>2. ~ByName(q, m) /\ mapId[q][m] = <<q, m>> /\ fs[PinDir(q)][m] = <<q, m>>
      BY <3>1 DEF DoneIsPinned
    <3>3. PinDir(q) # PinDir(p) \/ m # n
      BY <1>1, <3>2, FilesDiffer
    <3> QED BY <1>3, <2>0, <3>2, <3>3, DirsDiffer
  <2> QED BY <2>1, <2>2
<1>6. PinnedIsDone'
  <2> SUFFICES ASSUME NEW r \in Loaders, NEW q \in Loaders, NEW m \in MapNames,
                      fs'[PinDir(r)][m] = <<q, m>>
               PROVE  m \in done'[q] /\ PinDir(q) = PinDir(r)
    BY DEF PinnedIsDone, PinDir
  <2>1. CASE PinDir(r) = PinDir(p) /\ m = n
    BY <1>2, <1>3, <2>1, FilesDiffer
  <2>2. CASE PinDir(r) # PinDir(p) \/ m # n
    BY <1>2, <1>3, <2>2, DirsDiffer DEF PinnedIsDone
  <2> QED BY <2>1, <2>2
<1>7. NeverThere' /\ RootIsByName'
  <2>1. \A m \in MapNames : fs'[Root][m] = fs[Root][m]
    BY <1>3, DirsDiffer
  <2>2. \A q \in Loaders : \A m \in MapNames : fs'[LookedFor(q)][m] = NoFile
    BY <1>3, DirsDiffer DEF NeverThere
  <2> QED BY <2>1, <2>2 DEF NeverThere, LookedFor, RootIsByName, NamedMap, Root, ByName
<1>8. OwnMapIds' /\ Phases'
  BY <1>1, <1>2 DEF OwnMapIds, Phases, ByName, NamedMap
<1> QED BY <1>4, <1>5, <1>6, <1>7, <1>8

(* Rolling back removes the loader's own files only.                       *)
LEMMA RollbackKeeps ==
  ASSUME PinInv, NEW p \in Loaders, NEW n \in MapNames, RollbackMap(p, n) PROVE PinInv'
<1> USE DEF PinInv
<1>1. /\ lpc[p] = "rollback" /\ n \in done[p] /\ UNCHANGED <<lpc, mapId>>
      /\ ~ByName(p, n) /\ fs[PinDir(p)][n] = <<p, n>>
  BY DEF RollbackMap, RollbackSet, DoneIsPinned
<1>2. /\ done'[p] = done[p] \ {n} /\ \A q \in Loaders : q # p => done'[q] = done[q]
  BY DEF RollbackMap, LoaderTypes
<1>3. /\ fs'[PinDir(p)][n] = NoFile
      /\ \A d \in Dirs, m \in MapNames : d # PinDir(p) \/ m # n => fs'[d][m] = fs[d][m]
  BY DirsDiffer DEF RollbackMap, LoaderTypes
<1>4. LoaderTypes'
  BY <1>1, DirsDiffer DEF RollbackMap, LoaderTypes, Files
<1>5. DoneIsPinned'
  <2> SUFFICES ASSUME NEW q \in Loaders, NEW m \in done'[q]
               PROVE  /\ ~ByName(q, m) /\ mapId[q][m] = <<q, m>>
                      /\ fs'[PinDir(q)][m] = <<q, m>>
    BY <1>1 DEF DoneIsPinned, PinDir, ByName
  <2>1. m \in done[q] /\ m \in MapNames /\ ~(q = p /\ m = n)
    BY <1>2, <1>4 DEF LoaderTypes
  <2>2. ~ByName(q, m) /\ mapId[q][m] = <<q, m>> /\ fs[PinDir(q)][m] = <<q, m>>
    BY <2>1 DEF DoneIsPinned
  <2>3. PinDir(q) # PinDir(p) \/ m # n
    BY <1>1, <2>1, <2>2, FilesDiffer
  <2> QED BY <1>3, <2>1, <2>2, <2>3, DirsDiffer
<1>6. PinnedIsDone'
  <2> SUFFICES ASSUME NEW r \in Loaders, NEW q \in Loaders, NEW m \in MapNames,
                      fs'[PinDir(r)][m] = <<q, m>>
               PROVE  m \in done'[q] /\ PinDir(q) = PinDir(r)
    BY DEF PinnedIsDone, PinDir
  <2>1. PinDir(r) # PinDir(p) \/ m # n
    BY <1>3, FilesDiffer
  <2>2. fs[PinDir(r)][m] = <<q, m>>
    BY <1>3, <2>1, DirsDiffer
  <2>3. m \in done[q] /\ PinDir(q) = PinDir(r)
    BY <2>2 DEF PinnedIsDone
  <2>4. ~(q = p /\ m = n)
    BY <2>1, <2>3
  <2> QED BY <1>2, <2>3, <2>4
<1>7. NeverThere' /\ RootIsByName'
  <2>1. \A m \in MapNames : fs'[Root][m] = fs[Root][m]
    BY <1>3, DirsDiffer
  <2>2. \A q \in Loaders : \A m \in MapNames : fs'[LookedFor(q)][m] = NoFile
    BY <1>3, DirsDiffer DEF NeverThere
  <2> QED BY <2>1, <2>2 DEF NeverThere, LookedFor, RootIsByName, NamedMap, Root, ByName
<1>8. OwnMapIds' /\ Phases'
  BY <1>1, <1>2 DEF OwnMapIds, Phases, ByName, NamedMap
<1> QED BY <1>4, <1>5, <1>6, <1>7, <1>8

(* Steps that only move the program counter.                               *)
LEMMA CounterKeeps ==
  ASSUME PinInv, NEW p \in Loaders,
         Finish(p) \/ \E n \in MapNames : PinFails(p, n)
  PROVE  PinInv'
<1> USE DEF PinInv
<1>1. UNCHANGED <<fs, mapId, done>>
  BY DEF Finish, PinFails
<1>2. PICK s \in {"ok", "failed", "rollback"} :
        /\ lpc' = [lpc EXCEPT ![p] = s]
        /\ lpc[p] \in {"pin", "rollback"}
        /\ s = "ok" => done[p] = MapNames
        /\ s = "failed" => done[p] = {}
  BY DEF Finish, PinFails, RollbackSet
<1>3. /\ lpc' \in [Loaders -> States] /\ lpc'[p] = s
      /\ \A q \in Loaders : q # p => lpc'[q] = lpc[q]
  BY <1>2 DEF LoaderTypes, States
<1>4. LoaderTypes' /\ DoneIsPinned'
  BY <1>1, <1>3 DEF LoaderTypes, DoneIsPinned, PinDir, ByName
<1>5. PinnedIsDone' /\ NeverThere' /\ RootIsByName'
  BY <1>1 DEF PinnedIsDone, NeverThere, PinDir, LookedFor, RootIsByName, NamedMap,
              Root, NoFile, ByName
<1>6. OwnMapIds'
  BY <1>1, <1>2, <1>3 DEF OwnMapIds, ByName, NamedMap
<1>7. Phases'
  BY <1>1, <1>2, <1>3 DEF Phases
<1> QED BY <1>4, <1>5, <1>6, <1>7

(* Every step keeps the invariant.                                         *)
LEMMA PinInvNext == PinInv /\ [Next]_vars => PinInv'
<1> SUFFICES ASSUME PinInv, [Next]_vars PROVE PinInv'
  OBVIOUS
<1>1. CASE UNCHANGED vars
  BY <1>1 DEF vars, PinInv, LoaderTypes, DoneIsPinned, PinnedIsDone, NeverThere,
              RootIsByName, OwnMapIds, Phases, PinDir, LookedFor, Root, NamedMap, ByName
<1>2. CASE Next
  <2>1. PICK p \in Loaders :
          \/ LoadAndAttach(p) \/ LoadFails(p) \/ CheckPrevious(p) \/ Finish(p)
          \/ \E n \in MapNames : PinMap(p, n) \/ PinFails(p, n) \/ RollbackMap(p, n)
    BY <1>2 DEF Next
  <2> QED BY <2>1, LoadKeeps, CheckKeeps, PinKeeps, RollbackKeeps, CounterKeeps
<1> QED BY <1>1, <1>2

(* xdp_loader's exit status: EXIT_OK without --reuse-maps means that every *)
(* map of the object is pinned below the device's directory, a failure     *)
(* that none is, whatever other loaders do at the same time.               *)
THEOREM ExitStatus == Spec => []ExitStatusTruthful
<1>1. PinInv => ExitStatusTruthful
  <2> SUFFICES ASSUME PinInv, NEW p \in Loaders, NEW n \in MapNames
               PROVE  /\ lpc[p] = "ok" /\ p \notin ReuseMaps =>
                           fs[PinDir(p)][n] = mapId[p][n]
                      /\ lpc[p] = "failed" =>
                           (fs[PinDir(p)][n] # NoFile => fs[PinDir(p)][n] # mapId[p][n])
    BY DEF ExitStatusTruthful
  <2>1. ASSUME lpc[p] = "ok", p \notin ReuseMaps
        PROVE  fs[PinDir(p)][n] = mapId[p][n]
    BY <2>1 DEF PinInv, Phases, DoneIsPinned
  <2>2. ASSUME lpc[p] = "failed", fs[PinDir(p)][n] # NoFile,
               fs[PinDir(p)][n] = mapId[p][n]
        PROVE  FALSE
    <3>1. CASE ~ByName(p, n)
      <4>1. mapId[p][n] = <<p, n>> /\ done[p] = {}
        BY <2>2, <3>1 DEF PinInv, OwnMapIds, Phases
      <4> QED BY <2>2, <4>1 DEF PinInv, PinnedIsDone
    <3>2. CASE ByName(p, n)
      <4>1. PICK r \in Loaders : ByName(r, n) /\ fs[PinDir(p)][n] = <<r, n>>
        BY <2>2, <3>2 DEF PinInv, OwnMapIds, NamedMap
      <4>2. n \in done[r]
        BY <4>1 DEF PinInv, PinnedIsDone
      <4> QED BY <4>1, <4>2 DEF PinInv, DoneIsPinned
    <3> QED BY <3>1, <3>2
  <2> QED BY <2>1, <2>2
<1> QED BY PinInvInit, PinInvNext, <1>1, PTL DEF Spec
=============================================================================
