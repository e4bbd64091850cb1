-------------------------- MODULE MmioDriverProofs --------------------------
(***************************************************************************)
(* Theorems about MmioDriver, for any number of zones, any set of requests *)
(* and any address pools.                                                  *)
(***************************************************************************)
EXTENDS MmioDriver, FiniteSetTheorems, TLAPS

-----------------------------------------------------------------------------
(***************************************************************************)
(* The inductive invariant.  The chain sysAddrBase - pMdl -                *)
(* usermodeAddrBase of a zone in use is live from end to end, a free zone  *)
(* has no user-mode address (its pMdl may be anything: that is the freed   *)
(* address a failed map leaves), and the kernel's live resources and the   *)
(* program's pointers are exactly the ones the zones in use name.          *)
(***************************************************************************)
FreeZonesBlank ==
  \A i \in Zones : IsFree(i) => mapZone[i].usermodeAddrBase = NULL

ChainLive(i) ==
  LET z == mapZone[i] IN
    /\ z.sysAddrBase \in SysAddrs /\ z.pMdl \in Mdls /\ z.usermodeAddrBase \in UserAddrs
    /\ ioSpace[z.sysAddrBase] \in Ranges
    /\ mdl[z.pMdl] = z.sysAddrBase
    /\ userView[z.usermodeAddrBase] = z.pMdl

ChainsLive == \A i \in InUse : ChainLive(i)

SysOwned  == \A a \in SysAddrs : ioSpace[a] # NULL => \E i \in InUse : mapZone[i].sysAddrBase = a
MdlOwned  == \A a \in Mdls : mdl[a] # NULL => \E i \in InUse : mapZone[i].pMdl = a
UserOwned == \A a \in UserAddrs :
               userView[a] # NULL => \E i \in InUse : mapZone[i].usermodeAddrBase = a

SysDistinct ==
  \A i, j \in InUse : mapZone[i].sysAddrBase = mapZone[j].sysAddrBase => i = j

ViewOf(i) == [ptr |-> mapZone[i].usermodeAddrBase, range |-> ioSpace[mapZone[i].sysAddrBase]]

ViewsAreZones == views = {ViewOf(i) : i \in InUse}

IInv == /\ TypeOK
        /\ ~bugcheck
        /\ handle => device
        /\ ~handle => InUse = {}
        /\ FreeZonesBlank
        /\ ChainsLive
        /\ SysOwned /\ MdlOwned /\ UserOwned
        /\ SysDistinct
        /\ ViewsAreZones

-----------------------------------------------------------------------------
(***************************************************************************)
(* Lemmas about the zones.                                                 *)
(***************************************************************************)

\* The three addresses of a zone in use belong to that zone alone.
LEMMA ChainsDistinct ==
  ASSUME ChainsLive, SysDistinct, NEW i \in InUse, NEW j \in InUse, i # j
  PROVE  /\ mapZone[i].sysAddrBase # mapZone[j].sysAddrBase
         /\ mapZone[i].pMdl # mapZone[j].pMdl
         /\ mapZone[i].usermodeAddrBase # mapZone[j].usermodeAddrBase
  BY DEF ChainsLive, ChainLive, SysDistinct

\* Rewriting a free zone so that it stays free and blank: what every failing
\* path of MapMmio does.
LEMMA FreeZoneEdit ==
  ASSUME IInv,
         NEW i \in Zones, IsFree(i),
         NEW z \in MapZoneType, z.sysAddrBase = NULL, z.usermodeAddrBase = NULL,
         mapZone' = [mapZone EXCEPT ![i] = z],
         UNCHANGED <<device, handle, kernelVars, views>>,
         status' \in Statuses
  PROVE  IInv'
<1> USE DEF IInv
<1>1. TypeOK'
  BY DEF TypeOK, kernelVars
<1>2. /\ InUse' = InUse
      /\ \A j \in InUse : mapZone'[j] = mapZone[j]
  BY DEF TypeOK, InUse, IsFree
<1>3. FreeZonesBlank'
  BY DEF TypeOK, FreeZonesBlank, IsFree
<1>4. ChainsLive'
  BY <1>2 DEF ChainsLive, ChainLive, kernelVars
<1>5. SysOwned' /\ MdlOwned' /\ UserOwned'
  BY <1>2 DEF SysOwned, MdlOwned, UserOwned, kernelVars
<1>6. SysDistinct'
  BY <1>2 DEF SysDistinct
<1>7. ViewsAreZones'
  BY <1>2 DEF ViewsAreZones, ViewOf, kernelVars
<1>. QED
  BY <1>1, <1>2, <1>3, <1>4, <1>5, <1>6, <1>7 DEF kernelVars

\* CleanupMmioMapping on zones in use, with the program's pointers to exactly
\* those zones dropped: what UnmapMmio and DispatchClose do.
LEMMA CleanupKeepsIInv ==
  ASSUME IInv,
         NEW S \in SUBSET InUse,
         CleanupMmioMapping(S),
         views' = {ViewOf(i) : i \in InUse \ S},
         device' = device, handle' \in BOOLEAN, handle' => handle, ~handle' => S = InUse,
         status' \in Statuses
  PROVE  IInv'
<1> USE DEF IInv
<1> DEFINE Kept == InUse \ S
<1>1. S \subseteq Zones /\ InUse \subseteq Zones
  BY DEF InUse
<1>2. /\ InUse' = Kept
      /\ \A j \in Kept : mapZone'[j] = mapZone[j]
  BY <1>1, NullAssumption DEF CleanupMmioMapping, ReleasedZone, InUse, IsFree, FreeZone, TypeOK
<1>3. \A i \in Kept : /\ mapZone[i].sysAddrBase \notin HeldSys(S)
                      /\ mapZone[i].pMdl \notin HeldMdls(S)
                      /\ mapZone[i].usermodeAddrBase \notin HeldUser(S)
  BY ChainsDistinct DEF HeldSys, HeldMdls, HeldUser
<1>4. TypeOK'
  <2>1. mapZone' \in [Zones -> MapZoneType]
    <3>1. \A i \in S : ReleasedZone(i) \in MapZoneType
      BY <1>1, LimitsAssumption DEF FreeZone, ReleasedZone, MapZoneType, TypeOK
    <3>. QED
      BY <1>1, <3>1 DEF CleanupMmioMapping, TypeOK, InUse
  <2>2. /\ ioSpace' \in [SysAddrs -> Ranges \cup {NULL}]
        /\ mdl' \in [Mdls -> SysAddrs \cup {NULL}]
        /\ userView' \in [UserAddrs -> Mdls \cup {NULL}]
        /\ bugcheck' \in BOOLEAN
    BY DEF CleanupMmioMapping, TypeOK
  <2>3. views' \subseteq [ptr : UserAddrs, range : Ranges]
    BY DEF ViewOf, ChainsLive, ChainLive
  <2>4. device' \in BOOLEAN /\ handle' \in BOOLEAN
    BY DEF TypeOK
  <2>. QED
    BY <2>1, <2>2, <2>3, <2>4 DEF TypeOK
<1>5. ~bugcheck'
  <2>1. \A i \in S : ChainLive(i)
    BY DEF ChainsLive
  <2>2. ~BadRelease(S)
    BY <2>1, ChainsDistinct, NullAssumption
       DEF BadRelease, HeldSys, HeldMdls, HeldUser, ChainLive
  <2>. QED
    BY <2>2 DEF CleanupMmioMapping
<1>6. FreeZonesBlank'
  BY <1>1 DEF FreeZonesBlank, CleanupMmioMapping, ReleasedZone, FreeZone, IsFree, InUse
<1>7. ChainsLive'
  BY <1>2, <1>3 DEF ChainsLive, ChainLive, CleanupMmioMapping
<1>8. SysOwned' /\ MdlOwned' /\ UserOwned'
  <2>1. SysOwned'
    <3>. SUFFICES ASSUME NEW a \in SysAddrs, ioSpace'[a] # NULL
                  PROVE  \E i \in Kept : mapZone[i].sysAddrBase = a
      BY <1>2 DEF SysOwned
    <3>1. a \notin HeldSys(S) /\ ioSpace[a] # NULL
      BY DEF CleanupMmioMapping
    <3>. QED
      BY <3>1, NullAssumption DEF SysOwned, HeldSys
  <2>2. MdlOwned'
    <3>. SUFFICES ASSUME NEW a \in Mdls, mdl'[a] # NULL
                  PROVE  \E i \in Kept : mapZone[i].pMdl = a
      BY <1>2 DEF MdlOwned
    <3>1. a \notin HeldMdls(S) /\ mdl[a] # NULL
      BY DEF CleanupMmioMapping
    <3>. QED
      BY <3>1, NullAssumption DEF MdlOwned, HeldMdls
  <2>3. UserOwned'
    <3>. SUFFICES ASSUME NEW a \in UserAddrs, userView'[a] # NULL
                  PROVE  \E i \in Kept : mapZone[i].usermodeAddrBase = a
      BY <1>2 DEF UserOwned
    <3>1. a \notin HeldUser(S) /\ userView[a] # NULL
      BY DEF CleanupMmioMapping
    <3>. QED
      BY <3>1, NullAssumption DEF UserOwned, HeldUser
  <2>. QED
    BY <2>1, <2>2, <2>3
<1>9. SysDistinct'
  BY <1>2 DEF SysDistinct
<1>10. ViewsAreZones'
  <2>1. \A i \in Kept : ViewOf(i)' = ViewOf(i)
    BY <1>2, <1>3 DEF ViewOf, CleanupMmioMapping, ChainsLive, ChainLive
  <2>. QED
    BY <1>2, <2>1 DEF ViewsAreZones
<1>. QED
  BY <1>2, <1>4, <1>5, <1>6, <1>7, <1>8, <1>9, <1>10
-----------------------------------------------------------------------------
(***************************************************************************)
(* IInv is inductive.                                                      *)
(***************************************************************************)
LEMMA InitIInv == Init => IInv
<1>. SUFFICES ASSUME Init PROVE IInv
  OBVIOUS
<1>1. InUse = {}
  BY DEF Init, InUse, IsFree, FreeZone
<1>2. TypeOK
  BY LimitsAssumption DEF Init, TypeOK, FreeZone, MapZoneType, Statuses
<1>. QED
  BY <1>1, <1>2 DEF IInv, Init, FreeZonesBlank, FreeZone, ChainsLive, SysOwned, MdlOwned,
                    UserOwned, SysDistinct, ViewsAreZones

LEMMA EntryIInv == IInv /\ DriverEntry => IInv'
<1>. SUFFICES ASSUME IInv, DriverEntry PROVE IInv'
  OBVIOUS
<1>1. InUse = {} /\ InUse' = {}
  BY DEF IInv, DriverEntry, InUse, IsFree, FreeZone
<1>2. TypeOK'
  BY LimitsAssumption
     DEF IInv, DriverEntry, TypeOK, FreeZone, MapZoneType, Statuses, kernelVars
<1>. QED
  BY <1>1, <1>2 DEF IInv, DriverEntry, FreeZonesBlank, FreeZone, ChainsLive, SysOwned,
                    MdlOwned, UserOwned, SysDistinct, ViewsAreZones, kernelVars

\* Steps that touch neither the zones nor the kernel's resources.
LEMMA QuietIInv ==
  ASSUME IInv, UNCHANGED <<mapZone, kernelVars, views>>,
         device' \in BOOLEAN, handle' \in BOOLEAN, status' \in Statuses,
         handle' => device', ~handle' => ~handle
  PROVE  IInv'
BY DEF IInv, TypeOK, InUse, IsFree, FreeZonesBlank, ChainsLive, ChainLive, SysOwned, MdlOwned,
       UserOwned, SysDistinct, ViewsAreZones, ViewOf, kernelVars

LEMMA MapIInv ==
  ASSUME IInv, NEW r \in Ranges, NEW i \in Zones, MapMmio(r, i)
  PROVE  IInv'
<1>. USE DEF IInv
<1>1. PICK s \in SysAddrs, m \in Mdls, u \in UserAddrs :
        /\ ioSpace[s] = NULL /\ mdl[m] = NULL /\ userView[u] = NULL
        /\ mapZone' = [mapZone EXCEPT ![i] =
                         [sysAddrBase |-> s, phyAddrStart |-> r.start, size |-> r.size,
                          usermodeAddrBase |-> u, pMdl |-> m]]
        /\ ioSpace' = [ioSpace EXCEPT ![s] = r]
        /\ mdl' = [mdl EXCEPT ![m] = s]
        /\ userView' = [userView EXCEPT ![u] = m]
        /\ views' = views \cup {[ptr |-> u, range |-> r]}
  BY DEF MapMmio
<1>2. handle /\ IsFree(i) /\ UNCHANGED <<device, handle, bugcheck>> /\ status' = "SUCCESS"
  BY DEF MapMmio, MapMmioAdmits, IsFirstFree
<1>3. /\ InUse' = InUse \cup {i}
      /\ i \notin InUse
      /\ \A j \in InUse : mapZone'[j] = mapZone[j]
  BY <1>1, <1>2, NullAssumption DEF InUse, IsFree, TypeOK
<1>4. /\ mapZone'[i].sysAddrBase = s
      /\ mapZone'[i].usermodeAddrBase = u
      /\ mapZone'[i].pMdl = m
  BY <1>1 DEF TypeOK
<1>5. \A j \in InUse : /\ mapZone[j].sysAddrBase # s
                      /\ mapZone[j].pMdl # m
                      /\ mapZone[j].usermodeAddrBase # u
  BY <1>1, NullAssumption DEF ChainsLive, ChainLive
<1>6. TypeOK'
  BY <1>1, <1>2, RangesAssumption DEF TypeOK, MapZoneType, Statuses
<1>7. FreeZonesBlank'
  BY <1>1, <1>4, NullAssumption DEF FreeZonesBlank, IsFree, TypeOK
<1>8. ChainsLive'
  <2>1. ChainLive(i)'
    BY <1>1, <1>4 DEF ChainLive, TypeOK
  <2>2. ASSUME NEW j \in InUse PROVE ChainLive(j)'
    BY <1>1, <1>3, <1>5 DEF ChainsLive, ChainLive, TypeOK
  <2>. QED
    BY <1>3, <2>1, <2>2 DEF ChainsLive
<1>9. SysOwned' /\ MdlOwned' /\ UserOwned'
  BY <1>1, <1>3, <1>4 DEF SysOwned, MdlOwned, UserOwned, TypeOK
<1>10. SysDistinct'
  BY <1>3, <1>4, <1>5 DEF SysDistinct
<1>11. ViewsAreZones'
  <2>1. ViewOf(i)' = [ptr |-> u, range |-> r]
    BY <1>1, <1>4 DEF ViewOf, TypeOK
  <2>2. \A j \in InUse : ViewOf(j)' = ViewOf(j)
    BY <1>1, <1>3, <1>5 DEF ViewOf, TypeOK, ChainsLive, ChainLive
  <2>. QED
    BY <1>1, <1>3, <2>1, <2>2 DEF ViewsAreZones
<1>. QED
  BY <1>2, <1>3, <1>6, <1>7, <1>8, <1>9, <1>10, <1>11

\* The pointer a program returns belongs to one zone in use.
LEMMA ReturnedZone ==
  ASSUME IInv, NEW v \in views
  PROVE  \E i \in InUse : v = ViewOf(i) /\ ZoneOf(v.ptr) = {i}
<1>. USE DEF IInv
<1>1. PICK i \in InUse : v = ViewOf(i)
  BY DEF ViewsAreZones
<1>2. v.ptr = mapZone[i].usermodeAddrBase /\ v.ptr \in UserAddrs
  BY <1>1 DEF ViewOf, ChainsLive, ChainLive
<1>3. \A j \in Zones : mapZone[j].usermodeAddrBase = v.ptr => j = i
  BY <1>2, ChainsDistinct, NullAssumption DEF FreeZonesBlank, InUse
<1>4. ZoneOf(v.ptr) = {i}
  BY <1>2, <1>3, ZonesAssumption DEF ZoneOf, InUse, Zones
<1>. QED
  BY <1>1, <1>4

LEMMA UnmapIInv ==
  ASSUME IInv, NEW v \in views, UnmapMmio(v)
  PROVE  IInv'
<1>1. PICK i \in InUse : v = ViewOf(i) /\ ZoneOf(v.ptr) = {i}
  BY ReturnedZone
<1>2. views' = {ViewOf(j) : j \in InUse \ {i}}
  <2>1. \A j \in InUse : j # i => ViewOf(j).ptr # ViewOf(i).ptr
    BY ChainsDistinct DEF IInv, ViewOf
  <2>2. \A j \in InUse : j # i => ViewOf(j) # v
    BY <1>1, <2>1
  <2>3. views = {ViewOf(j) : j \in InUse} /\ views' = views \ {v}
    BY DEF IInv, ViewsAreZones, UnmapMmio
  <2>. QED
    BY <1>1, <2>2, <2>3
<1>3. CleanupMmioMapping({i})
  BY <1>1 DEF UnmapMmio
<1>. QED
  BY <1>2, <1>3, CleanupKeepsIInv DEF UnmapMmio, Statuses, IInv, TypeOK

LEMMA CloseIInv ==
  ASSUME IInv, DispatchClose
  PROVE  IInv'
<1>1. views' = {ViewOf(i) : i \in InUse \ InUse}
  BY DEF DispatchClose
<1>. QED
  BY <1>1, CleanupKeepsIInv DEF DispatchClose, Statuses

LEMMA CrashIInv ==
  ASSUME IInv, UnmapMmioCrashes
  PROVE  IInv'
<1>1. InUse' = {}
  BY DEF UnmapMmioCrashes, InUse, IsFree, FreeZone
<1>2. TypeOK'
  BY LimitsAssumption DEF IInv, UnmapMmioCrashes, TypeOK, FreeZone, MapZoneType, Statuses
<1>. QED
  BY <1>1, <1>2 DEF IInv, UnmapMmioCrashes, FreeZonesBlank, FreeZone, ChainsLive, SysOwned,
                    MdlOwned, UserOwned, SysDistinct, ViewsAreZones

LEMMA NextIInv == IInv /\ [Next]_vars => IInv'
<1>. SUFFICES ASSUME IInv, [Next]_vars PROVE IInv'
  OBVIOUS
<1>1. CASE DriverEntry
  BY <1>1, EntryIInv
<1>2. CASE DriverEntryFails
  BY <1>2, QuietIInv DEF DriverEntryFails, Statuses, IInv, TypeOK
<1>3. CASE DispatchCreate
  BY <1>3, QuietIInv DEF DispatchCreate, Statuses, IInv, TypeOK
<1>4. CASE DispatchUnload
  BY <1>4, QuietIInv DEF DispatchUnload, IInv, TypeOK
<1>5. CASE DispatchClose
  BY <1>5, CloseIInv
<1>6. ASSUME NEW r \in Ranges, MapMmioRefused(r) PROVE IInv'
  BY <1>6, QuietIInv DEF MapMmioRefused, Statuses, IInv, TypeOK
<1>7. ASSUME NEW r \in Ranges, NEW i \in Zones, MapMmioNoIoSpace(r, i) PROVE IInv'
  <2>. DEFINE z == [mapZone[i] EXCEPT !.sysAddrBase = NULL]
  <2>1. z \in MapZoneType /\ z.sysAddrBase = NULL /\ z.usermodeAddrBase = NULL
    BY <1>7 DEF MapMmioNoIoSpace, MapMmioAdmits, IsFirstFree, IsFree, IInv, TypeOK,
                FreeZonesBlank, MapZoneType
  <2>2. mapZone' = [mapZone EXCEPT ![i] = z]
    BY <1>7 DEF MapMmioNoIoSpace
  <2>. QED
    BY <1>7, <2>1, <2>2, FreeZoneEdit
       DEF MapMmioNoIoSpace, MapMmioAdmits, IsFirstFree, Statuses
<1>8. ASSUME NEW r \in Ranges, NEW i \in Zones, MapMmioNoMdl(r, i) PROVE IInv'
  <2>. DEFINE NoSys(y)  == [y EXCEPT !.sysAddrBase = NULL]
              NoPhys(y) == [y EXCEPT !.phyAddrStart = FourGB]
              NoMdl(y)  == [y EXCEPT !.pMdl = NULL]
              z == NoMdl(NoPhys(NoSys(mapZone[i])))
  <2>1. \A y \in MapZoneType : /\ NoSys(y) \in MapZoneType
                              /\ NoSys(y).sysAddrBase = NULL
                              /\ NoSys(y).usermodeAddrBase = y.usermodeAddrBase
    BY DEF MapZoneType
  <2>2. \A y \in MapZoneType : /\ NoPhys(y) \in MapZoneType
                              /\ NoPhys(y).sysAddrBase = y.sysAddrBase
                              /\ NoPhys(y).usermodeAddrBase = y.usermodeAddrBase
    BY LimitsAssumption DEF MapZoneType
  <2>3. \A y \in MapZoneType : /\ NoMdl(y) \in MapZoneType
                              /\ NoMdl(y).sysAddrBase = y.sysAddrBase
                              /\ NoMdl(y).usermodeAddrBase = y.usermodeAddrBase
    BY DEF MapZoneType
  <2>4. mapZone[i] \in MapZoneType /\ mapZone[i].usermodeAddrBase = NULL
    BY <1>8 DEF MapMmioNoMdl, MapMmioAdmits, IsFirstFree, IInv, TypeOK, FreeZonesBlank
  <2>5. mapZone' = [mapZone EXCEPT ![i] = z]
    BY <1>8, Zenon DEF MapMmioNoMdl, IInv, TypeOK
  <2>. HIDE DEF NoSys, NoPhys, NoMdl
  <2>6. z \in MapZoneType /\ z.sysAddrBase = NULL /\ z.usermodeAddrBase = NULL
    BY <2>1, <2>2, <2>3, <2>4
  <2>. HIDE DEF z
  <2>. QED
    BY <1>8, <2>5, <2>6, FreeZoneEdit DEF MapMmioNoMdl, MapMmioAdmits, IsFirstFree, Statuses
<1>9. ASSUME NEW r \in Ranges, NEW i \in Zones, MapMmioNoView(r, i) PROVE IInv'
  <2>1. PICK m \in Mdls : mapZone' = [mapZone EXCEPT ![i] = [FreeZone EXCEPT !.pMdl = m]]
    BY <1>9 DEF MapMmioNoView
  <2>. DEFINE z == [FreeZone EXCEPT !.pMdl = m]
  <2>2. z \in MapZoneType /\ z.sysAddrBase = NULL /\ z.usermodeAddrBase = NULL
    BY LimitsAssumption DEF FreeZone, MapZoneType
  <2>. QED
    BY <1>9, <2>1, <2>2, FreeZoneEdit DEF MapMmioNoView, MapMmioAdmits, IsFirstFree, Statuses
<1>10. ASSUME NEW r \in Ranges, NEW i \in Zones, MapMmio(r, i) PROVE IInv'
  BY <1>10, MapIInv
<1>11. ASSUME NEW v \in views, UnmapMmio(v) PROVE IInv'
  BY <1>11, UnmapIInv
<1>12. CASE UnmapMmioCrashes
  BY <1>12, CrashIInv
<1>13. CASE UNCHANGED vars
  BY <1>13, QuietIInv DEF vars, IInv, TypeOK
<1>. QED
  BY <1>1, <1>2, <1>3, <1>4, <1>5, <1>6, <1>7, <1>8, <1>9, <1>10, <1>11, <1>12, <1>13 DEF Next

LEMMA SpecIInv == Spec => []IInv
BY InitIInv, NextIInv, PTL DEF Spec

-----------------------------------------------------------------------------
(***************************************************************************)
(* The theorems.                                                           *)
(***************************************************************************)

\* The zones and the kernel objects keep their types.
THEOREM TypeCorrect == Spec => []TypeOK
<1>1. IInv => TypeOK
  BY DEF IInv
<1>. QED
  BY <1>1, SpecIInv, PTL

\* Whatever fails and in whatever order ranges are mapped, unmapped and the
\* device closed, the driver never frees a resource that is not live.
THEOREM NeverReleasesDead == Spec => []NoBadRelease
<1>1. IInv => NoBadRelease
  BY DEF IInv, NoBadRelease
<1>. QED
  BY <1>1, SpecIInv, PTL

\* Every live mapping, MDL and view is owned by exactly one zone in use.
THEOREM NeverLeaks == Spec => []NothingLeaks
<1>1. IInv => NothingLeaks
  BY ChainsDistinct DEF IInv, NothingLeaks, SysOwned, MdlOwned, UserOwned
<1>. QED
  BY <1>1, SpecIInv, PTL

\* A pointer the program holds reaches the range it was mapped for.
THEOREM PointersAreGood == Spec => []PointersReachTheirRange
<1>1. IInv => PointersReachTheirRange
  BY DEF IInv, PointersReachTheirRange, ViewsAreZones, ViewOf, ChainsLive, ChainLive
<1>. QED
  BY <1>1, SpecIInv, PTL

\* Closing the device leaves nothing mapped.
THEOREM CloseReleasesAll == Spec => []ClosedHoldsNothing
<1>1. IInv => ClosedHoldsNothing
  BY DEF IInv, ClosedHoldsNothing, SysOwned, MdlOwned, UserOwned
<1>. QED
  BY <1>1, SpecIInv, PTL

LEMMA InUseMatchesViews == IInv => ZonesMatchViews
<1>. SUFFICES ASSUME IInv PROVE ZonesMatchViews
  OBVIOUS
<1>. DEFINE f == [i \in InUse |-> ViewOf(i)]
<1>1. IsFiniteSet(InUse)
  <2>1. IsFiniteSet(0 .. MAX_MAPPED_MMIO - 1)
    BY ZonesAssumption, FS_Interval
  <2>. QED
    BY <2>1, FS_Subset DEF InUse, Zones
<1>2. \A i, j \in InUse : ViewOf(i) = ViewOf(j) => i = j
  <2>1. \A i, j \in InUse : ViewOf(i).ptr = ViewOf(j).ptr => i = j
    BY ChainsDistinct DEF IInv, ViewOf
  <2>. QED
    BY <2>1
<1>3. f \in [InUse -> views] /\ \A w \in views : \E i \in InUse : f[i] = w
  BY DEF IInv, ViewsAreZones
<1>4. \A i, j \in InUse : f[i] = f[j] => i = j
  BY <1>2
<1>. HIDE DEF f
<1>5. f \in Bijection(InUse, views)
  BY <1>3, <1>4 DEF Bijection, Injection, Surjection, IsInjective
<1>. QED
  BY <1>1, <1>5, FS_Bijection DEF ZonesMatchViews, ExistsBijection

\* No failed request costs a zone.
THEOREM CapacityKept == Spec => []ZonesMatchViews
BY InUseMatchesViews, SpecIInv, PTL

\* The pointers the program keeps lead to the same MDL and the same mapping
\* after every step of the driver.
THEOREM PointersUndisturbed == Spec => OnlyItsOwnPointer
<1>1. ASSUME IInv, [Next]_vars PROVE KeptPointersUndisturbed
  <2>1. CASE UNCHANGED kernelVars
    BY <2>1 DEF kernelVars, KeptPointersUndisturbed
  <2>2. CASE DispatchClose \/ UnmapMmioCrashes
    BY <2>2 DEF DispatchClose, UnmapMmioCrashes, KeptPointersUndisturbed
  <2>3. ASSUME NEW r \in Ranges, NEW i \in Zones, MapMmio(r, i) PROVE KeptPointersUndisturbed
    BY <1>1, <2>3, NullAssumption
       DEF KeptPointersUndisturbed, MapMmio, IInv, TypeOK, ViewsAreZones, ViewOf, ChainsLive, ChainLive
  <2>4. ASSUME NEW w \in views, UnmapMmio(w) PROVE KeptPointersUndisturbed
    <3>1. PICK i \in InUse : w = ViewOf(i) /\ ZoneOf(w.ptr) = {i}
      BY <1>1, ReturnedZone
    <3>2. ASSUME NEW v \in views \cap views'
          PROVE  \E j \in InUse : j # i /\ v = ViewOf(j)
      BY <1>1, <2>4, <3>1, <3>2 DEF IInv, ViewsAreZones, UnmapMmio
    <3>3. ASSUME NEW j \in InUse, j # i
          PROVE  /\ userView'[mapZone[j].usermodeAddrBase] = mapZone[j].pMdl
                 /\ userView[mapZone[j].usermodeAddrBase] = mapZone[j].pMdl
                 /\ mdl'[mapZone[j].pMdl] = mdl[mapZone[j].pMdl]
      <4>1. /\ mapZone[j].usermodeAddrBase \notin HeldUser({i})
            /\ mapZone[j].pMdl \notin HeldMdls({i})
        BY <1>1, <3>3, ChainsDistinct DEF IInv, HeldUser, HeldMdls
      <4>2. CleanupMmioMapping({i}) /\ ChainLive(j)
        BY <1>1, <2>4, <3>1, <3>3 DEF UnmapMmio, IInv, ChainsLive
      <4>. QED
        BY <4>1, <4>2 DEF CleanupMmioMapping, ChainLive
    <3>4. \A j \in InUse : ViewOf(j).ptr = mapZone[j].usermodeAddrBase
      BY DEF ViewOf
    <3>. QED
      BY <3>2, <3>3, <3>4 DEF KeptPointersUndisturbed
  <2>. QED
    BY <1>1, <2>1, <2>2, <2>3, <2>4
       DEF Next, vars, kernelVars, DriverEntry, DriverEntryFails, DispatchCreate, DispatchUnload,
           MapMmioRefused, MapMmioNoIoSpace, MapMmioNoMdl, MapMmioNoView
<1>2. IInv /\ [Next]_vars => [KeptPointersUndisturbed]_vars
  BY <1>1
<1>. QED
  BY <1>2, SpecIInv, PTL DEF Spec, OnlyItsOwnPointer

-----------------------------------------------------------------------------
(***************************************************************************)
(* The driver implements LeaseTable.  In a state of IInv the leases of the *)
(* refinement mapping are the pointers the program holds.                  *)
(***************************************************************************)
LEMMA FreeZoneMeansRoom ==
  ASSUME IInv, NEW i \in Zones, IsFree(i)
  PROVE  Cardinality(views) < MAX_MAPPED_MMIO
<1>1. IsFiniteSet(Zones) /\ Cardinality(Zones) = MAX_MAPPED_MMIO
  BY ZonesAssumption, FS_Interval DEF Zones
<1>2. /\ IsFiniteSet(Zones \ {i})
      /\ Cardinality(Zones \ {i}) = MAX_MAPPED_MMIO - 1
  BY <1>1, FS_RemoveElement
<1>3. InUse \subseteq Zones \ {i}
  BY DEF InUse
<1>4. IsFiniteSet(InUse) /\ Cardinality(InUse) <= MAX_MAPPED_MMIO - 1
  BY <1>2, <1>3, FS_Subset
<1>5. Cardinality(InUse) \in Nat
  BY <1>4, FS_CardinalityType
<1>6. Cardinality(InUse) = Cardinality(views)
  BY InUseMatchesViews DEF ZonesMatchViews
<1>. QED
  BY <1>4, <1>5, <1>6, ZonesAssumption

\* Every behaviour of the driver is a behaviour of the table of leases.
THEOREM ImplementsLeaseTable == Spec => ImplementsLeases
<1>. DEFINE mapped == {[ptr |-> mapZone[i].usermodeAddrBase,
                        range |-> ioSpace[mapZone[i].sysAddrBase]] : i \in InUse}
<1>1. IInv => mapped = views
  BY DEF IInv, ViewsAreZones, ViewOf
<1>2. Init => Leases!Init
  BY DEF Init, Leases!Init, InUse, IsFree, FreeZone
<1>3. ASSUME IInv, IInv', [Next]_vars
      PROVE  [Leases!Next]_(Leases!leaseVars)
  <2>1. mapped = views /\ mapped' = views'
    BY <1>1, <1>3 DEF IInv, ViewsAreZones, ViewOf
  <2>2. CASE DispatchCreate
    BY <2>1, <2>2 DEF DispatchCreate, Leases!Next, Leases!Open
  <2>3. CASE DispatchClose \/ UnmapMmioCrashes
    BY <2>1, <2>3 DEF DispatchClose, UnmapMmioCrashes, Leases!Next, Leases!Close
  <2>4. ASSUME NEW r \in Ranges, NEW i \in Zones, MapMmio(r, i) PROVE Leases!Next
    <3>1. handle /\ handle' = handle /\ IsFree(i)
      BY <2>4 DEF MapMmio, MapMmioAdmits, IsFirstFree
    <3>2. Cardinality(mapped) < MAX_MAPPED_MMIO
      BY <1>3, <2>1, <3>1, FreeZoneMeansRoom
    <3>3. PICK u \in UserAddrs : /\ userView[u] = NULL
                                /\ views' = views \cup {[ptr |-> u, range |-> r]}
      BY <2>4 DEF MapMmio
    <3>4. \A v \in views : v.ptr # u
      BY <1>3, <3>3, NullAssumption DEF IInv, ViewsAreZones, ViewOf, ChainsLive, ChainLive
    <3>5. Leases!Grant(u, r)
      <4>1. mapped' = mapped \cup {[ptr |-> u, range |-> r]}
        BY <2>1, <3>3
      <4>2. \A l \in mapped : l.ptr # u
        BY <2>1, <3>4
      <4>. QED
        BY <3>1, <3>2, <4>1, <4>2, Zenon DEF Leases!Grant, Leases!Cardinality, Cardinality
    <3>. QED
      BY <3>5 DEF Leases!Next
  <2>5. ASSUME NEW v \in views, UnmapMmio(v) PROVE Leases!Next
    BY <2>1, <2>5 DEF UnmapMmio, Leases!Next, Leases!Return
  <2>6. CASE UNCHANGED <<handle, views>>
    BY <2>1, <2>6 DEF Leases!leaseVars
  <2>. QED
    BY <1>3, <2>2, <2>3, <2>4, <2>5, <2>6
       DEF Next, vars, DriverEntry, DriverEntryFails, DispatchUnload,
           MapMmioRefused, MapMmioNoIoSpace, MapMmioNoMdl, MapMmioNoView
<1>. QED
  BY <1>2, <1>3, SpecIInv, PTL DEF Spec, ImplementsLeases, Leases!Spec
=============================================================================
