----------------------------- MODULE MmioDriver -----------------------------
(***************************************************************************)
(* The MMIO side of the kernel driver (driver/winflashrom.c) and of its    *)
(* user-mode wrapper (direct_io.c, map_physical_addr_range and             *)
(* unmap_physical_addr_range).                                             *)
(*                                                                         *)
(* The driver keeps MAX_MAPPED_MMIO zones.  Mapping a range takes three    *)
(* kernel resources one after the other - an I/O space mapping, an MDL     *)
(* that describes it, a user-mode view of that MDL - and each step may     *)
(* fail.  The kernel's allocators are external: they return any address    *)
(* that is not in use, freed ones included, or fail.                       *)
(*                                                                         *)
(* One program has the device open at a time (module DriverService shows   *)
(* why) and it is single-threaded, so an IOCTL runs alone and is one step. *)
(***************************************************************************)
EXTENDS Integers, FiniteSets

CONSTANTS
  MAX_MAPPED_MMIO,  \* number of zones in the device extension
  OneMB, FourGB_min_20MB, FourGB,   \* the limits of VerifyMmioAddressRange
  Ranges,           \* [start, size] requests of the program
  SysAddrs,         \* addresses MmMapIoSpace can return
  Mdls,             \* addresses IoAllocateMdl can return
  UserAddrs,        \* addresses MmMapLockedPagesSpecifyCache can return
  NULL

ASSUME ZonesAssumption == MAX_MAPPED_MMIO \in Nat \ {0}
ASSUME LimitsAssumption == OneMB \in Nat /\ FourGB_min_20MB \in Nat /\ FourGB \in Nat
ASSUME RangesAssumption ==
  \A r \in Ranges : r.start \in Nat /\ r.size \in Nat /\ r.start < FourGB
ASSUME NullAssumption ==
  NULL \notin SysAddrs /\ NULL \notin Mdls /\ NULL \notin UserAddrs /\ NULL \notin Ranges

VARIABLES
  device,     \* does the device object (and its symbolic link) exist
  handle,     \* is a file object open on the device
  mapZone,    \* DEVICE_EXTENSION.mapZone
  ioSpace,    \* external: the range each live I/O space mapping shows, or NULL
  mdl,        \* external: the system address each live MDL describes, or NULL
  userView,   \* external: the MDL each live user-mode view maps, or NULL
  bugcheck,   \* external: the kernel was asked to release what is not live
  views,      \* the pointers the program obtained and has not returned
  status      \* NTSTATUS of the last request

kernelVars == <<ioSpace, mdl, userView, bugcheck>>
vars == <<device, handle, mapZone, kernelVars, views, status>>

Zones == 0 .. MAX_MAPPED_MMIO - 1

FreeZone == [sysAddrBase |-> NULL, phyAddrStart |-> FourGB, size |-> 0,
             usermodeAddrBase |-> NULL, pMdl |-> NULL]

MapZoneType == [sysAddrBase      : SysAddrs \cup {NULL},
                phyAddrStart     : Nat,
                size             : Nat,
                usermodeAddrBase : UserAddrs \cup {NULL},
                pMdl             : Mdls \cup {NULL}]

Statuses == {"SUCCESS", "UNSUCCESSFUL", "INVALID_USER_BUFFER", "BUFFER_TOO_SMALL"}

(***************************************************************************)
(* Loading, opening and unloading.                                         *)
(***************************************************************************)
Init == /\ device = FALSE
        /\ handle = FALSE
        /\ mapZone = [i \in Zones |-> FreeZone]
        /\ ioSpace = [a \in SysAddrs |-> NULL]
        /\ mdl = [a \in Mdls |-> NULL]
        /\ userView = [a \in UserAddrs |-> NULL]
        /\ bugcheck = FALSE
        /\ views = {}
        /\ status = "SUCCESS"

\* IoCreateDevice or IoCreateSymbolicLink fails: the device does not stay and
\* the zones are not initialised.
DriverEntryFails == /\ ~device
                    /\ status' = "UNSUCCESSFUL"
                    /\ UNCHANGED <<device, handle, mapZone, kernelVars, views>>

DriverEntry == /\ ~device
               /\ device' = TRUE
               /\ mapZone' = [i \in Zones |-> FreeZone]
               /\ status' = "SUCCESS"
               /\ UNCHANGED <<handle, kernelVars, views>>

DispatchCreate == /\ device
                  /\ ~handle
                  /\ handle' = TRUE
                  /\ status' = "SUCCESS"
                  /\ UNCHANGED <<device, mapZone, kernelVars, views>>

\* Called when the service is stopped and no file object refers to the device.
DispatchUnload == /\ device
                  /\ ~handle
                  /\ device' = FALSE
                  /\ UNCHANGED <<handle, mapZone, kernelVars, views, status>>

(***************************************************************************)
(* IOCTL_MAP_MMIO.                                                         *)
(***************************************************************************)
IsFree(i) == mapZone[i].sysAddrBase = NULL
InUse == {i \in Zones : ~IsFree(i)}

\* (mutant) The search does not look at sysAddrBase.
IsFirstZone(i) == i = 0

\* The zone MapMmio's search stops at.
IsFirstFree(i) == IsFree(i) /\ \A j \in Zones : j < i => ~IsFree(j)

\* The three overlap tests of VerifyMmioAddressRange against a zone in use.
Collides(r, z) ==
  LET bottom == z.phyAddrStart
      top    == z.phyAddrStart + z.size
      end    == r.start + r.size
  IN  \/ r.start < bottom /\ end > bottom
      \/ r.start > bottom /\ end < top
      \/ r.start < top /\ end > top

VerifyMmioAddressRange(r) ==
  /\ ~(r.start > OneMB /\ r.start + r.size < FourGB_min_20MB)
  /\ ~(r.start > FourGB)
  /\ \A i \in Zones : mapZone[i].phyAddrStart # FourGB => ~Collides(r, mapZone[i])

\* The early returns: no free zone, a buffer the system cannot map, a range
\* the driver refuses.
MapMmioRefused(r) ==
  /\ handle
  /\ \/ /\ InUse = Zones
        /\ status' = "UNSUCCESSFUL"
     \/ /\ InUse # Zones
        /\ status' = "INVALID_USER_BUFFER"
     \/ /\ InUse # Zones
        /\ ~VerifyMmioAddressRange(r)
        /\ status' = "UNSUCCESSFUL"
  /\ UNCHANGED <<device, handle, mapZone, kernelVars, views>>

\* The request passed the checks and will use zone i.
MapMmioAdmits(r, i) == /\ handle
                       /\ IsFirstFree(i)
                       /\ VerifyMmioAddressRange(r)

\* MmMapIoSpace fails: only sysAddrBase was assigned, and it is still NULL.
MapMmioNoIoSpace(r, i) ==
  /\ MapMmioAdmits(r, i)
  /\ mapZone' = [mapZone EXCEPT ![i].sysAddrBase = NULL]
  /\ status' = "BUFFER_TOO_SMALL"
  /\ UNCHANGED <<device, handle, kernelVars, views>>

\* IoAllocateMdl fails: the I/O space mapping is released, pMdl holds NULL.
MapMmioNoMdl(r, i) ==
  /\ MapMmioAdmits(r, i)
  /\ \E s \in SysAddrs : ioSpace[s] = NULL
  /\ mapZone' = [mapZone EXCEPT ![i].sysAddrBase = NULL,
                                ![i].phyAddrStart = FourGB,
                                ![i].pMdl = NULL]
  /\ status' = "BUFFER_TOO_SMALL"
  /\ UNCHANGED <<device, handle, kernelVars, views>>

\* (mutant) The last error path forgets IoFreeMdl.
MapMmioNoViewKeepsMdl(r, i) ==
  /\ MapMmioAdmits(r, i)
  /\ \E s \in SysAddrs, m \in Mdls :
       /\ ioSpace[s] = NULL /\ mdl[m] = NULL
       /\ mdl' = [mdl EXCEPT ![m] = s]
       /\ mapZone' = [mapZone EXCEPT ![i] = [FreeZone EXCEPT !.pMdl = m]]
  /\ status' = "BUFFER_TOO_SMALL"
  /\ UNCHANGED <<device, handle, ioSpace, userView, bugcheck, views>>

\* MmMapLockedPagesSpecifyCache fails: MDL and I/O space mapping are released
\* and the zone is free again, but its pMdl keeps the address of the freed MDL.
MapMmioNoView(r, i) ==
  /\ MapMmioAdmits(r, i)
  /\ \E s \in SysAddrs : ioSpace[s] = NULL
  /\ \E m \in Mdls :
       /\ mdl[m] = NULL
       /\ mapZone' = [mapZone EXCEPT ![i] = [FreeZone EXCEPT !.pMdl = m]]
  /\ status' = "BUFFER_TOO_SMALL"
  /\ UNCHANGED <<device, handle, kernelVars, views>>

MapMmio(r, i) ==
  /\ MapMmioAdmits(r, i)
  /\ \E s \in SysAddrs, m \in Mdls, u \in UserAddrs :
       /\ ioSpace[s] = NULL /\ mdl[m] = NULL /\ userView[u] = NULL
       /\ mapZone' = [mapZone EXCEPT ![i] =
                        [sysAddrBase |-> s, phyAddrStart |-> r.start, size |-> r.size,
                         usermodeAddrBase |-> u, pMdl |-> m]]
       /\ ioSpace' = [ioSpace EXCEPT ![s] = r]
       /\ mdl' = [mdl EXCEPT ![m] = s]
       /\ userView' = [userView EXCEPT ![u] = m]
       /\ views' = views \cup {[ptr |-> u, range |-> r]}
  /\ status' = "SUCCESS"
  /\ UNCHANGED <<device, handle, bugcheck>>

(***************************************************************************)
(* IOCTL_UNMAP_MMIO and IRP_MJ_CLOSE.                                      *)
(***************************************************************************)
HeldSys(S)  == {mapZone[i].sysAddrBase : i \in S} \ {NULL}
HeldMdls(S) == {mapZone[i].pMdl : i \in S} \ {NULL}
HeldUser(S) == {mapZone[i].usermodeAddrBase : i \in S} \ {NULL}

\* A field naming a dead resource, or one resource named by two of the zones.
BadRelease(S) ==
  \/ \E a \in HeldSys(S) : ioSpace[a] = NULL
  \/ \E a \in HeldMdls(S) : mdl[a] = NULL
  \/ \E a \in HeldUser(S) : userView[a] = NULL
  \/ \E i, j \in S : i # j /\ mapZone[i].pMdl = mapZone[j].pMdl /\ mapZone[i].pMdl # NULL

\* phyAddrStart and size are reset only together with sysAddrBase.
ReleasedZone(i) ==
  [FreeZone EXCEPT !.phyAddrStart = IF IsFree(i) THEN mapZone[i].phyAddrStart ELSE FourGB,
                   !.size = IF IsFree(i) THEN mapZone[i].size ELSE 0]

\* CleanupMmioMapping on every zone of S.
CleanupMmioMapping(S) ==
  /\ mapZone' = [i \in Zones |->
       IF i \in S THEN ReleasedZone(i) ELSE mapZone[i]]
  /\ userView' = [a \in UserAddrs |-> IF a \in HeldUser(S) THEN NULL ELSE userView[a]]
  /\ mdl' = [a \in Mdls |-> IF a \in HeldMdls(S) THEN NULL ELSE mdl[a]]
  /\ ioSpace' = [a \in SysAddrs |-> IF a \in HeldSys(S) THEN NULL ELSE ioSpace[a]]
  /\ bugcheck' = (bugcheck \/ BadRelease(S))

\* (mutant) The first zone in use, whatever its pointer.
FirstInUse(p) == {i \in InUse : \A j \in InUse : i <= j}

\* UnmapMmio cleans the first zone whose user-mode address is the pointer it
\* was given, and succeeds whether or not there is one.
ZoneOf(p) == {i \in Zones : /\ mapZone[i].usermodeAddrBase = p
                            /\ \A j \in Zones : j < i => mapZone[j].usermodeAddrBase # p}

UnmapMmio(v) == /\ handle
                /\ v \in views
                /\ CleanupMmioMapping(ZoneOf(v.ptr))
                /\ views' = views \ {v}
                /\ status' = "SUCCESS"
                /\ UNCHANGED <<device, handle>>

\* MmGetSystemAddressForMdlSafe fails and UnmapMmio reads through the NULL it
\* returned: the machine goes down, and comes up with nothing loaded or mapped.
UnmapMmioCrashes == /\ handle
                    /\ views # {}
                    /\ device' = FALSE
                    /\ handle' = FALSE
                    /\ mapZone' = [i \in Zones |-> FreeZone]
                    /\ ioSpace' = [a \in SysAddrs |-> NULL]
                    /\ mdl' = [a \in Mdls |-> NULL]
                    /\ userView' = [a \in UserAddrs |-> NULL]
                    /\ views' = {}
                    /\ status' = "SUCCESS"
                    /\ UNCHANGED bugcheck

\* (mutant) The close loop cleans free zones too.
DispatchCloseAllZones == /\ handle
                         /\ handle' = FALSE
                         /\ CleanupMmioMapping(Zones)
                         /\ views' = {}
                         /\ status' = "SUCCESS"
                         /\ UNCHANGED device

\* The last handle goes away: the program closed it or died.  Zones it did not
\* unmap are cleaned up here.
DispatchClose == /\ handle
                 /\ handle' = FALSE
                 /\ CleanupMmioMapping(InUse)
                 /\ views' = {}
                 /\ status' = "SUCCESS"
                 /\ UNCHANGED device

Next ==
  \/ DriverEntry
  \/ DriverEntryFails
  \/ DispatchCreate
  \/ DispatchUnload
  \/ DispatchClose
  \/ \E r \in Ranges : MapMmioRefused(r)
  \/ \E r \in Ranges, i \in Zones : MapMmioNoIoSpace(r, i)
  \/ \E r \in Ranges, i \in Zones : MapMmioNoMdl(r, i)
  \/ \E r \in Ranges, i \in Zones : MapMmioNoView(r, i)
  \/ \E r \in Ranges, i \in Zones : MapMmio(r, i)
  \/ \E v \in views : UnmapMmio(v)
  \/ UnmapMmioCrashes

Spec == Init /\ [][Next]_vars

(***************************************************************************)
(* Properties.                                                             *)
(***************************************************************************)

\* The zones and the kernel objects keep their types.
TypeOK ==
  /\ device \in BOOLEAN
  /\ handle \in BOOLEAN
  /\ mapZone \in [Zones -> MapZoneType]
  /\ ioSpace \in [SysAddrs -> Ranges \cup {NULL}]
  /\ mdl \in [Mdls -> SysAddrs \cup {NULL}]
  /\ userView \in [UserAddrs -> Mdls \cup {NULL}]
  /\ bugcheck \in BOOLEAN
  /\ views \subseteq [ptr : UserAddrs, range : Ranges]
  /\ status \in Statuses

\* No path of the driver releases a mapping, MDL or view that is not live,
\* although a failed map leaves a freed MDL's address in its zone and the
\* allocator may hand that address to another zone.
NoBadRelease == ~bugcheck

\* Every live kernel resource is named by a zone in use, and by only one: a
\* failed map leaks nothing and no two zones share a resource.
NothingLeaks ==
  /\ \A a \in SysAddrs : ioSpace[a] # NULL => \E i \in InUse : mapZone[i].sysAddrBase = a
  /\ \A a \in Mdls : mdl[a] # NULL => \E i \in InUse : mapZone[i].pMdl = a
  /\ \A a \in UserAddrs : userView[a] # NULL => \E i \in InUse : mapZone[i].usermodeAddrBase = a
  /\ \A i, j \in InUse :
       i # j => /\ mapZone[i].sysAddrBase # mapZone[j].sysAddrBase
                /\ mapZone[i].pMdl # mapZone[j].pMdl
                /\ mapZone[i].usermodeAddrBase # mapZone[j].usermodeAddrBase

\* A pointer the program holds reaches, through view, MDL and I/O mapping, the
\* physical range it asked for, whatever was mapped and unmapped meanwhile.
PointersReachTheirRange ==
  \A v \in views :
    /\ userView[v.ptr] \in Mdls
    /\ mdl[userView[v.ptr]] \in SysAddrs
    /\ ioSpace[mdl[userView[v.ptr]]] = v.range

\* Failed requests cost no capacity: the zones in use are as many as the
\* pointers the program holds, so all zones but those can still be mapped.
ZonesMatchViews == Cardinality(InUse) = Cardinality(views)

\* With the device closed nothing of the program's is left in the kernel.
ClosedHoldsNothing ==
  ~handle => /\ \A a \in SysAddrs : ioSpace[a] = NULL
             /\ \A a \in Mdls : mdl[a] = NULL
             /\ \A a \in UserAddrs : userView[a] = NULL

KeptPointersUndisturbed ==
  \A v \in views \cap views' :
    /\ userView'[v.ptr] = userView[v.ptr]
    /\ mdl'[userView[v.ptr]] = mdl[userView[v.ptr]]

\* A request - one that maps, fails or takes another pointer back - changes
\* nothing the program can see through the pointers it keeps.
OnlyItsOwnPointer == [][KeptPointersUndisturbed]_vars

\* The driver implements the table of leases.
Leases == INSTANCE LeaseTable WITH
            Pointers <- UserAddrs,
            Capacity <- MAX_MAPPED_MMIO,
            open <- handle,
            leases <- {[ptr |-> mapZone[i].usermodeAddrBase,
                        range |-> ioSpace[mapZone[i].sysAddrBase]] :
                         i \in InUse}

ImplementsLeases == Leases!Spec
=============================================================================
