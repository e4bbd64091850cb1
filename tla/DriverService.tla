--------------------------- MODULE DriverService ---------------------------
(***************************************************************************)
(* Loading and unloading the kernel driver: init_driver and                *)
(* cleanup_driver of direct_io.c, run by several programs (several runs of *)
(* winflashrom) on one machine.  Each extracts winflashrom.sys into its    *)
(* working directory, registers it as a service, starts it, opens the      *)
(* device, and undoes all that at its end.                                 *)
(*                                                                         *)
(* The service control manager and the file system are external.  A        *)
(* deleted service lingers until it is stopped and no handle to it is      *)
(* open; the image of a loaded driver can be neither written nor deleted;  *)
(* a stopped driver is unloaded when the last handle to its device closes. *)
(* The steps of different programs interleave; a program may be killed     *)
(* between two of its steps, and the machine may be restarted.             *)
(***************************************************************************)
EXTENDS Naturals, FiniteSets

CONSTANTS
  Programs,
  Dirs, DirOf,      \* working directories, and the one of each program
  NoOne,            \* nobody has the file open
  Free, Leaving, Abandoned    \* states of an OwnedService without an owner

ASSUME DirsAssumption == DirOf \in [Programs -> Dirs]
ASSUME NoOneAssumption == NoOne \notin Programs
ASSUME OwnerAssumption ==
  /\ Free # Leaving /\ Leaving # Abandoned /\ Free # Abandoned
  /\ Programs \cap {Free, Leaving, Abandoned} = {}

VARIABLES
  pc,         \* where each program is in init_driver .. cleanup_driver
  file,       \* external: winflashrom.sys in each directory
  writer,     \* external: who has that file open for writing
  service,    \* external: "none", "registered", or "deleted" and lingering
  path,       \* external: the directory the service loads its image from
  svcHandle,  \* external: the programs that hold a handle to the service
  driver,     \* external: "unloaded", "loaded", "unloading"
  device,     \* external: the programs that hold a handle to the device
  abandoned   \* history: a program went away without stopping the driver and
              \* removing its service

scm  == <<service, path, svcHandle>>
vars == <<pc, file, writer, scm, driver, device, abandoned>>

Where == {"idle", "writing", "naming", "creating", "peeking", "starting", "opening",
          "session", "stopping", "unregistering", "deleting"}

\* From CreateService to DeleteService.
Owning == {"starting", "opening", "session", "stopping", "unregistering"}
Owners == {p \in Programs : pc[p] \in Owning}

Goes(p, where) == pc' = [pc EXCEPT ![p] = where]

Init ==
  /\ pc = [p \in Programs |-> "idle"]
  /\ file = [d \in Dirs |-> "none"]
  /\ writer = [d \in Dirs |-> NoOne]
  /\ service = "none"
  /\ path \in Dirs
  /\ svcHandle = {} /\ device = {}
  /\ driver = "unloaded"
  /\ abandoned = FALSE

-----------------------------------------------------------------------------
\* The file system.

InUse(d) == writer[d] # NoOne \/ (driver # "unloaded" /\ path = d)

-----------------------------------------------------------------------------
\* init_driver: extract_driver and setup_driver_name.

ExtractBegins(p) ==
  LET d == DirOf[p]
  IN  /\ pc[p] = "idle" /\ ~InUse(d)
      /\ file' = [file EXCEPT ![d] = "partial"]      \* CREATE_ALWAYS
      /\ writer' = [writer EXCEPT ![d] = p]
      /\ Goes(p, "writing")
      /\ UNCHANGED <<scm, driver, device, abandoned>>

ExtractEnds(p) ==
  LET d == DirOf[p]
  IN  /\ pc[p] = "writing"
      /\ \/ file' = [file EXCEPT ![d] = "whole"] /\ Goes(p, "naming")
         \/ UNCHANGED file /\ Goes(p, "idle")        \* WriteFile failed
      /\ writer' = [writer EXCEPT ![d] = NoOne]
      /\ UNCHANGED <<scm, driver, device, abandoned>>

\* The file is opened without sharing, and closed; on failure it stays.
SetupName(p) ==
  /\ pc[p] = "naming"
  /\ \/ file[DirOf[p]] # "none" /\ ~InUse(DirOf[p]) /\ Goes(p, "creating")
     \/ Goes(p, "idle")
  /\ UNCHANGED <<file, writer, scm, driver, device, abandoned>>

-----------------------------------------------------------------------------
\* init_driver: activate_driver(.., TRUE) and the open of the device.

CreateService(p) ==
  /\ pc[p] = "creating" /\ service = "none"
  /\ service' = "registered" /\ path' = DirOf[p]
  /\ svcHandle' = svcHandle \cup {p}
  /\ Goes(p, "starting")
  /\ UNCHANGED <<file, writer, driver, device, abandoned>>

\* (mutant) "service already exist" counts as activated.
ServiceExistsActivated(p) ==
  /\ pc[p] = "creating" /\ service = "registered"
  /\ Goes(p, "opening")
  /\ UNCHANGED <<file, writer, scm, driver, device, abandoned>>

\* (mutant) The service that exists is started with the handle just opened.
ServiceExistsStarts(p) ==
  /\ pc[p] = "creating" /\ service = "registered"
  /\ svcHandle' = svcHandle \cup {p}
  /\ Goes(p, "starting")
  /\ UNCHANGED <<file, writer, service, path, driver, device, abandoned>>

\* ERROR_SERVICE_EXISTS: the service is opened, and the handle closed again.
ServiceExists(p) ==
  /\ pc[p] = "creating" /\ service = "registered"
  /\ svcHandle' = svcHandle \cup {p}
  /\ Goes(p, "peeking")
  /\ UNCHANGED <<file, writer, service, path, driver, device, abandoned>>

\* OpenSCManager, CreateService or OpenService failed.
CreateServiceFails(p) ==
  /\ pc[p] = "creating"
  /\ Goes(p, "deleting")
  /\ UNCHANGED <<file, writer, scm, driver, device, abandoned>>

\* A deleted service goes when it is stopped and nobody has it open.
Lingers(state, handles, drv) ==
  IF state = "deleted" /\ handles = {} /\ drv = "unloaded" THEN "none" ELSE state

ClosePeek(p) ==
  /\ pc[p] = "peeking"
  /\ svcHandle' = svcHandle \ {p}
  /\ service' = Lingers(service, svcHandle', driver)
  /\ Goes(p, "deleting")
  /\ UNCHANGED <<file, writer, path, driver, device, abandoned>>

StartService(p) ==
  /\ pc[p] = "starting"
  /\ file[path] = "whole" /\ writer[path] = NoOne /\ driver = "unloaded"
  /\ driver' = "loaded"
  /\ svcHandle' = svcHandle \ {p}
  /\ Goes(p, "opening")
  /\ UNCHANGED <<file, writer, service, path, device, abandoned>>

\* The image is not there, not whole, or DriverEntry failed: the handles are
\* closed and the service stays registered.
StartServiceFails(p) ==
  /\ pc[p] = "starting"
  /\ svcHandle' = svcHandle \ {p}
  /\ abandoned' = TRUE
  /\ Goes(p, "deleting")
  /\ UNCHANGED <<file, writer, service, path, driver, device>>

\* (mutant) The error path of the open does not deactivate the driver.
OpenDeviceKeepsDriver(p) ==
  /\ pc[p] = "opening"
  /\ \/ driver = "loaded" /\ device' = device \cup {p} /\ Goes(p, "session")
     \/ UNCHANGED device /\ Goes(p, "deleting")
  /\ UNCHANGED <<file, writer, scm, driver, abandoned>>

OpenDevice(p) ==
  /\ pc[p] = "opening"
  /\ \/ driver = "loaded" /\ device' = device \cup {p} /\ Goes(p, "session")
     \/ UNCHANGED device /\ Goes(p, "stopping")
  /\ UNCHANGED <<file, writer, scm, driver, abandoned>>

-----------------------------------------------------------------------------
\* cleanup_driver, and activate_driver(.., FALSE).

\* The last handle to the device of a stopped driver: DispatchUnload runs.
UnloadedBy(drv, handles) == IF drv = "unloading" /\ handles = {} THEN "unloaded" ELSE drv

\* (mutant) CloseHandle is missing.
CloseDeviceNot(p) ==
  /\ pc[p] = "session"
  /\ Goes(p, "stopping")
  /\ UNCHANGED <<file, writer, scm, driver, device, abandoned>>

CloseDevice(p) ==
  /\ pc[p] = "session"
  /\ device' = device \ {p}
  /\ driver' = UnloadedBy(driver, device')
  /\ Goes(p, "stopping")
  /\ UNCHANGED <<file, writer, scm, abandoned>>

\* OpenService and ControlService; whether the stop succeeds is ignored.
StopService(p) ==
  /\ pc[p] = "stopping" /\ service = "registered"
  /\ svcHandle' = svcHandle \cup {p}
  /\ driver' \in {driver, IF device = {} THEN "unloaded" ELSE "unloading"}
  /\ abandoned' = (abandoned \/ driver' # "unloaded")
  /\ Goes(p, "unregistering")
  /\ UNCHANGED <<file, writer, service, path, device>>

\* (mutant) The driver is stopped and its service not deleted.
DeleteServiceNot(p) ==
  /\ pc[p] = "unregistering"
  /\ svcHandle' = svcHandle \ {p}
  /\ Goes(p, "deleting")
  /\ UNCHANGED <<file, writer, service, path, driver, device, abandoned>>

\* DeleteService and CloseServiceHandle
DeleteService(p) ==
  /\ pc[p] = "unregistering"
  /\ svcHandle' = svcHandle \ {p}
  /\ service' = Lingers("deleted", svcHandle', driver)
  /\ Goes(p, "deleting")
  /\ UNCHANGED <<file, writer, path, driver, device, abandoned>>

\* OpenSCManager, OpenService or DeleteService failed.
DeactivateFails(p) ==
  /\ pc[p] \in {"stopping", "unregistering"}
  /\ svcHandle' = svcHandle \ {p}
  /\ abandoned' = TRUE
  /\ Goes(p, "deleting")
  /\ UNCHANGED <<file, writer, service, path, driver, device>>

\* DeleteFile, the last step of cleanup_driver and of init_driver's error paths
DeleteFile(p) ==
  LET d == DirOf[p]
  IN  /\ pc[p] = "deleting"
      /\ file' = IF InUse(d) THEN file ELSE [file EXCEPT ![d] = "none"]
      /\ Goes(p, "idle")
      /\ UNCHANGED <<writer, scm, driver, device, abandoned>>

-----------------------------------------------------------------------------
\* Ends without cleanup_driver.

\* The system closes what a dead program had open.
Dies(p) ==
  /\ Goes(p, "idle")
  /\ writer' = [d \in Dirs |-> IF writer[d] = p THEN NoOne ELSE writer[d]]
  /\ device' = device \ {p}
  /\ driver' = UnloadedBy(driver, device')
  /\ svcHandle' = svcHandle \ {p}
  /\ service' = Lingers(service, svcHandle', driver')
  /\ abandoned' = (abandoned \/ pc[p] \in Owning)
  /\ UNCHANGED <<file, path>>

\* pci_generic_error of libpci, called from pci_init in the session: exit(1)
PciErrorExits(p) == pc[p] = "session" /\ Dies(p)

Killed(p) == pc[p] # "idle" /\ Dies(p)

\* The service is SERVICE_DEMAND_START: it stays registered and is not started.
Reboot ==
  /\ pc' = [p \in Programs |-> "idle"]
  /\ writer' = [d \in Dirs |-> NoOne]
  /\ svcHandle' = {} /\ device' = {}
  /\ driver' = "unloaded"
  /\ service' = Lingers(service, svcHandle', driver')
  /\ abandoned' = (abandoned \/ Owners # {})
  /\ UNCHANGED <<file, path>>

-----------------------------------------------------------------------------
init_driver(p) ==
  \/ ExtractEnds(p) \/ SetupName(p)
  \/ CreateService(p) \/ ServiceExists(p) \/ CreateServiceFails(p) \/ ClosePeek(p)
  \/ StartService(p) \/ StartServiceFails(p) \/ OpenDevice(p)

cleanup_driver(p) ==
  CloseDevice(p) \/ StopService(p) \/ DeleteService(p) \/ DeactivateFails(p) \/ DeleteFile(p)

Steps(p) == init_driver(p) \/ cleanup_driver(p)

Next == \/ Reboot
        \/ \E p \in Programs : \/ ExtractBegins(p) \/ Steps(p)
                               \/ PciErrorExits(p) \/ Killed(p)

Spec == Init /\ [][Next]_vars

\* A program that started runs on, and its session ends.
FairSpec == Spec /\ \A p \in Programs : WF_vars(Steps(p))
-----------------------------------------------------------------------------
TypeOK ==
  /\ pc \in [Programs -> Where]
  /\ file \in [Dirs -> {"none", "partial", "whole"}]
  /\ writer \in [Dirs -> Programs \cup {NoOne}]
  /\ service \in {"none", "registered", "deleted"}
  /\ path \in Dirs
  /\ svcHandle \in SUBSET Programs /\ device \in SUBSET Programs
  /\ driver \in {"unloaded", "loaded", "unloading"}
  /\ abandoned \in BOOLEAN

(***************************************************************************)
(* The device has no exclusive access (IoCreateDevice with FALSE), and the *)
(* driver keeps one table of zones for all: that two programs never have   *)
(* it open together rests on CreateService failing for the second.         *)
(***************************************************************************)
OneProgramOpens == \A p, q \in device : p = q

(***************************************************************************)
(* The driver is not stopped, and its service not removed, under a program *)
(* that has the device open.                                               *)
(***************************************************************************)
NotUnloadedInUse == device # {} => driver = "loaded" /\ service = "registered"

(***************************************************************************)
(* As long as no owner was killed, failed in StartService or failed to     *)
(* stop and remove the service, a registered service without an owner and  *)
(* an ownerless driver do not exist: cleanup_driver and the other error    *)
(* paths of init_driver undo what was done to the service, in every        *)
(* interleaving.  Nothing is said of the file winflashrom.sys.             *)
(***************************************************************************)
NothingLeftBehind ==
  (~abandoned /\ Owners = {}) => (service # "registered" /\ driver = "unloaded")

(***************************************************************************)
(* A program that is alone in its directory never starts a driver file     *)
(* that is missing or half written, whatever earlier runs left there.      *)
(* (Two programs in one directory delete each other's file: the second one *)
(* fails, deletes winflashrom.sys, and the first cannot start it.)         *)
(***************************************************************************)
AloneInDir(p) == \A q \in Programs \ {p} : DirOf[q] # DirOf[p]
OwnFileWhole ==
  \A p \in Programs : (AloneInDir(p) /\ pc[p] \in {"creating", "starting"}) =>
    file[DirOf[p]] = "whole" /\ ~InUse(DirOf[p])

(***************************************************************************)
(* The programs keep the promise of OwnedService: only the one that        *)
(* registered the service removes it, and none takes over or removes a     *)
(* service that was left behind - not even after a restart.                *)
(***************************************************************************)
owner == IF Owners # {} THEN CHOOSE p \in Owners : TRUE
         ELSE CASE service = "none"       -> Free
                [] service = "deleted"    -> Leaving
                [] service = "registered" -> Abandoned

Service == INSTANCE OwnedService
ImplementsOwnedService == Service!Spec

(***************************************************************************)
(* When no program is ever killed or fails to start or stop the driver,    *)
(* every registered service is removed again and the next run can register *)
(* its own.                                                                *)
(***************************************************************************)
ServiceRemoved == (service # "none") ~> (service = "none" \/ abandoned)
=============================================================================
