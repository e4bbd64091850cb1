------------------------ MODULE DriverServiceProofs ------------------------
(***************************************************************************)
(* Theorems about DriverService, for any number of programs and            *)
(* directories.  They hold of Spec, hence also of FairSpec, whose fairness *)
(* they do not use.                                                        *)
(***************************************************************************)
EXTENDS DriverService, TLAPS

(***************************************************************************)
(* The inductive invariant.  A program between CreateService and           *)
(* DeleteService owns the service: it is alone there, the service is       *)
(* registered and loads its image from that program's directory.           *)
(***************************************************************************)
OneOwner        == \A p, q \in Programs : pc[p] \in Owning /\ pc[q] \in Owning => p = q
OwnerRegistered == \A p \in Programs : pc[p] \in Owning => service = "registered" /\ path = DirOf[p]

\* The device is open in sessions only, and there the driver is loaded.
OpenInSession == \A p \in Programs : p \in device => pc[p] = "session"
SessionLoaded == \A p \in Programs : pc[p] = "session" => driver = "loaded"

\* No driver without a service.
DriverNeedsService == service = "none" => driver = "unloaded"

\* An owner that has not yet started the driver, or has stopped it, finds it
\* unloaded, unless something was left behind before; and the same holds of the
\* machine while there is no owner.
LeftByAbandoning ==
  ~abandoned =>
    /\ \A p \in Programs : pc[p] \in {"starting", "unregistering"} => driver = "unloaded"
    /\ (\A p \in Programs : pc[p] \notin Owning) => service # "registered" /\ driver = "unloaded"

\* A file open for writing belongs to a program of its directory in
\* extract_driver.
WritersWrite ==
  \A d \in Dirs : writer[d] # NoOne => DirOf[writer[d]] = d /\ pc[writer[d]] = "writing"

\* What a program that is alone in its directory knows of its file.
OwnFile(p) ==
  /\ pc[p] \in {"naming", "creating", "starting"} => file[DirOf[p]] = "whole"
  /\ pc[p] \in {"creating", "starting"} => ~InUse(DirOf[p])
OwnFiles == \A p \in Programs : AloneInDir(p) => OwnFile(p)

Ownership == OneOwner /\ OwnerRegistered /\ OpenInSession /\ SessionLoaded /\ DriverNeedsService
IInv == TypeOK /\ Ownership /\ LeftByAbandoning /\ WritersWrite /\ OwnFiles
-----------------------------------------------------------------------------

\* Every step keeps the types.
LEMMA TypeStep == IInv /\ [Next]_vars => TypeOK'
<1>. SUFFICES ASSUME IInv, [Next]_vars PROVE TypeOK'
  OBVIOUS
<1>. USE DirsAssumption DEF IInv, TypeOK, Where, Goes, scm
<1>1. ASSUME NEW p \in Programs, ExtractBegins(p) PROVE TypeOK'
  BY <1>1 DEF ExtractBegins, InUse
<1>2. ASSUME NEW p \in Programs, ExtractEnds(p) PROVE TypeOK'
  BY <1>2 DEF ExtractEnds
<1>3. ASSUME NEW p \in Programs, SetupName(p) PROVE TypeOK'
  BY <1>3 DEF SetupName, InUse
<1>4. ASSUME NEW p \in Programs, CreateService(p) PROVE TypeOK'
  BY <1>4 DEF CreateService
<1>5. ASSUME NEW p \in Programs, ServiceExists(p) PROVE TypeOK'
  BY <1>5 DEF ServiceExists
<1>6. ASSUME NEW p \in Programs, CreateServiceFails(p) PROVE TypeOK'
  BY <1>6 DEF CreateServiceFails
<1>7. ASSUME NEW p \in Programs, ClosePeek(p) PROVE TypeOK'
  BY <1>7 DEF ClosePeek, Lingers
<1>8. ASSUME NEW p \in Programs, StartService(p) PROVE TypeOK'
  BY <1>8 DEF StartService
<1>9. ASSUME NEW p \in Programs, StartServiceFails(p) PROVE TypeOK'
  BY <1>9 DEF StartServiceFails
<1>10. ASSUME NEW p \in Programs, OpenDevice(p) PROVE TypeOK'
  BY <1>10 DEF OpenDevice
<1>11. ASSUME NEW p \in Programs, CloseDevice(p) PROVE TypeOK'
  BY <1>11 DEF CloseDevice, UnloadedBy
<1>12. ASSUME NEW p \in Programs, StopService(p) PROVE TypeOK'
  BY <1>12 DEF StopService
<1>13. ASSUME NEW p \in Programs, DeleteService(p) PROVE TypeOK'
  BY <1>13 DEF DeleteService, Lingers
<1>14. ASSUME NEW p \in Programs, DeactivateFails(p) PROVE TypeOK'
  BY <1>14 DEF DeactivateFails
<1>15. ASSUME NEW p \in Programs, DeleteFile(p) PROVE TypeOK'
  BY <1>15 DEF DeleteFile, InUse
<1>16. ASSUME NEW p \in Programs, Dies(p) PROVE TypeOK'
  BY <1>16 DEF Dies, Lingers, UnloadedBy
<1>17. CASE Reboot
  BY <1>17 DEF Reboot, Lingers
<1>18. CASE UNCHANGED vars
  BY <1>18 DEF vars, scm
<1>. QED
  BY <1>1, <1>2, <1>3, <1>4, <1>5, <1>6, <1>7, <1>8, <1>9,
     <1>10, <1>11, <1>12, <1>13, <1>14, <1>15, <1>16, <1>17, <1>18
     DEF Next, Steps, init_driver, cleanup_driver, PciErrorExits, Killed

\* Every step keeps the ownership.
LEMMA OwnershipStep == IInv /\ [Next]_vars => Ownership'
<1>. SUFFICES ASSUME IInv, [Next]_vars PROVE Ownership'
  OBVIOUS
<1>. USE DirsAssumption
     DEF IInv, TypeOK, Ownership, OneOwner, OwnerRegistered, OpenInSession, SessionLoaded,
    DriverNeedsService, Where, Owning, Goes, scm
<1>1. ASSUME NEW p \in Programs, ExtractBegins(p) PROVE Ownership'
  BY <1>1 DEF ExtractBegins, InUse
<1>2. ASSUME NEW p \in Programs, ExtractEnds(p) PROVE Ownership'
  BY <1>2 DEF ExtractEnds
<1>3. ASSUME NEW p \in Programs, SetupName(p) PROVE Ownership'
  BY <1>3 DEF SetupName, InUse
<1>4. ASSUME NEW p \in Programs, CreateService(p) PROVE Ownership'
  BY <1>4 DEF CreateService
<1>5. ASSUME NEW p \in Programs, ServiceExists(p) PROVE Ownership'
  BY <1>5 DEF ServiceExists
<1>6. ASSUME NEW p \in Programs, CreateServiceFails(p) PROVE Ownership'
  BY <1>6 DEF CreateServiceFails
<1>7. ASSUME NEW p \in Programs, ClosePeek(p) PROVE Ownership'
  BY <1>7 DEF ClosePeek, Lingers
<1>8. ASSUME NEW p \in Programs, StartService(p) PROVE Ownership'
  BY <1>8 DEF StartService
<1>9. ASSUME NEW p \in Programs, StartServiceFails(p) PROVE Ownership'
  BY <1>9 DEF StartServiceFails
<1>10. ASSUME NEW p \in Programs, OpenDevice(p) PROVE Ownership'
  BY <1>10 DEF OpenDevice
<1>11. ASSUME NEW p \in Programs, CloseDevice(p) PROVE Ownership'
  BY <1>11 DEF CloseDevice, UnloadedBy
<1>12. ASSUME NEW p \in Programs, StopService(p) PROVE Ownership'
  BY <1>12 DEF StopService
<1>13. ASSUME NEW p \in Programs, DeleteService(p) PROVE Ownership'
  BY <1>13 DEF DeleteService, Lingers
<1>14. ASSUME NEW p \in Programs, DeactivateFails(p) PROVE Ownership'
  BY <1>14 DEF DeactivateFails
<1>15. ASSUME NEW p \in Programs, DeleteFile(p) PROVE Ownership'
  BY <1>15 DEF DeleteFile, InUse
<1>16. ASSUME NEW p \in Programs, Dies(p) PROVE Ownership'
  BY <1>16 DEF Dies, Lingers, UnloadedBy
<1>17. CASE Reboot
  BY <1>17 DEF Reboot, Lingers
<1>18. CASE UNCHANGED vars
  BY <1>18 DEF vars, scm
<1>. QED
  BY <1>1, <1>2, <1>3, <1>4, <1>5, <1>6, <1>7, <1>8, <1>9,
     <1>10, <1>11, <1>12, <1>13, <1>14, <1>15, <1>16, <1>17, <1>18
     DEF Next, Steps, init_driver, cleanup_driver, PciErrorExits, Killed

\* What is left without an owner was abandoned.
LEMMA AbandonStep == IInv /\ [Next]_vars => LeftByAbandoning'
<1>. SUFFICES ASSUME IInv, [Next]_vars PROVE LeftByAbandoning'
  OBVIOUS
<1>. USE DirsAssumption
     DEF IInv, TypeOK, Ownership, OneOwner, OwnerRegistered, OpenInSession, SessionLoaded,
    DriverNeedsService, LeftByAbandoning, Where, Owning, Goes, scm
<1>1. ASSUME NEW p \in Programs, ExtractBegins(p) PROVE LeftByAbandoning'
  BY <1>1 DEF ExtractBegins, InUse
<1>2. ASSUME NEW p \in Programs, ExtractEnds(p) PROVE LeftByAbandoning'
  BY <1>2 DEF ExtractEnds
<1>3. ASSUME NEW p \in Programs, SetupName(p) PROVE LeftByAbandoning'
  BY <1>3 DEF SetupName, InUse
<1>4. ASSUME NEW p \in Programs, CreateService(p) PROVE LeftByAbandoning'
  BY <1>4 DEF CreateService
<1>5. ASSUME NEW p \in Programs, ServiceExists(p) PROVE LeftByAbandoning'
  BY <1>5 DEF ServiceExists
<1>6. ASSUME NEW p \in Programs, CreateServiceFails(p) PROVE LeftByAbandoning'
  BY <1>6 DEF CreateServiceFails
<1>7. ASSUME NEW p \in Programs, ClosePeek(p) PROVE LeftByAbandoning'
  BY <1>7 DEF ClosePeek, Lingers
<1>8. ASSUME NEW p \in Programs, StartService(p) PROVE LeftByAbandoning'
  BY <1>8 DEF StartService
<1>9. ASSUME NEW p \in Programs, StartServiceFails(p) PROVE LeftByAbandoning'
  BY <1>9 DEF StartServiceFails
<1>10. ASSUME NEW p \in Programs, OpenDevice(p) PROVE LeftByAbandoning'
  BY <1>10 DEF OpenDevice
<1>11. ASSUME NEW p \in Programs, CloseDevice(p) PROVE LeftByAbandoning'
  BY <1>11 DEF CloseDevice, UnloadedBy
<1>12. ASSUME NEW p \in Programs, StopService(p) PROVE LeftByAbandoning'
  BY <1>12 DEF StopService
<1>13. ASSUME NEW p \in Programs, DeleteService(p) PROVE LeftByAbandoning'
  BY <1>13 DEF DeleteService, Lingers
<1>14. ASSUME NEW p \in Programs, DeactivateFails(p) PROVE LeftByAbandoning'
  BY <1>14 DEF DeactivateFails
<1>15. ASSUME NEW p \in Programs, DeleteFile(p) PROVE LeftByAbandoning'
  BY <1>15 DEF DeleteFile, InUse
<1>16. ASSUME NEW p \in Programs, Dies(p) PROVE LeftByAbandoning'
  BY <1>16 DEF Dies, Lingers, UnloadedBy
<1>17. CASE Reboot
  BY <1>17 DEF Reboot, Lingers, Owners
<1>18. CASE UNCHANGED vars
  BY <1>18 DEF vars, scm
<1>. QED
  BY <1>1, <1>2, <1>3, <1>4, <1>5, <1>6, <1>7, <1>8, <1>9,
     <1>10, <1>11, <1>12, <1>13, <1>14, <1>15, <1>16, <1>17, <1>18
     DEF Next, Steps, init_driver, cleanup_driver, PciErrorExits, Killed

\* Every step keeps who has a file open.
LEMMA WritersStep == IInv /\ [Next]_vars => WritersWrite'
<1>. SUFFICES ASSUME IInv, [Next]_vars PROVE WritersWrite'
  OBVIOUS
<1>. USE DirsAssumption, NoOneAssumption DEF IInv, TypeOK, WritersWrite, Where, Goes, scm
<1>1. ASSUME NEW p \in Programs, ExtractBegins(p) PROVE WritersWrite'
  BY <1>1 DEF ExtractBegins, InUse
<1>2. ASSUME NEW p \in Programs, ExtractEnds(p) PROVE WritersWrite'
  BY <1>2 DEF ExtractEnds
<1>3. ASSUME NEW p \in Programs, SetupName(p) PROVE WritersWrite'
  BY <1>3 DEF SetupName, InUse
<1>4. ASSUME NEW p \in Programs, CreateService(p) PROVE WritersWrite'
  BY <1>4 DEF CreateService
<1>5. ASSUME NEW p \in Programs, ServiceExists(p) PROVE WritersWrite'
  BY <1>5 DEF ServiceExists
<1>6. ASSUME NEW p \in Programs, CreateServiceFails(p) PROVE WritersWrite'
  BY <1>6 DEF CreateServiceFails
<1>7. ASSUME NEW p \in Programs, ClosePeek(p) PROVE WritersWrite'
  BY <1>7 DEF ClosePeek, Lingers
<1>8. ASSUME NEW p \in Programs, StartService(p) PROVE WritersWrite'
  BY <1>8 DEF StartService
<1>9. ASSUME NEW p \in Programs, StartServiceFails(p) PROVE WritersWrite'
  BY <1>9 DEF StartServiceFails
<1>10. ASSUME NEW p \in Programs, OpenDevice(p) PROVE WritersWrite'
  BY <1>10 DEF OpenDevice
<1>11. ASSUME NEW p \in Programs, CloseDevice(p) PROVE WritersWrite'
  BY <1>11 DEF CloseDevice, UnloadedBy
<1>12. ASSUME NEW p \in Programs, StopService(p) PROVE WritersWrite'
  BY <1>12 DEF StopService
<1>13. ASSUME NEW p \in Programs, DeleteService(p) PROVE WritersWrite'
  BY <1>13 DEF DeleteService, Lingers
<1>14. ASSUME NEW p \in Programs, DeactivateFails(p) PROVE WritersWrite'
  BY <1>14 DEF DeactivateFails
<1>15. ASSUME NEW p \in Programs, DeleteFile(p) PROVE WritersWrite'
  BY <1>15 DEF DeleteFile, InUse
<1>16. ASSUME NEW p \in Programs, Dies(p) PROVE WritersWrite'
  BY <1>16 DEF Dies, Lingers, UnloadedBy
<1>17. CASE Reboot
  BY <1>17 DEF Reboot, Lingers, Owners
<1>18. CASE UNCHANGED vars
  BY <1>18 DEF vars, scm
<1>. QED
  BY <1>1, <1>2, <1>3, <1>4, <1>5, <1>6, <1>7, <1>8, <1>9,
     <1>10, <1>11, <1>12, <1>13, <1>14, <1>15, <1>16, <1>17, <1>18
     DEF Next, Steps, init_driver, cleanup_driver, PciErrorExits, Killed

\* No step spoils the file of a program that is alone in its directory.
LEMMA FilesStep == IInv /\ [Next]_vars => OwnFiles'
<1>. SUFFICES ASSUME IInv, [Next]_vars PROVE OwnFiles'
  OBVIOUS
<1>. USE DirsAssumption, NoOneAssumption
     DEF IInv, TypeOK, Ownership, OneOwner, OwnerRegistered, OpenInSession, SessionLoaded,
    DriverNeedsService, WritersWrite, OwnFiles, OwnFile, AloneInDir, InUse, Where, Owning, Goes, scm
<1>1. ASSUME NEW p \in Programs, ExtractBegins(p) PROVE OwnFiles'
  BY <1>1 DEF ExtractBegins
<1>2. ASSUME NEW p \in Programs, ExtractEnds(p) PROVE OwnFiles'
  BY <1>2 DEF ExtractEnds
<1>3. ASSUME NEW p \in Programs, SetupName(p) PROVE OwnFiles'
  BY <1>3 DEF SetupName
<1>4. ASSUME NEW p \in Programs, CreateService(p) PROVE OwnFiles'
  BY <1>4 DEF CreateService
<1>5. ASSUME NEW p \in Programs, ServiceExists(p) PROVE OwnFiles'
  BY <1>5 DEF ServiceExists
<1>6. ASSUME NEW p \in Programs, CreateServiceFails(p) PROVE OwnFiles'
  BY <1>6 DEF CreateServiceFails
<1>7. ASSUME NEW p \in Programs, ClosePeek(p) PROVE OwnFiles'
  BY <1>7 DEF ClosePeek, Lingers
<1>8. ASSUME NEW p \in Programs, StartService(p) PROVE OwnFiles'
  BY <1>8 DEF StartService
<1>9. ASSUME NEW p \in Programs, StartServiceFails(p) PROVE OwnFiles'
  BY <1>9 DEF StartServiceFails
<1>10. ASSUME NEW p \in Programs, OpenDevice(p) PROVE OwnFiles'
  BY <1>10 DEF OpenDevice
<1>11. ASSUME NEW p \in Programs, CloseDevice(p) PROVE OwnFiles'
  BY <1>11 DEF CloseDevice, UnloadedBy
<1>12. ASSUME NEW p \in Programs, StopService(p) PROVE OwnFiles'
  BY <1>12 DEF StopService
<1>13. ASSUME NEW p \in Programs, DeleteService(p) PROVE OwnFiles'
  BY <1>13 DEF DeleteService, Lingers
<1>14. ASSUME NEW p \in Programs, DeactivateFails(p) PROVE OwnFiles'
  BY <1>14 DEF DeactivateFails
<1>15. ASSUME NEW p \in Programs, DeleteFile(p) PROVE OwnFiles'
  BY <1>15 DEF DeleteFile
<1>16. ASSUME NEW p \in Programs, Dies(p) PROVE OwnFiles'
  BY <1>16 DEF Dies, Lingers, UnloadedBy
<1>17. CASE Reboot
  BY <1>17 DEF Reboot, Lingers, Owners
<1>18. CASE UNCHANGED vars
  BY <1>18 DEF vars, scm
<1>. QED
  BY <1>1, <1>2, <1>3, <1>4, <1>5, <1>6, <1>7, <1>8, <1>9,
     <1>10, <1>11, <1>12, <1>13, <1>14, <1>15, <1>16, <1>17, <1>18
     DEF Next, Steps, init_driver, cleanup_driver, PciErrorExits, Killed

LEMMA InitIInv == Init => IInv
BY DirsAssumption DEF Init, IInv, TypeOK, Where, Owning, Ownership, OneOwner, OwnerRegistered,
   OpenInSession, SessionLoaded, DriverNeedsService, LeftByAbandoning, WritersWrite, OwnFiles, OwnFile

LEMMA SpecIInv == Spec => []IInv
<1>1. IInv /\ [Next]_vars => IInv'
  BY TypeStep, OwnershipStep, AbandonStep, WritersStep, FilesStep DEF IInv
<1>. QED
  BY InitIInv, <1>1, PTL DEF Spec

-----------------------------------------------------------------------------
(***************************************************************************)
(* The theorems.                                                           *)
(***************************************************************************)

\* Every state has its type.
THEOREM TypeCorrect == Spec => []TypeOK
<1>1. IInv => TypeOK
  BY DEF IInv
<1>. QED
  BY <1>1, SpecIInv, PTL

\* Of any number of programs, interleaved, killed and restarted at any step, at
\* most one has the device open, though nothing in the driver sees to that.
THEOREM OnlyOneOpens == Spec => []OneProgramOpens
<1>1. IInv => OneProgramOpens
  BY DEF IInv, TypeOK, Ownership, OneOwner, OpenInSession, OneProgramOpens, Owning
<1>. QED
  BY <1>1, SpecIInv, PTL

\* Nobody stops the driver or removes its service while a program has the
\* device open.
THEOREM NeverUnloadedInUse == Spec => []NotUnloadedInUse
<1>1. IInv => NotUnloadedInUse
  BY DEF IInv, TypeOK, Ownership, OwnerRegistered, OpenInSession, SessionLoaded, NotUnloadedInUse,
         Owning
<1>. QED
  BY <1>1, SpecIInv, PTL

\* A registered service or loaded driver without an owner was left by a program
\* that was killed or failed to start, stop or remove it.
THEOREM NothingStays == Spec => []NothingLeftBehind
<1>1. IInv => NothingLeftBehind
  BY DEF IInv, LeftByAbandoning, NothingLeftBehind, Owners
<1>. QED
  BY <1>1, SpecIInv, PTL

\* A program alone in its directory starts the whole driver file it extracted.
THEOREM FileIsWhole == Spec => []OwnFileWhole
<1>1. IInv => OwnFileWhole
  BY DEF IInv, OwnFiles, OwnFile, OwnFileWhole
<1>. QED
  BY <1>1, SpecIInv, PTL

-----------------------------------------------------------------------------
(***************************************************************************)
(* DriverService implements OwnedService.                                  *)
(***************************************************************************)

\* The refinement mapping, before and after a step.
LEMMA OwnerIs ==
  ASSUME IInv, NEW p \in Programs, pc[p] \in Owning
  PROVE  owner = p
<1>1. Owners = {p}
  BY DEF IInv, Ownership, OneOwner, Owners
<1>. QED
  BY <1>1 DEF owner

LEMMA NewOwnerIs ==
  ASSUME IInv', NEW p \in Programs, pc'[p] \in Owning
  PROVE  owner' = p
<1>1. Owners' = {p}
  BY DEF IInv, Ownership, OneOwner, Owners
<1>. QED
  BY <1>1 DEF owner

NoOwner == \A p \in Programs : pc[p] \notin Owning

LEMMA Ownerless ==
  NoOwner => /\ service = "none"       => owner = Free
             /\ service = "deleted"    => owner = Leaving
             /\ service = "registered" => owner = Abandoned
BY DEF owner, Owners, NoOwner

LEMMA NewOwnerless ==
  NoOwner' => /\ service' = "none"       => owner' = Free
              /\ service' = "deleted"    => owner' = Leaving
              /\ service' = "registered" => owner' = Abandoned
BY DEF owner, Owners, NoOwner

\* A step that changes neither who owns the service nor the service stutters.
LEMMA SameOwner ==
  ASSUME \A p \in Programs : pc'[p] \in Owning <=> pc[p] \in Owning, service' = service
  PROVE  owner' = owner
<1>1. Owners' = Owners
  BY DEF Owners
<1>. QED
  BY <1>1 DEF owner

\* A deleted service goes when nobody refers to it any more.
LEMMA LingeringGoes ==
  ASSUME TypeOK, NoOwner, NoOwner', service' = service \/ (service = "deleted" /\ service' = "none")
  PROVE  owner' = owner \/ Service!Gone
BY Ownerless, NewOwnerless DEF TypeOK, Service!Gone

\* An owner goes, and the service stays.
LEMMA OwnerGoes ==
  ASSUME IInv, NEW p \in Programs, pc[p] \in Owning, NoOwner', service' = service
  PROVE  Service!Abandon(p)
<1>1. service = "registered"
  BY DEF IInv, Ownership, OwnerRegistered
<1>. QED
  BY <1>1, OwnerIs, NewOwnerless DEF Service!Abandon

\* Every step is one of OwnedService, or a stutter.
LEMMA StepRefines ==
  ASSUME IInv, IInv', [Next]_vars
  PROVE  [Service!Next]_owner
<1>. USE DEF IInv, TypeOK, Where, Owning, Goes, scm
<1>. DEFINE SameOwners == \A q \in Programs : pc'[q] \in Owning <=> pc[q] \in Owning
<1>1. ASSUME NEW p \in Programs,
             ExtractBegins(p) \/ ExtractEnds(p) \/ SetupName(p) \/ ServiceExists(p)
               \/ CreateServiceFails(p) \/ DeleteFile(p)
      PROVE  SameOwners /\ service' = service
  BY <1>1 DEF ExtractBegins, ExtractEnds, SetupName, ServiceExists, CreateServiceFails, DeleteFile
<1>2. ASSUME NEW p \in Programs,
             StartService(p) \/ OpenDevice(p) \/ CloseDevice(p) \/ StopService(p)
      PROVE  SameOwners /\ service' = service
  BY <1>2 DEF StartService, OpenDevice, CloseDevice, StopService
<1>3. CASE UNCHANGED vars
  BY <1>3, SameOwner DEF vars
<1>4. ASSUME NEW p \in Programs, CreateService(p) PROVE Service!Register(p)
  <2>1. NoOwner /\ service = "none"
    BY <1>4 DEF CreateService, NoOwner, Ownership, OwnerRegistered
  <2>2. pc'[p] \in Owning
    BY <1>4 DEF CreateService
  <2>. QED
    BY <2>1, <2>2, Ownerless, NewOwnerIs DEF Service!Register
<1>5. ASSUME NEW p \in Programs, ClosePeek(p) PROVE owner' = owner \/ Service!Gone
  <2>1. CASE service' = service
    BY <1>5, <2>1, SameOwner DEF ClosePeek
  <2>2. CASE service' # service
    <3>1. service = "deleted" /\ service' = "none"
      BY <1>5, <2>2 DEF ClosePeek, Lingers
    <3>2. NoOwner /\ NoOwner'
      BY <1>5, <3>1 DEF ClosePeek, NoOwner, Ownership, OwnerRegistered
    <3>. QED
      BY <3>1, <3>2, LingeringGoes
  <2>. QED
    BY <2>1, <2>2
<1>6. ASSUME NEW p \in Programs, StartServiceFails(p) \/ DeactivateFails(p)
      PROVE  Service!Abandon(p)
  <2>1. pc[p] \in Owning /\ NoOwner' /\ service' = service
    BY <1>6 DEF StartServiceFails, DeactivateFails, NoOwner, Ownership, OneOwner
  <2>. QED
    BY <2>1, OwnerGoes
<1>7. ASSUME NEW p \in Programs, DeleteService(p) PROVE Service!Remove(p)
  <2>1. pc[p] \in Owning /\ NoOwner' /\ service' \in {"deleted", "none"}
    BY <1>7 DEF DeleteService, Lingers, NoOwner, Ownership, OneOwner
  <2>. QED
    BY <2>1, OwnerIs, NewOwnerless DEF Service!Remove
<1>8. ASSUME NEW p \in Programs, Dies(p)
      PROVE  Service!Abandon(p) \/ owner' = owner \/ Service!Gone
  <2>1. CASE pc[p] \in Owning
    <3>1. NoOwner' /\ service' = service
      BY <1>8, <2>1 DEF Dies, Lingers, NoOwner, Ownership, OneOwner, OwnerRegistered
    <3>. QED
      BY <2>1, <3>1, OwnerGoes
  <2>2. CASE pc[p] \notin Owning /\ service' = service
    BY <1>8, <2>2, SameOwner DEF Dies
  <2>3. CASE pc[p] \notin Owning /\ service' # service
    <3>1. service = "deleted" /\ service' = "none"
      BY <1>8, <2>3 DEF Dies, Lingers
    <3>2. NoOwner /\ NoOwner'
      BY <1>8, <2>3, <3>1 DEF Dies, NoOwner, Ownership, OwnerRegistered
    <3>. QED
      BY <3>1, <3>2, LingeringGoes
  <2>. QED
    BY <2>1, <2>2, <2>3
<1>9. CASE Reboot
  <2>1. NoOwner' /\ (service' = service \/ (service = "deleted" /\ service' = "none"))
    BY <1>9 DEF Reboot, Lingers, NoOwner
  <2>2. CASE NoOwner
    BY <2>1, <2>2, LingeringGoes DEF Service!Next
  <2>3. CASE ~NoOwner
    <3>1. PICK p \in Programs : pc[p] \in Owning
      BY <2>3 DEF NoOwner
    <3>2. service' = service
      BY <2>1, <3>1 DEF Ownership, OwnerRegistered
    <3>. QED
      BY <2>1, <3>1, <3>2, OwnerGoes DEF Service!Next
  <2>. QED
    BY <2>2, <2>3
<1>. HIDE DEF IInv, TypeOK
<1>. QED
  BY <1>1, <1>2, <1>3, <1>4, <1>5, <1>6, <1>7, <1>8, <1>9, SameOwner
     DEF Next, Steps, init_driver, cleanup_driver, PciErrorExits, Killed, Service!Next

\* The service belongs to whoever registered it, and what is left behind is
\* taken over by nobody.
THEOREM ImplementsOwned == Spec => ImplementsOwnedService
<1>1. Init => Service!Init
  BY Ownerless DEF Init, Service!Init, NoOwner, Owning
<1>2. IInv /\ IInv' /\ [Next]_vars => [Service!Next]_owner
  BY StepRefines
<1>. QED
  BY <1>1, <1>2, SpecIInv, PTL DEF Spec, ImplementsOwnedService, Service!Spec
=============================================================================
