------------------------------ MODULE Devices ------------------------------
(***************************************************************************)
(* The two sides of a device: the device manager in the calls of programs  *)
(* (Device) and the library most drivers are built on, which the manager   *)
(* calls through the processing functions (DriverInterface).  Each stands  *)
(* for the other by all it may do: the manager meets a driver that returns *)
(* when and what it likes, the library a manager that calls it in any      *)
(* order Device allows.  A behaviour is one of one side.                   *)
(***************************************************************************)
EXTENDS Device, DriverInterface

CONSTANT Sides  \* "manager", "library"

VARIABLE side

ASSUME DevicesAssumption ==
  Sides \subseteq {"manager", "library"} /\ DriverAssumption

DevicesInit ==
  /\ side \in Sides
  /\ DeviceInit /\ GdiInit
  /\ side = "library" => ddev = FALSE
  /\ side = "manager" => Len(gdi.freeq) = 1

DevicesNext ==
  /\ UNCHANGED side
  /\ \/ side = "manager" /\ DeviceNext /\ UNCHANGED gdivars
     \/ side = "library" /\ GdiNext /\ UNCHANGED vars

DevicesSpec == DevicesInit /\ [][DevicesNext]_<<vars, side, gdivars>>
=============================================================================
