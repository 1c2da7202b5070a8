--------------------------- MODULE DriverManager ---------------------------
(***************************************************************************)
(* DriverManager (source/drivers/Driver.cpp), an array of drivers that is  *)
(* filled and then walked once, and the table of handlers into which the   *)
(* constructor of InterruptHandler (InterruptManager.cpp) enters a driver. *)
(***************************************************************************)
EXTENDS Integers, Sequences

CONSTANT
  MaxDrivers   (* length of the array drivers, 256                         *)

ASSUME MaxDriversAssumption == MaxDrivers \in Nat

VARIABLES
  drivers,            (* DriverManager::drivers up to nof_drivers          *)
  nof_activated,      (* activateAll's loop variable i                     *)
  interruptHandlers   (* the entries that are not nullptr                  *)

driverVars == <<drivers, nof_activated, interruptHandlers>>

DriverManagerInit ==
  /\ drivers = <<>> /\ nof_activated = 0
  /\ interruptHandlers = [n \in {} |-> {}]

(* InterruptHandler's constructor overwrites whatever the entry held.      *)
Register(n, handler) ==
  interruptHandlers' = [m \in DOMAIN interruptHandlers \cup {n} |->
                          IF m = n THEN handler ELSE interruptHandlers[m]]

(* Mutant: the last element of the array stays unused.                     *)
HasPlaceShort == Len(drivers) < MaxDrivers - 1

HasPlace == Len(drivers) < MaxDrivers

(* addDriver says nothing when the array is full.                          *)
AddDriver(driver) ==
  drivers' = IF HasPlace THEN Append(drivers, driver) ELSE drivers

(* Mutant: the walk stops in front of the last driver.                     *)
ActivatesMoreShort == nof_activated < Len(drivers) - 1

ActivatesMore == nof_activated < Len(drivers)

(* One iteration of activateAll.                                           *)
ActivateNext ==
  /\ ActivatesMore
  /\ nof_activated' = nof_activated + 1
  /\ UNCHANGED <<drivers, interruptHandlers>>

Managed == {drivers[i] : i \in 1 .. Len(drivers)}
Activated == {drivers[i] : i \in 1 .. nof_activated}
=============================================================================
