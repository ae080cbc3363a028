------------------------------- MODULE Smccc -------------------------------
(***************************************************************************)
(* The calls to the firmware (rtems/smc/): function numbers, the trap with  *)
(* its registers, and the guards that smccc.c puts in front of the calls   *)
(* of the Arm architecture.  The trap is synchronous: one call is with the *)
(* firmware at a time on the CPU that makes it.                            *)
(***************************************************************************)
EXTENDS Naturals

CONSTANT Base  \* 2^32: the values of a word, half of a register

ASSUME BaseAssumption == Base \in Nat /\ Base > 2

Word == 0..Base - 1
Register == 0..Base * Base - 1

\* SMCCC_RET_*, as the words they are
Success == 0
NotSupported == Base - 1

\* SMCCC_FUNC_ID puts the four fields into bits of their own.
FuncId(type, conv, range, func) ==
  [type |-> type, conv |-> conv, range |-> range % 64, func |-> func % 65536]

ArchFeatures == FuncId(1, 0, 0, 1)
ArchWorkaround1 == FuncId(1, 0, 0, 32768)
ArchWorkaround2 == FuncId(1, 0, 0, 32767)
Workarounds == {ArchWorkaround1, ArchWorkaround2}

VARIABLES
  version,  \* smccc_version
  cpu,      \* "idle", "trap" while the firmware has it, "panic"
  x,        \* what is in the registers from x0 at the trap, NoArgs otherwise
  ret,      \* the C result of the last call, Success while one is under way
  queried   \* history: ARCH_FEATURES has reached the firmware

Version10 == 65536
NoArgs == [id |-> ArchFeatures, arg |-> <<0, 0, 0>>]

SmcInit ==
  /\ version = Version10
  /\ cpu = "idle"
  /\ x = NoArgs
  /\ ret = Success
  /\ queried = FALSE

\* hvc or smc
Trap(id, arg) ==
  /\ cpu = "idle"
  /\ cpu' = "trap"
  /\ x' = [id |-> id, arg |-> arg]
  /\ ret' = Success
  /\ queried' = (queried \/ id = ArchFeatures)
  /\ UNCHANGED version

\* Back from the trap: the int result is the low word of x0.
TrapReturns(x0) ==
  /\ cpu = "trap"
  /\ cpu' = "idle"
  /\ x' = NoArgs
  /\ ret' = x0 % Base
  /\ UNCHANGED <<version, queried>>

\* rtems_smccc_init, an item of the system initialisation.
SysInit ==
  /\ cpu = "idle"
  /\ version' = 1
  /\ UNCHANGED <<cpu, x, ret, queried>>

\* The guard left out.
AskArchFeaturesAnyVersion(f) == Trap(ArchFeatures, <<f, 0, 0>>)

\* smccc_arch_features, for the function number f
AskArchFeatures(f) ==
  /\ version # Version10
  /\ Trap(ArchFeatures, <<f, 0, 0>>)

ArchFeaturesRefused ==
  /\ cpu = "idle"
  /\ version = Version10
  /\ ret' = NotSupported
  /\ UNCHANGED <<version, cpu, x, queried>>

\* smccc_arch_workaround_1 and _2
Workaround(id, enable) ==
  /\ version = Version10
  /\ Trap(id, <<enable, 0, 0>>)

\* rtems_panic ends the system.
WorkaroundPanics ==
  /\ cpu = "idle"
  /\ version # Version10
  /\ cpu' = "panic"
  /\ UNCHANGED <<version, x, ret, queried>>

ArchCall ==
  \/ \E f \in {0, 1} : AskArchFeatures(f)
  \/ ArchFeaturesRefused
  \/ Workaround(ArchWorkaround1, 0)
  \/ \E enable \in {0, 1} : Workaround(ArchWorkaround2, enable)
  \/ WorkaroundPanics

\* The guards rule out the order in which the calls are meant: once a client
\* could ask the firmware which workarounds it has, none can be called.
AskedThenNoWorkaround ==
  cpu = "trap" /\ queried => x.id \notin Workarounds
=============================================================================
