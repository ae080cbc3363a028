------------------------------- MODULE PmCall -------------------------------
(***************************************************************************)
(* How the PM driver calls the firmware (rtems/pm/pm.c): the numbers of    *)
(* the APIs, the arguments of each call, two to a register, and what       *)
(* becomes of the answer.  The table of the answers to PM_FEATURE_CHECK    *)
(* is PmFeature's, the lock PmLoad's; here each call reaches the firmware. *)
(* The clients of smccc.c are the only others that do.                     *)
(***************************************************************************)
EXTENDS Smccc, Sequences

CONSTANTS
  Half,       \* 2^16
  Addresses,  \* where images may lie
  Sizes,      \* their sizes, a size_t
  Flags,      \* flags of an FPGA load
  Statuses,   \* what the firmware may leave in x0
  Values      \* what it may leave in x1 and x2

ASSUME ValuesAssumption ==
  /\ Half \in Nat /\ Base = Half * Half
  /\ Base > 2821  \* the greatest number of an API
  /\ Addresses \subseteq Register /\ Sizes \subseteq Register /\ Flags \subseteq Word
  /\ Statuses \subseteq Register /\ Values \subseteq Register

\* pm_api_id
PmApi ==
  <<"PM_GET_API_VERSION", "PM_SET_CONFIGURATION", "PM_GET_NODE_STATUS",
    "PM_GET_OP_CHARACTERISTIC", "PM_REGISTER_NOTIFIER",
    "PM_REQUEST_SUSPEND", "PM_SELF_SUSPEND", "PM_FORCE_POWERDOWN",
    "PM_ABORT_SUSPEND", "PM_REQUEST_WAKEUP", "PM_SET_WAKEUP_SOURCE",
    "PM_SYSTEM_SHUTDOWN", "PM_REQUEST_NODE", "PM_RELEASE_NODE",
    "PM_SET_REQUIREMENT", "PM_SET_MAX_LATENCY", "PM_RESET_ASSERT",
    "PM_RESET_GET_STATUS", "PM_MMIO_WRITE", "PM_MMIO_READ",
    "PM_INIT_FINALIZE", "PM_FPGA_LOAD", "PM_FPGA_GET_STATUS",
    "PM_GET_CHIPID", "PM_SECURE_RSA_AES", "PM_SECURE_SHA", "PM_SECURE_RSA",
    "PM_PINCTRL_REQUEST", "PM_PINCTRL_RELEASE", "PM_PINCTRL_GET_FUNCTION",
    "PM_PINCTRL_SET_FUNCTION", "PM_PINCTRL_CONFIG_PARAM_GET",
    "PM_PINCTRL_CONFIG_PARAM_SET", "PM_IOCTL", "PM_QUERY_DATA",
    "PM_CLOCK_ENABLE", "PM_CLOCK_DISABLE", "PM_CLOCK_GETSTATE",
    "PM_CLOCK_SETDIVIDER", "PM_CLOCK_GETDIVIDER", "PM_CLOCK_SETRATE",
    "PM_CLOCK_GETRATE", "PM_CLOCK_SETPARENT", "PM_CLOCK_GETPARENT",
    "PM_SECURE_IMAGE", "PM_FPGA_READ", "PM_API_RESERVED_1",
    "PM_PLL_SET_PARAMETER", "PM_PLL_GET_PARAMETER", "PM_PLL_SET_MODE",
    "PM_PLL_GET_MODE", "PM_REGISTER_ACCESS", "PM_EFUSE_ACCESS",
    "PM_ADD_SUBSYSTEM", "PM_DESTROY_SUBSYSTEM", "PM_DESCRIBE_NODES",
    "PM_ADD_NODE", "PM_ADD_NODE_PARENT", "PM_ADD_NODE_NAME",
    "PM_ADD_REQUIREMENT", "PM_SET_CURRENT_SUBSYSTEM", "PM_INIT_NODE",
    "PM_FEATURE_CHECK", "PM_ISO_CONTROL", "PM_ACTIVATE_SUBSYSTEM",
    "PM_WRITE_AES_KEY", "PM_LOAD_PDI", "PM_GET_UID_INFO_LIST",
    "PM_GET_META_HEADER_INFO_LIST", "GET_CALLBACK_DATA",
    "PM_SET_SUSPEND_MODE", "PM_GET_TRUSTZONE_VERSION",
    "TF_A_PM_REGISTER_SGI", "PM_BBRAM_WRITE_KEY", "PM_BBRAM_ZEROIZE",
    "PM_BBRAM_WRITE_USERDATA", "PM_BBRAM_READ_USERDATA",
    "PM_BBRAM_LOCK_USERDATA">>

\* api_id_labels, the names `pm features` prints
Labels ==
  <<"PM_GET_API_VERSION", "PM_SET_CONFIGURATION", "PM_GET_NODE_STATUS",
    "PM_GET_OP_CHARACTERISTIC", "PM_REGISTER_NOTIFIER",
    "PM_REQUEST_SUSPEND", "PM_SELF_SUSPEND", "PM_FORCE_POWERDOWN",
    "PM_ABORT_SUSPEND", "PM_REQUEST_WAKEUP", "PM_SET_WAKEUP_SOURCE",
    "PM_SYSTEM_SHUTDOWN", "PM_REQUEST_NODE", "PM_RELEASE_NODE",
    "PM_SET_REQUIREMENT", "PM_SET_MAX_LATENCY", "PM_RESET_ASSERT",
    "PM_RESET_GET_STATUS", "PM_MMIO_WRITE", "PM_MMIO_READ",
    "PM_INIT_FINALIZE", "PM_FPGA_LOAD", "PM_FPGA_GET_STATUS",
    "PM_GET_CHIPID", "PM_SECURE_RSA_AES", "PM_SECURE_SHA", "PM_SECURE_RSA",
    "PM_PINCTRL_REQUEST", "PM_PINCTRL_RELEASE", "PM_PINCTRL_GET_FUNCTION",
    "PM_PINCTRL_SET_FUNCTION", "PM_PINCTRL_CONFIG_PARAM_GET",
    "PM_PINCTRL_CONFIG_PARAM_SET", "PM_IOCTL", "PM_QUERY_DATA",
    "PM_CLOCK_ENABLE", "PM_CLOCK_DISABLE", "PM_CLOCK_GETSTATE",
    "PM_CLOCK_SETDIVIDER", "PM_CLOCK_GETDIVIDER", "PM_CLOCK_SETRATE",
    "PM_CLOCK_GETRATE", "PM_CLOCK_SETPARENT", "PM_CLOCK_GETPARENT",
    "PM_SECURE_IMAGE", "PM_FPGA_READ", "PM_API_RESERVED_1",
    "PM_PLL_SET_PARAMETER", "PM_PLL_GET_PARAMETER", "PM_PLL_SET_MODE",
    "PM_PLL_GET_MODE", "PM_REGISTER_ACCESS", "PM_EFUSE_ACCESS",
    "PM_ADD_SUBSYSTEM", "PM_DESTROY_SUBSYSTEM", "PM_DESCRIBE_NODES",
    "PM_ADD_NODE", "PM_ADD_NODE_PARENT", "PM_ADD_NODE_NAME",
    "PM_ADD_REQUIREMENT", "PM_SET_CURRENT_SUBSYSTEM", "PM_INIT_NODE",
    "PM_FEATURE_CHECK", "PM_ISO_CONTROL", "PM_ACTIVATE_SUBSYSTEM",
    "PM_WRITE_AES_KEY", "PM_LOAD_PDI", "PM_GET_UID_INFO_LIST",
    "PM_GET_META_HEADER_INFO_LIST", "GET_CALLBACK_DATA",
    "PM_SET_SUSPEND_MODE", "PM_GET_TRUSTZONE_VERSION",
    "TF_A_PM_REGISTER_SGI", "PM_BBRAM_WRITE_KEY", "PM_BBRAM_ZEROIZE",
    "PM_BBRAM_WRITE_USERDATA", "PM_BBRAM_READ_USERDATA",
    "PM_BBRAM_LOCK_USERDATA">>

\* A row was copied and its number not changed.
SipApiIdCopied ==
  [i \in 1..65 |-> i] \o
  <<1384, 1793, 1793, 1798, 2561, 2562, 2563, 2564, 2817, 2818, 2819, 2820, 2821>>

\* sip_api_id
SipApiId ==
  [i \in 1..65 |-> i] \o
  <<1384, 1793, 1797, 1798, 2561, 2562, 2563, 2564, 2817, 2818, 2819, 2820, 2821>>

ApiMax == Len(PmApi)

\* pm_sip_api_id
SipId(api) == IF api < ApiMax THEN SipApiId[api + 1] ELSE 0

\* The value of an enumerator of pm_api_id
Api(name) == CHOOSE i \in 0..ApiMax - 1 : PmApi[i + 1] = name

VARIABLES
  call,   \* the call under way: what it is about
  errno,
  out,    \* what the last call reports besides, <<>> while one is under way
  lines   \* the lines `pm features` has printed

pmVars == <<call, errno, out, lines>>
vars == <<version, cpu, x, ret, queried, call, errno, out, lines>>

Minus1 == Base - 1
PdiSrcDdr == 15
NoCall == [name |-> "none", addr |-> 0, size |-> 0, flags |-> 0]

Lower32(u) == u % Base
Upper32(u) == ((u \div Half) \div Half) % Base

\* pm_result: errno for the result of the call and res.r0; 0 for success.
ResultErrno(result, a0) ==
  CASE result = Success ->
         (CASE a0 \in {0, 2004} -> "0"
            [] a0 \in {4, 19} -> "ENOTSUP"
            [] a0 = 2002 -> "EACCES"
            [] a0 = 2005 -> "ECANCELED"
            [] a0 = 2008 -> "EIO"
            [] OTHER -> "EINVAL")
    [] result = NotSupported -> "ENOTSUP"
    [] OTHER -> "EINVAL"

Init ==
  /\ SmcInit
  /\ call = NoCall
  /\ errno = "0"
  /\ out = <<>>
  /\ lines = <<>>

\* pm_invoke_sip and pm_invoke up to the trap
InvokeSip(name, arg, about) ==
  /\ Trap(FuncId(1, 1, 2, SipId(Api(name))),
          <<arg[2] * Base + arg[1], arg[4] * Base + arg[3], arg[5]>>)
  /\ call' = about
  /\ out' = <<>>
  /\ UNCHANGED <<errno, lines>>

\* rtems_pm_fpga_load
FpgaLoad(addr, size, flags) ==
  InvokeSip("PM_FPGA_LOAD",
            <<Lower32(addr), Upper32(addr), size % Base, flags, 0>>,
            [name |-> "PM_FPGA_LOAD", addr |-> addr, size |-> size, flags |-> flags])

\* The address goes out as it does for an FPGA load.
AcapLoadNoSource(addr) ==
  InvokeSip("PM_LOAD_PDI",
            <<Lower32(addr), Upper32(addr), PdiSrcDdr, 0, 0>>,
            [NoCall EXCEPT !.name = "PM_LOAD_PDI", !.addr = addr])

\* The lower half is not cut off.
AcapLoadWide(addr) ==
  InvokeSip("PM_LOAD_PDI",
            <<PdiSrcDdr, addr, Upper32(addr), 0, 0>>,
            [NoCall EXCEPT !.name = "PM_LOAD_PDI", !.addr = addr])

\* rtems_pm_acap_load behind its checks: the address straddles x1 and x2.
AcapLoad(addr) ==
  InvokeSip("PM_LOAD_PDI",
            <<PdiSrcDdr, Lower32(addr), Upper32(addr), 0, 0>>,
            [NoCall EXCEPT !.name = "PM_LOAD_PDI", !.addr = addr])

\* The queries behind their feature check
Query(name) ==
  InvokeSip(name, <<0, 0, 0, 0, 0>>, [NoCall EXCEPT !.name = name])

\* rtems_pm_feature_check for the next line of `pm features`
FeatureCheck ==
  InvokeSip("PM_FEATURE_CHECK", <<SipId(Len(lines)), 0, 0, 0, 0>>,
            [NoCall EXCEPT !.name = "PM_FEATURE_CHECK"])

\* The error code of a call that has its own result register besides x0.
PmReturnsApart(a0, a1, a2) ==
  /\ call # NoCall
  /\ cpu = "trap" /\ cpu' = "idle"
  /\ errno' = ResultErrno(Success, Lower32(a0))
  /\ ret' = IF errno' = "0" THEN 0 ELSE Minus1
  /\ out' = <<>>
  /\ lines' = lines
  /\ call' = NoCall
  /\ x' = NoArgs
  /\ UNCHANGED <<version, queried>>

\* The end of pm_invoke and pm_result, with what each caller does then.
PmReturns(a0, a1, a2) ==
  /\ call # NoCall
  /\ cpu = "trap" /\ cpu' = "idle"
  /\ errno' = ResultErrno(a0 % Base, Lower32(a0))
  /\ ret' = IF errno' = "0" THEN 0 ELSE Minus1
  /\ out' = CASE call.name = "PM_GET_API_VERSION" ->
                   <<Lower32(a1) \div Half, Lower32(a1) % Half>>
              [] call.name = "PM_GET_CHIPID" -> <<Lower32(a1), Lower32(a2)>>
              [] call.name = "PM_FPGA_GET_STATUS" -> <<Lower32(a1)>>
              [] call.name \in {"PM_FPGA_LOAD", "PM_LOAD_PDI"} -> <<Lower32(a0)>>
              [] OTHER -> <<>>
  /\ lines' = IF call.name # "PM_FEATURE_CHECK" THEN lines
              ELSE Append(lines, [label |-> Labels[Len(lines) + 1],
                                  id |-> SipId(Len(lines))])
  /\ call' = NoCall
  /\ x' = NoArgs
  /\ UNCHANGED <<version, queried>>

\* An API behind the end of the enumeration is refused without a call.
FeatureRefused ==
  /\ cpu = "idle"
  /\ ret' = Minus1
  /\ errno' = "EINVAL"
  /\ UNCHANGED <<version, cpu, x, queried, call, out, lines>>

\* rtems_pm_ioctl and the other calls that are not there yet
Stub ==
  /\ cpu = "idle"
  /\ ret' = Minus1
  /\ UNCHANGED <<version, cpu, x, queried, call, errno, out, lines>>

Next ==
  \/ \E addr \in Addresses, size \in Sizes, flags \in Flags : FpgaLoad(addr, size, flags)
  \/ \E addr \in Addresses : AcapLoad(addr)
  \/ \E name \in {"PM_GET_API_VERSION", "PM_GET_CHIPID", "PM_FPGA_GET_STATUS"} : Query(name)
  \/ Len(lines) < ApiMax /\ FeatureCheck
  \/ \E a0 \in Statuses, a1, a2 \in Values : PmReturns(a0, a1, a2)
  \/ FeatureRefused
  \/ Stub
  \/ (SysInit \/ ArchCall) /\ UNCHANGED pmVars
  \/ \E a0 \in Statuses : call = NoCall /\ TrapReturns(a0) /\ UNCHANGED pmVars

Spec == Init /\ [][Next]_vars

(***************************************************************************)
(* Properties                                                              *)
(***************************************************************************)
TypeOK ==
  /\ version \in {Version10, 1}
  /\ cpu \in {"idle", "trap", "panic"}
  /\ \A i \in 1..3 : x.arg[i] \in Register
  /\ ret \in Word
  /\ queried \in BOOLEAN
  /\ errno \in {"0", "ENOTSUP", "EACCES", "ECANCELED", "EIO", "EINVAL"}
  /\ \A i \in DOMAIN out : out[i] \in Word
  /\ Len(lines) \in 0..ApiMax

\* Argument n of a call as the firmware takes it from the registers.
ArgWord(n) == (x.arg[(n \div 2) + 1] \div (IF n % 2 = 0 THEN 1 ELSE Base)) % Base

\* The firmware reads the image where the caller has it, with the flags and,
\* unless it is too long for a word, the size that the caller gave.
FirmwareReadsImage ==
  cpu = "trap" =>
    /\ call.name = "PM_LOAD_PDI" =>
         /\ ArgWord(0) = PdiSrcDdr
         /\ ArgWord(1) + Base * ArgWord(2) = call.addr
    /\ call.name = "PM_FPGA_LOAD" =>
         /\ ArgWord(0) + Base * ArgWord(1) = call.addr
         /\ call.size < Base => ArgWord(2) = call.size
         /\ ArgWord(3) = call.flags

\* The three tables that list the APIs agree: the number of each line that
\* `pm features` printed is the one the driver calls the API of that name
\* with, and no other API has it.
CalledAsListed ==
  cpu = "trap" /\ call # NoCall =>
    \A i \in DOMAIN lines : lines[i].id = x.id.func <=> lines[i].label = call.name

\* A status of the firmware other than success reaches the caller as ENOTSUP
\* or EINVAL whatever it is: x0 is the result of the call as well as res.r0,
\* so the codes that pm_result translates one by one are never looked at.
StatusLost ==
  errno # "0" => errno \in {"ENOTSUP", "EINVAL"}
=============================================================================
