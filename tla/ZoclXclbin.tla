----------------------------- MODULE ZoclXclbin -----------------------------
(***************************************************************************)
(* The zocl device (rtems/zocl/zocl.c) and the loading of xclbins into its *)
(* slots (rtems/zocl/zocl-xclbin.c).  The driver has no working lock, so   *)
(* the model is one of clients that take turns: a call runs to its end     *)
(* before the next begins, and its steps are those of zocl_load_axlf.      *)
(*                                                                         *)
(* zocl_load_axlf checks an xclbin in a fixed order; Form is the first     *)
(* thing it finds wrong with one, and "flat" if it finds nothing.          *)
(***************************************************************************)
EXTENDS Integers, Sequences

CONSTANTS
  Xclbins,   \* the xclbin files
  Form,      \* what is wrong with each
  Uuid,      \* the UUID in the header of each
  Ips,       \* the base addresses of its IPs and then of its debug IPs
  NumSlots,  \* ZOCL_MAX_SLOTS
  MaxApts,   \* MAX_CU_NUM, the entries of the aperture table
  Blocks,    \* the heap blocks calloc can return
  Null       \* the null pointer, the null UUID, no xclbin

Forms == {"bad_magic", "bad_mode", "no_aie", "no_sections", "flat"}
Uuids == {Uuid[x] : x \in Xclbins}
Addrs == UNION {{Ips[x][i] : i \in 1..Len(Ips[x])} : x \in Xclbins}

ASSUME XclbinsAssumption ==
  /\ NumSlots \in Nat \ {0}
  /\ MaxApts \in Nat \ {0}
  /\ Form \in [Xclbins -> Forms]
  /\ DOMAIN Uuid = Xclbins
  /\ DOMAIN Ips = Xclbins
  /\ \A x \in Xclbins : Ips[x] \in Seq(Addrs)
  /\ Null \notin Blocks \cup Xclbins

VARIABLES
  slots,  \* zocl->slots: slot_idx, uuid and sections.ip
  apts,   \* zocl->cu_subdevs.apertures: slot_idx and addr
  heap,   \* the section blocks that calloc has handed out
  copy,   \* the xclbin whose sections a block holds
  pc,     \* where the call under way is
  call,   \* its slot and its xclbin
  mine,   \* the block it allocated
  next,   \* the IP that zocl_update_apertures is at
  result  \* the result of the last call, or the one on its way out

vars == <<slots, apts, heap, copy, pc, call, mine, next, result>>

\* The slot ids that zocl_load_axlf accepts and that name memory of the device.
\* The slot after the array is memory of cu_subdevs that nothing else uses, so a
\* load into it works.
SlotIds == 0..NumSlots
Entries == 1..MaxApts

NoIdx == NumSlots + 1   \* slot_idx = -1
NoCall == [slot |-> 0, xclbin |-> Null]

\* zocl_dev_init: memset, then slot_idx of the slots of the array.
FreshSlots ==
  [s \in SlotIds |-> [idx |-> IF s < NumSlots THEN NoIdx ELSE 0,
                      uuid |-> Null, block |-> Null]]
FreshApts == [e \in Entries |-> [slot |-> 0, addr |-> Null]]

Init ==
  /\ slots = FreshSlots
  /\ apts = FreshApts
  /\ heap = {}
  /\ copy = [b \in Blocks |-> Null]
  /\ pc = "absent"
  /\ call = NoCall
  /\ mine = Null
  /\ next = 1
  /\ result = "none"

\* Mistaken searches: one looks at the entry after the one it returns, one
\* does not look at the last entry.
FirstFreeOneBack ==
  {e \in Entries : /\ e = MaxApts \/ apts[e + 1].addr = Null
                   /\ \A f \in 1..e - 1 : apts[f].addr # Null}

FirstFreeButLast ==
  {e \in 1..MaxApts - 1 : /\ apts[e].addr = Null
                          /\ \A f \in 1..e - 1 : apts[f].addr # Null}

\* The entries that zocl_next_free_apt_index may return: the first free one.
FirstFree ==
  {e \in Entries : /\ apts[e].addr = Null
                   /\ \A f \in 1..e - 1 : apts[f].addr # Null}

\* The IPs in the copied sections of the slot of the call.
SlotIps == Ips[copy[slots[call.slot].block]]

(***************************************************************************)
(* Plausible mistakes in the code below, each of them caught by a property.*)
(***************************************************************************)
\* A loop over the IPs that leaves out the last one.
PlacedButLast ==
  /\ pc = "place"
  /\ next >= Len(SlotIps)
  /\ pc' = "return"
  /\ result' = "EIO"
  /\ UNCHANGED <<slots, apts, heap, copy, call, mine, next>>

\* A failed allocation ends like failed apertures do, and the sections are
\* not cleared before it.
AllocFailsReleases ==
  /\ pc = "alloc"
  /\ pc' = "release"
  /\ result' = "ENOMEM"
  /\ UNCHANGED <<slots, apts, heap, copy, call, mine, next>>

\* The UUID of the new xclbin is not copied into the slot.
AcceptKeepsUuid(s, x) ==
  /\ pc = "ready"
  /\ s <= NumSlots
  /\ Form[x] \notin {"bad_magic", "bad_mode"}
  /\ slots[s].uuid # Uuid[x]
  /\ slots' = [slots EXCEPT ![s].idx = s]
  /\ call' = [slot |-> s, xclbin |-> x]
  /\ pc' = "aie"
  /\ result' = "none"
  /\ UNCHANGED <<apts, heap, copy, mine, next>>

(***************************************************************************)
(* The device node                                                         *)
(***************************************************************************)
Register ==
  /\ pc = "absent"
  /\ slots' = FreshSlots
  /\ apts' = FreshApts
  /\ pc' = "ready"
  /\ result' = "none"
  /\ UNCHANGED <<heap, copy, call, mine, next>>

\* zocl_node_destroy frees the device and not the sections of its slots.
Destroy ==
  /\ pc = "ready"
  /\ pc' = "absent"
  /\ result' = "none"
  /\ UNCHANGED <<slots, apts, heap, copy, call, mine, next>>

(***************************************************************************)
(* zocl_load_axlf                                                          *)
(***************************************************************************)
\* The slot id is refused and nothing is touched.
OutOfRange(s) ==
  /\ pc = "ready"
  /\ s > NumSlots
  /\ result' = "EINVAL"
  /\ UNCHANGED <<slots, apts, heap, copy, pc, call, mine, next>>

\* A negative slot id passes the check.  The load writes to the memory in front
\* of the array (num_pr_slot, the lock, the heap in front of the device), and
\* the model ends: what follows is anything.
InFront(s) ==
  /\ pc = "ready"
  /\ s < 0
  /\ pc' = "fault"
  /\ result' = "none"
  /\ UNCHANGED <<slots, apts, heap, copy, call, mine, next>>

SetIdx(s) == slots' = [slots EXCEPT ![s].idx = s]

Refuse(s, x) ==
  /\ pc = "ready"
  /\ s <= NumSlots
  /\ Form[x] \in {"bad_magic", "bad_mode"}
  /\ SetIdx(s)
  /\ result' = "EINVAL"
  /\ UNCHANGED <<apts, heap, copy, pc, call, mine, next>>

\* The message is "xclbin is already loaded".
AlreadyLoaded(s, x) ==
  /\ pc = "ready"
  /\ s <= NumSlots
  /\ Form[x] \notin {"bad_magic", "bad_mode"}
  /\ slots[s].uuid = Uuid[x]
  /\ SetIdx(s)
  /\ result' = "already"
  /\ call' = [slot |-> s, xclbin |-> x]
  /\ pc' = "return"
  /\ UNCHANGED <<apts, heap, copy, mine, next>>

Accept(s, x) ==
  /\ pc = "ready"
  /\ s <= NumSlots
  /\ Form[x] \notin {"bad_magic", "bad_mode"}
  /\ slots[s].uuid # Uuid[x]
  /\ slots' = [slots EXCEPT ![s].idx = s, ![s].uuid = Uuid[x]]
  /\ call' = [slot |-> s, xclbin |-> x]
  /\ pc' = "aie"
  /\ result' = "none"
  /\ UNCHANGED <<apts, heap, copy, mine, next>>

HasAie ==
  /\ pc = "aie"
  /\ Form[call.xclbin] # "no_aie"
  /\ pc' = "alloc"
  /\ UNCHANGED <<slots, apts, heap, copy, call, mine, next, result>>

\* zocl_get_sect stores NULL through base_, which is NULL here: a fault, or,
\* where address 0 can be written, the error of xrt_xclbin_section_info.
NoAie ==
  /\ pc = "aie"
  /\ Form[call.xclbin] = "no_aie"
  /\ \/ pc' = "fault" /\ UNCHANGED result
     \/ pc' = "return" /\ result' = "EINVAL"
  /\ UNCHANGED <<slots, apts, heap, copy, call, mine, next>>

\* zocl_slot_sections_alloc begins with a memset of the slot's sections.
SetBlock(b) == slots' = [slots EXCEPT ![call.slot].block = b]

AllocFails ==
  /\ pc = "alloc"
  /\ SetBlock(Null)
  /\ pc' = "return"
  /\ result' = IF Form[call.xclbin] = "no_sections" THEN "EINVAL" ELSE "ENOMEM"
  /\ UNCHANGED <<apts, heap, copy, call, mine, next>>

Alloc ==
  /\ pc = "alloc"
  /\ Form[call.xclbin] = "flat"
  /\ \E b \in Blocks \ heap :
       /\ heap' = heap \cup {b}
       /\ copy' = [copy EXCEPT ![b] = call.xclbin]
       /\ SetBlock(b)
       /\ mine' = b
  /\ pc' = "place"
  /\ next' = 1
  /\ UNCHANGED <<apts, call, result>>

(***************************************************************************)
(* zocl_update_apertures.  MAX_APT_NUM is twice MAX_CU_NUM.                *)
(***************************************************************************)
TooManyIps ==
  /\ pc = "place"
  /\ Len(SlotIps) > 2 * MaxApts
  /\ pc' = "release"
  /\ result' = "EINVAL"
  /\ UNCHANGED <<slots, apts, heap, copy, call, mine, next>>

Place ==
  /\ pc = "place"
  /\ Len(SlotIps) <= 2 * MaxApts
  /\ next <= Len(SlotIps)
  /\ \E e \in FirstFree :
       apts' = [apts EXCEPT ![e] = [slot |-> slots[call.slot].idx,
                                    addr |-> SlotIps[next]]]
  /\ next' = next + 1
  /\ UNCHANGED <<slots, heap, copy, pc, call, mine, result>>

NoSpace ==
  /\ pc = "place"
  /\ Len(SlotIps) <= 2 * MaxApts
  /\ next <= Len(SlotIps)
  /\ FirstFree = {}
  /\ pc' = "release"
  /\ result' = "ENOSPC"
  /\ UNCHANGED <<slots, apts, heap, copy, call, mine, next>>

\* zocl_load_axlf ends with EIO: nothing is programmed yet.
Placed ==
  /\ pc = "place"
  /\ next > Len(SlotIps)
  /\ pc' = "return"
  /\ result' = "EIO"
  /\ UNCHANGED <<slots, apts, heap, copy, call, mine, next>>

\* zocl_slot_sections_free leaves the pointer in the slot.
ReleaseSections ==
  /\ pc = "release"
  /\ heap' = heap \ {slots[call.slot].block}
  /\ pc' = "return"
  /\ UNCHANGED <<slots, apts, copy, call, mine, next, result>>

Return ==
  /\ pc = "return"
  /\ pc' = "ready"
  /\ call' = NoCall
  /\ mine' = Null
  /\ next' = 1
  /\ UNCHANGED <<slots, apts, heap, copy, result>>

Next ==
  \/ Register \/ Destroy
  \/ OutOfRange(NumSlots + 1) \/ InFront(-1)
  \/ \E s \in SlotIds, x \in Xclbins : Refuse(s, x) \/ AlreadyLoaded(s, x) \/ Accept(s, x)
  \/ HasAie \/ NoAie \/ AllocFails \/ Alloc
  \/ TooManyIps \/ Place \/ NoSpace \/ Placed
  \/ ReleaseSections \/ Return

Spec == Init /\ [][Next]_vars

(***************************************************************************)
(* Properties                                                              *)
(***************************************************************************)
Locations == {"absent", "ready", "aie", "alloc", "place", "release", "return", "fault"}
Results == {"none", "EINVAL", "ENOMEM", "ENOSPC", "EIO", "already"}

TypeOK ==
  /\ slots \in [SlotIds -> [idx : 0..NumSlots + 1, uuid : Uuids \cup {Null},
                            block : Blocks \cup {Null}]]
  /\ apts \in [Entries -> [slot : SlotIds, addr : Addrs \cup {Null}]]
  /\ heap \subseteq Blocks
  /\ copy \in [Blocks -> Xclbins \cup {Null}]
  /\ pc \in Locations
  /\ call \in [slot : SlotIds, xclbin : Xclbins \cup {Null}]
  /\ mine \in Blocks \cup {Null}
  /\ next \in Nat \ {0}
  /\ result \in Results

\* What zocl_load_axlf frees is what it has itself allocated in this call,
\* and is still allocated: a failed load leaves a dangling pointer in the
\* slot, and no later load frees it again.
FreesItsOwn ==
  pc = "release" => mine \in heap /\ slots[call.slot].block = mine

\* An aperture in use is never given to another IP while the device lives.
AperturesKept ==
  [][pc # "absent" => \A e \in Entries : apts[e].addr # Null => apts'[e] = apts[e]]_vars

\* A load is refused for want of apertures only when all are in use.
FullWhenRefused ==
  result = "ENOSPC" => \A e \in Entries : apts[e].addr # Null

\* A load that went all the way has a copy of the sections in its slot, under
\* the UUID of the xclbin, and an aperture for each IP that has an address.
LoadedComplete ==
  pc = "return" /\ result = "EIO" =>
    LET slot == slots[call.slot]
        x == call.xclbin IN
    /\ slot.idx = call.slot
    /\ slot.uuid = Uuid[x]
    /\ slot.block \in heap
    /\ copy[slot.block] = x
    /\ \A i \in 1..Len(Ips[x]) : Ips[x][i] # Null =>
         \E e \in Entries : apts[e] = [slot |-> call.slot, addr |-> Ips[x][i]]

\* An xclbin is said to be loaded already only if the slot has its sections.
AlreadyTrue ==
  pc = "return" /\ result = "already" =>
    LET slot == slots[call.slot] IN
    slot.block \in heap /\ copy[slot.block] = call.xclbin

(***************************************************************************)
(* The inductive invariant behind FreesItsOwn and LoadedComplete.          *)
(***************************************************************************)
Placing == pc = "place" \/ pc = "release" \/ (pc = "return" /\ result = "EIO")

CallInv ==
  /\ pc \in {"aie", "alloc", "place", "release", "return"} =>
       /\ call.xclbin \in Xclbins
       /\ slots[call.slot].idx = call.slot
       /\ slots[call.slot].uuid = Uuid[call.xclbin]

BlockInv ==
  Placing =>
    /\ mine \in heap
    /\ slots[call.slot].block = mine
    /\ copy[mine] = call.xclbin

PlaceInv ==
  Placing => \A i \in 1..Len(Ips[call.xclbin]) :
    i < next /\ Ips[call.xclbin][i] # Null =>
      \E e \in Entries : apts[e] = [slot |-> call.slot, addr |-> Ips[call.xclbin][i]]

DoneInv ==
  /\ pc = "return" /\ result = "EIO" => next > Len(Ips[call.xclbin])
  /\ result = "EIO" => pc \in {"ready", "return"}

SafetyInv == TypeOK /\ CallInv /\ BlockInv /\ PlaceInv /\ DoneInv /\ FullWhenRefused
=============================================================================
