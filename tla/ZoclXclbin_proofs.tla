------------------------- MODULE ZoclXclbin_proofs -------------------------
(***************************************************************************)
(* ZoclXclbin: types, the safety of the section blocks, complete loads and *)
(* stable apertures, for any xclbins, slots, apertures and heap.           *)
(***************************************************************************)
EXTENDS ZoclXclbin, WellFoundedInduction, TLAPS

(***************************************************************************)
(* The search for a free aperture                                          *)
(***************************************************************************)
Less == {p \in Nat \X Nat : p[1] < p[2]}

LEMMA LessWellFounded == IsWellFoundedOn(Less, Nat)
<1>1. Less = OpToRel(<, Nat)
  BY DEF Less, OpToRel
<1> QED BY <1>1, NatLessThanWellFounded

\* A set of naturals that is not empty has a least element.
LEMMA Least ==
  ASSUME NEW S \in SUBSET Nat, S # {}
  PROVE  \E m \in S : \A n \in S : ~ (n < m)
<1>1. PICK m \in S : \A n \in S : ~ (<<n, m>> \in Less)
  BY LessWellFounded, WFMin
<1> QED BY <1>1 DEF Less

\* zocl_next_free_apt_index finds nothing only if every aperture is in use.
LEMMA FirstFreeFound == FirstFree = {} => \A e \in Entries : apts[e].addr # Null
<1> SUFFICES ASSUME NEW e \in Entries, apts[e].addr = Null PROVE FirstFree # {}
  OBVIOUS
<1> DEFINE S == {f \in Entries : apts[f].addr = Null}
<1>1. S \in SUBSET Nat /\ S # {}
  BY XclbinsAssumption DEF Entries
<1>2. PICK m \in S : \A n \in S : ~ (n < m)
  BY <1>1, Least
<1>3. \A f \in 1..m - 1 : f \in Entries /\ f < m
  BY <1>2, XclbinsAssumption DEF Entries
<1>4. m \in FirstFree
  BY <1>2, <1>3 DEF FirstFree
<1> QED BY <1>4

(***************************************************************************)
(* Types                                                                   *)
(***************************************************************************)
\* The base address of each IP of an xclbin is an address.
LEMMA IpsType ==
  ASSUME NEW x \in Xclbins
  PROVE  /\ Len(Ips[x]) \in Nat
         /\ \A i \in 1..Len(Ips[x]) : Ips[x][i] \in Addrs
<1>1. Ips[x] \in Seq(Addrs)
  BY XclbinsAssumption
<1> QED BY <1>1

LEMMA UuidsType == \A x \in Xclbins : Uuid[x] \in Uuids
BY DEF Uuids

\* zocl_dev_init gives the slots and the apertures values of their types.
LEMMA FreshType ==
  /\ FreshSlots \in [SlotIds -> [idx : 0..NumSlots + 1, uuid : Uuids \cup {Null},
                                 block : Blocks \cup {Null}]]
  /\ FreshApts \in [Entries -> [slot : SlotIds, addr : Addrs \cup {Null}]]
<1>1. 0 \in SlotIds /\ NoIdx \in 0..NumSlots + 1 /\ 0 \in 0..NumSlots + 1
  BY XclbinsAssumption DEF SlotIds, NoIdx
<1> QED BY <1>1 DEF FreshSlots, FreshApts

LEMMA InitSafe == Init => SafetyInv
<1> SUFFICES ASSUME Init PROVE SafetyInv
  OBVIOUS
<1>1. TypeOK
  <2>1. 0 \in SlotIds
    BY XclbinsAssumption DEF SlotIds
  <2> QED BY <2>1, FreshType DEF Init, TypeOK, NoCall, Locations, Results
<1> QED
  BY <1>1 DEF Init, SafetyInv, CallInv, BlockInv, PlaceInv, DoneInv, FullWhenRefused, Placing

\* In zocl_update_apertures the copied sections are those of the xclbin that
\* is being loaded.
LEMMA OwnIps ==
  ASSUME SafetyInv, pc \in {"place", "release"}
  PROVE  /\ SlotIps = Ips[call.xclbin]
         /\ call.xclbin \in Xclbins
         /\ call.slot \in SlotIds
         /\ slots[call.slot].idx = call.slot
BY DEF SafetyInv, TypeOK, CallInv, BlockInv, Placing, SlotIps

LEMMA TypeStep == SafetyInv /\ [Next]_vars => TypeOK'
<1> SUFFICES ASSUME SafetyInv, [Next]_vars PROVE TypeOK'
  OBVIOUS
<1> USE DEF SafetyInv, TypeOK, Locations, Results
<1>1. CASE UNCHANGED vars
  BY <1>1 DEF vars
<1>2. CASE Register
  BY <1>2, FreshType DEF Register
<1>3. CASE Destroy
  BY <1>3 DEF Destroy
<1>4. CASE OutOfRange(NumSlots + 1) \/ InFront(-1)
  BY <1>4 DEF OutOfRange, InFront
<1> SlotIds \subseteq 0..NumSlots + 1
  BY XclbinsAssumption DEF SlotIds
<1>5. ASSUME NEW s \in SlotIds, NEW x \in Xclbins, Refuse(s, x) PROVE TypeOK'
  BY <1>5 DEF Refuse, SetIdx
<1>6. ASSUME NEW s \in SlotIds, NEW x \in Xclbins, AlreadyLoaded(s, x) PROVE TypeOK'
  BY <1>6 DEF AlreadyLoaded, SetIdx
<1>7. ASSUME NEW s \in SlotIds, NEW x \in Xclbins, Accept(s, x) PROVE TypeOK'
  <2>1. slots' \in [SlotIds -> [idx : 0..NumSlots + 1, uuid : Uuids \cup {Null},
                                block : Blocks \cup {Null}]]
    BY <1>7, UuidsType DEF Accept
  <2> QED BY <1>7, <2>1 DEF Accept
<1>8. CASE HasAie
  BY <1>8 DEF HasAie
<1>9. CASE NoAie
  BY <1>9 DEF NoAie
<1>10. CASE AllocFails
  BY <1>10 DEF AllocFails, SetBlock
<1>11. CASE Alloc
  <2>1. PICK b \in Blocks \ heap :
          /\ heap' = heap \cup {b}
          /\ copy' = [copy EXCEPT ![b] = call.xclbin]
          /\ SetBlock(b)
          /\ mine' = b
    BY <1>11 DEF Alloc
  <2> QED BY <1>11, <2>1 DEF Alloc, SetBlock
<1>12. CASE TooManyIps
  BY <1>12 DEF TooManyIps
<1>13. CASE Place
  <2>1. PICK e \in FirstFree :
          apts' = [apts EXCEPT ![e] = [slot |-> slots[call.slot].idx, addr |-> SlotIps[next]]]
    BY <1>13 DEF Place
  <2>2. /\ SlotIps = Ips[call.xclbin]
        /\ call.xclbin \in Xclbins
        /\ slots[call.slot].idx \in SlotIds
        /\ next <= Len(SlotIps)
    BY <1>13, OwnIps DEF Place
  <2>3. SlotIps[next] \in Addrs
    BY <2>2, IpsType
  <2> QED BY <1>13, <2>1, <2>2, <2>3 DEF Place, FirstFree
<1>14. CASE NoSpace
  BY <1>14 DEF NoSpace
<1>15. CASE Placed
  BY <1>15 DEF Placed
<1>16. CASE ReleaseSections
  BY <1>16 DEF ReleaseSections
<1>17. CASE Return
  BY <1>17, XclbinsAssumption DEF Return, NoCall, SlotIds
<1> QED
  BY <1>1, <1>2, <1>3, <1>4, <1>5, <1>6, <1>7, <1>8, <1>9, <1>10, <1>11, <1>12, <1>13,
     <1>14, <1>15, <1>16, <1>17 DEF Next

(***************************************************************************)
(* The other parts of SafetyInv                                            *)
(***************************************************************************)
LEMMA CallStep == SafetyInv /\ [Next]_vars => CallInv'
<1> SUFFICES ASSUME SafetyInv, [Next]_vars PROVE CallInv'
  OBVIOUS
<1> USE DEF SafetyInv, TypeOK, CallInv
<1>1. CASE UNCHANGED vars
  BY <1>1 DEF vars
<1>2. CASE Register \/ Destroy \/ OutOfRange(NumSlots + 1) \/ InFront(-1) \/ Return
  BY <1>2 DEF Register, Destroy, OutOfRange, InFront, Return
<1>3. ASSUME NEW s \in SlotIds, NEW x \in Xclbins,
             Refuse(s, x) \/ AlreadyLoaded(s, x) \/ Accept(s, x)
      PROVE CallInv'
  BY <1>3 DEF Refuse, AlreadyLoaded, Accept, SetIdx
<1>4. CASE HasAie \/ NoAie
  BY <1>4 DEF HasAie, NoAie
<1>5. CASE AllocFails
  BY <1>5 DEF AllocFails, SetBlock
<1>6. CASE Alloc
  BY <1>6 DEF Alloc, SetBlock
<1>7. CASE TooManyIps \/ Place \/ NoSpace \/ Placed \/ ReleaseSections
  BY <1>7 DEF TooManyIps, Place, NoSpace, Placed, ReleaseSections
<1> QED BY <1>1, <1>2, <1>3, <1>4, <1>5, <1>6, <1>7 DEF Next

LEMMA BlockStep == SafetyInv /\ [Next]_vars => BlockInv' /\ DoneInv'
<1> SUFFICES ASSUME SafetyInv, [Next]_vars PROVE BlockInv' /\ DoneInv'
  OBVIOUS
<1> USE DEF SafetyInv, TypeOK, CallInv, BlockInv, DoneInv, Placing
<1>1. CASE UNCHANGED vars
  BY <1>1 DEF vars
<1>2. CASE Register \/ Destroy \/ OutOfRange(NumSlots + 1) \/ InFront(-1) \/ Return
  BY <1>2 DEF Register, Destroy, OutOfRange, InFront, Return
<1>3. ASSUME NEW s \in SlotIds, NEW x \in Xclbins,
             Refuse(s, x) \/ AlreadyLoaded(s, x) \/ Accept(s, x)
      PROVE BlockInv' /\ DoneInv'
  BY <1>3 DEF Refuse, AlreadyLoaded, Accept, SetIdx
<1>4. CASE HasAie \/ NoAie
  BY <1>4 DEF HasAie, NoAie
<1>5. CASE AllocFails
  BY <1>5 DEF AllocFails, SetBlock
<1>6. CASE Alloc
  BY <1>6 DEF Alloc, SetBlock
<1>7. CASE TooManyIps \/ Place \/ NoSpace
  BY <1>7 DEF TooManyIps, Place, NoSpace
<1>8. CASE Placed
  BY <1>8, OwnIps, IpsType DEF Placed
<1>9. CASE ReleaseSections
  BY <1>9 DEF ReleaseSections
<1> QED BY <1>1, <1>2, <1>3, <1>4, <1>5, <1>6, <1>7, <1>8, <1>9 DEF Next

LEMMA PlaceStep == SafetyInv /\ [Next]_vars => PlaceInv'
<1> SUFFICES ASSUME SafetyInv, [Next]_vars PROVE PlaceInv'
  OBVIOUS
<1> USE DEF SafetyInv, PlaceInv, Placing
<1>1. CASE UNCHANGED vars
  BY <1>1 DEF vars
<1>2. CASE Register \/ Destroy \/ OutOfRange(NumSlots + 1) \/ InFront(-1) \/ Return
  BY <1>2 DEF Register, Destroy, OutOfRange, InFront, Return
<1>3. ASSUME NEW s \in SlotIds, NEW x \in Xclbins,
             Refuse(s, x) \/ AlreadyLoaded(s, x) \/ Accept(s, x)
      PROVE PlaceInv'
  BY <1>3 DEF Refuse, AlreadyLoaded, Accept, SetIdx
<1>4. CASE HasAie \/ NoAie \/ AllocFails
  BY <1>4 DEF HasAie, NoAie, AllocFails
<1>5. CASE Alloc
  BY <1>5 DEF Alloc
<1>6. CASE TooManyIps \/ NoSpace \/ Placed \/ ReleaseSections
  BY <1>6 DEF TooManyIps, NoSpace, Placed, ReleaseSections
<1>7. CASE Place
  <2>1. PICK e \in FirstFree :
          apts' = [apts EXCEPT ![e] = [slot |-> slots[call.slot].idx, addr |-> SlotIps[next]]]
    BY <1>7 DEF Place
  <2>2. /\ SlotIps = Ips[call.xclbin]
        /\ slots[call.slot].idx = call.slot
        /\ call.xclbin \in Xclbins
    BY <1>7, OwnIps DEF Place
  <2>3. /\ e \in Entries
        /\ apts[e].addr = Null
        /\ apts' = [apts EXCEPT ![e] = [slot |-> call.slot, addr |-> Ips[call.xclbin][next]]]
        /\ DOMAIN apts = Entries
    BY <2>1, <2>2 DEF FirstFree, TypeOK
  <2>4. SUFFICES ASSUME NEW i \in 1..Len(Ips[call.xclbin]), i < next + 1,
                        Ips[call.xclbin][i] # Null
                 PROVE  \E f \in Entries :
                          apts'[f] = [slot |-> call.slot, addr |-> Ips[call.xclbin][i]]
    BY <1>7 DEF Place
  <2>5. CASE i = next
    BY <2>3, <2>5
  <2>6. CASE i # next
    <3>1. i < next
      BY <2>4, <2>6, IpsType, <2>2 DEF TypeOK
    <3>2. PICK f \in Entries : apts[f] = [slot |-> call.slot, addr |-> Ips[call.xclbin][i]]
      BY <1>7, <2>4, <3>1 DEF Place
    <3>3. f # e
      BY <2>3, <2>4, <3>2
    <3> QED BY <2>3, <3>2, <3>3
  <2> QED BY <2>5, <2>6
<1> QED BY <1>1, <1>2, <1>3, <1>4, <1>5, <1>6, <1>7 DEF Next

LEMMA FullStep == SafetyInv /\ [Next]_vars => FullWhenRefused'
<1> SUFFICES ASSUME SafetyInv, [Next]_vars PROVE FullWhenRefused'
  OBVIOUS
<1> USE DEF SafetyInv, TypeOK, FullWhenRefused
<1>1. CASE UNCHANGED vars
  BY <1>1 DEF vars
<1>2. CASE Register \/ Destroy \/ OutOfRange(NumSlots + 1) \/ InFront(-1) \/ Return
  BY <1>2 DEF Register, Destroy, OutOfRange, InFront, Return
<1>3. ASSUME NEW s \in SlotIds, NEW x \in Xclbins,
             Refuse(s, x) \/ AlreadyLoaded(s, x) \/ Accept(s, x)
      PROVE FullWhenRefused'
  BY <1>3 DEF Refuse, AlreadyLoaded, Accept
<1>4. CASE HasAie \/ NoAie \/ AllocFails \/ Alloc
  BY <1>4 DEF HasAie, NoAie, AllocFails, Alloc
<1>5. CASE Place
  <2>1. PICK e \in FirstFree : TRUE
    BY <1>5 DEF Place
  <2>2. e \in Entries /\ apts[e].addr = Null
    BY <2>1 DEF FirstFree
  <2>3. result # "ENOSPC"
    BY <2>2
  <2> QED BY <1>5, <2>3 DEF Place
<1>6. CASE NoSpace
  BY <1>6, FirstFreeFound DEF NoSpace
<1>7. CASE TooManyIps \/ Placed \/ ReleaseSections
  BY <1>7 DEF TooManyIps, Placed, ReleaseSections
<1> QED BY <1>1, <1>2, <1>3, <1>4, <1>5, <1>6, <1>7 DEF Next

(***************************************************************************)
(* Theorems                                                                *)
(***************************************************************************)
\* SafetyInv is invariant: the blocks, the slot and the apertures of the load
\* under way belong together.
THEOREM Safety == Spec => []SafetyInv
<1>1. SafetyInv /\ [Next]_vars => SafetyInv'
  BY TypeStep, CallStep, BlockStep, PlaceStep, FullStep DEF SafetyInv
<1> QED BY <1>1, InitSafe, PTL DEF Spec

\* The variables of ZoclXclbin have their types.
THEOREM TypeCorrect == Spec => []TypeOK
<1>1. SafetyInv => TypeOK
  BY DEF SafetyInv
<1> QED BY <1>1, Safety, PTL

\* zocl_load_axlf never frees a block twice or one of another load.
THEOREM OwnBlocksFreed == Spec => []FreesItsOwn
<1>1. SafetyInv => FreesItsOwn
  BY DEF SafetyInv, BlockInv, Placing, FreesItsOwn
<1> QED BY <1>1, Safety, PTL

\* ENOSPC means that no aperture is free.
THEOREM FullRefused == Spec => []FullWhenRefused
<1>1. SafetyInv => FullWhenRefused
  BY DEF SafetyInv
<1> QED BY <1>1, Safety, PTL

\* A load that reached the end left nothing out.
THEOREM CompleteLoad == Spec => []LoadedComplete
<1>1. ASSUME SafetyInv, pc = "return", result = "EIO"
      PROVE  /\ call.xclbin \in Xclbins
             /\ \A i \in 1..Len(Ips[call.xclbin]) : i < next
  BY <1>1, IpsType DEF SafetyInv, CallInv, DoneInv, TypeOK
<1>2. SafetyInv => LoadedComplete
  BY <1>1 DEF SafetyInv, CallInv, BlockInv, PlaceInv, Placing, LoadedComplete
<1> QED BY <1>2, Safety, PTL

\* An aperture in use stays what it is until the device is destroyed.
THEOREM StableApertures == Spec => AperturesKept
<1> DEFINE Kept == pc # "absent" => \A e \in Entries : apts[e].addr # Null => apts'[e] = apts[e]
<1>1. ASSUME TypeOK, Next PROVE Kept
  <2>1. CASE Place
    <3>1. PICK f \in FirstFree :
            apts' = [apts EXCEPT ![f] = [slot |-> slots[call.slot].idx, addr |-> SlotIps[next]]]
      BY <2>1 DEF Place
    <3> QED BY <1>1, <3>1 DEF FirstFree, TypeOK
  <2>2. CASE ~ Place /\ ~ Register
    <3>1. apts' = apts
      BY <1>1, <2>2 DEF Next, Destroy, OutOfRange, InFront, Refuse, AlreadyLoaded, Accept, HasAie,
         NoAie, AllocFails, Alloc, TooManyIps, NoSpace, Placed, ReleaseSections, Return
    <3> QED BY <3>1
  <2>3. CASE Register
    BY <2>3 DEF Register
  <2> QED BY <2>1, <2>2, <2>3
<1>2. TypeOK /\ [Next]_vars => [Kept]_vars
  BY <1>1
<1> QED BY <1>2, TypeCorrect, PTL DEF Spec, AperturesKept
=============================================================================
