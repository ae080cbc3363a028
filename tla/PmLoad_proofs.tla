---------------------------- MODULE PmLoad_proofs ----------------------------
(***************************************************************************)
(* Proofs about PmLoad, for any number of sessions, buffers and images.    *)
(***************************************************************************)
EXTENDS PmLoad, TLAPS

USE DEF loader, memory, lock

-----------------------------------------------------------------------------
(* Types *)

LEMMA PrefixType ==
  ASSUME NEW content \in Content, NEW n \in Nat
  PROVE  Prefix(content, n) \in Content
BY DEF Prefix, Content

LEMMA EmptyType == Empty \in Content
BY DEF Empty, Content

LEMMA GotoType ==
  ASSUME NEW t \in Tasks, NEW l \in Locations, TypeOK, Goto(t, l)
  PROVE  pc' \in [Tasks -> Locations]
BY DEF TypeOK, Goto

\* Return leaves the variables of the session as Init has them.
LEMMA ReturnType ==
  ASSUME NEW t \in Tasks, TypeOK, Return(t)
  PROVE  /\ pc' \in [Tasks -> Locations]
         /\ cmd' \in [Tasks -> Commands \cup {None}]
         /\ size' \in [Tasks -> 0..MaxBlocks]
         /\ left' \in [Tasks -> 0..MaxBlocks]
         /\ buf' \in [Tasks -> Buffers \cup {None}]
         /\ rc' \in [Tasks -> {"none", "ok", "failed"}]
<1>1. "idle" \in Locations /\ 0 \in 0..MaxBlocks
  BY ImagesAssumption DEF Locations
<1>2. pc' \in [Tasks -> Locations]
  BY <1>1, GotoType DEF Return
<1> QED
  BY <1>1, <1>2 DEF Return, TypeOK

LEMMA ReleaseType ==
  ASSUME NEW t \in Tasks, TypeOK, Release(t)
  PROVE  /\ heap' \subseteq Buffers
         /\ mem' \in [Buffers -> Content]
         /\ ddr' \in [Buffers -> Content]
BY EmptyType DEF TypeOK, Release

\* Every step of the commands keeps the types.
LEMMA TypeStep == TypeOK /\ BufferInv /\ [Next]_vars => TypeOK'
<1> SUFFICES ASSUME TypeOK, BufferInv, [Next]_vars PROVE TypeOK'
  OBVIOUS
<1> USE GotoType, ReturnType, ReleaseType, EmptyType, PrefixType
<1>0. Locations =
       {"idle", "malloc", "open", "read", "check", "show", "flush", "lock",
        "blocked", "firmware", "unlock", "free"}
  BY DEF Locations
<1>1. ASSUME NEW t \in Tasks, NEW c \in Commands, Stat(t, c) PROVE TypeOK'
  <2>1. \A f \in Images : Blocks[f] \in 0..MaxBlocks
    BY ImagesAssumption
  <2>2. size' \in [Tasks -> 0..MaxBlocks]
    BY <1>1, <2>1 DEF Stat, TypeOK
  <2>3. cmd' \in [Tasks -> Commands \cup {None}]
    BY <1>1 DEF Stat, TypeOK
  <2> QED
    BY <1>0, <1>1, <2>2, <2>3 DEF Stat, TypeOK
<1>2. ASSUME NEW t \in Tasks, Malloc(t) PROVE TypeOK'
  BY <1>0, <1>2 DEF Malloc, TypeOK
<1>3. ASSUME NEW t \in Tasks, MallocFails(t) PROVE TypeOK'
  BY <1>3 DEF MallocFails, TypeOK
<1>4. ASSUME NEW t \in Tasks, Open(t) PROVE TypeOK'
  BY <1>0, <1>4 DEF Open, TypeOK
<1>5. ASSUME NEW t \in Tasks, OpenFails(t) PROVE TypeOK'
  BY <1>5 DEF OpenFails, TypeOK
<1>6. ASSUME NEW t \in Tasks, ReadBlock(t) PROVE TypeOK'
  <2>1. PICK f \in Images :
          mem' = [mem EXCEPT ![buf[t]] = [@ EXCEPT ![size[t] - left[t] + 1] = f]]
    BY <1>6 DEF ReadBlock
  <2>2. mem' \in [Buffers -> Content]
    <3> DEFINE content == [mem[buf[t]] EXCEPT ![size[t] - left[t] + 1] = f]
    <3>1. buf[t] \in Buffers => content \in Content
      <4> SUFFICES ASSUME buf[t] \in Buffers PROVE content \in Content
        OBVIOUS
      <4>1. mem[buf[t]] \in [1..MaxBlocks -> Images \cup {Junk}]
        BY DEF TypeOK, Content
      <4> QED
        BY <4>1 DEF Content
    <3>2. mem \in [Buffers -> Content]
      BY DEF TypeOK
    <3>3. mem' = [mem EXCEPT ![buf[t]] = content]
      BY <2>1
    <3> HIDE DEF content
    <3> QED
      BY <3>1, <3>2, <3>3
  <2>3. left[t] \in 0..MaxBlocks /\ left[t] > 0 /\ left' = [left EXCEPT ![t] = left[t] - 1]
    BY <1>6 DEF ReadBlock, TypeOK
  <2>4. left[t] - 1 \in 0..MaxBlocks
    BY <2>3, ImagesAssumption
  <2>5. left' \in [Tasks -> 0..MaxBlocks]
    BY <2>3, <2>4 DEF TypeOK
  <2> QED
    BY <1>6, <2>2, <2>5 DEF ReadBlock, TypeOK
<1>7. ASSUME NEW t \in Tasks, ReadFails(t) PROVE TypeOK'
  BY <1>7 DEF ReadFails, TypeOK
<1>8. ASSUME NEW t \in Tasks, ReadDone(t) PROVE TypeOK'
  <2>1. AfterRead(cmd[t]) \in Locations
    BY DEF AfterRead, Locations
  <2> QED
    BY <1>8, <2>1 DEF ReadDone, TypeOK
<1>9. ASSUME NEW t \in Tasks, Show(t) PROVE TypeOK'
  BY <1>0, <1>9 DEF Show, TypeOK
<1>10. ASSUME NEW t \in Tasks, CheckHeader(t) PROVE TypeOK'
  BY <1>0, <1>10 DEF CheckHeader, TypeOK
<1>11. ASSUME NEW t \in Tasks, RefuseHeader(t) PROVE TypeOK'
  BY <1>0, <1>11 DEF RefuseHeader, TypeOK
<1>12. ASSUME NEW t \in Tasks, Flush(t) PROVE TypeOK'
  <2>1. ASSUME NEW b \in Buffers PROVE Prefix(mem[b], size[t]) \in Content
    BY ImagesAssumption DEF TypeOK
  <2>2. ddr' \in [Buffers -> Content]
    BY <1>12, <2>1 DEF Flush, TypeOK
  <2>3. pc' \in [Tasks -> Locations]
    BY <1>0, <1>12 DEF Flush
  <2> QED
    BY <1>12, <2>2, <2>3 DEF Flush, TypeOK
<1>13. ASSUME NEW t \in Tasks, Lock(t) PROVE TypeOK'
  BY <1>0, <1>13 DEF Lock, TypeOK
<1>14. ASSUME NEW t \in Tasks, Block(t) PROVE TypeOK'
  <2>1. Append(queue, t) \in Seq(Tasks)
    BY DEF TypeOK
  <2> QED
    BY <1>0, <1>14, <2>1 DEF Block, TypeOK
<1>15. ASSUME NEW t \in Tasks, FirmwareAccepts(t) PROVE TypeOK'
  <2>1. AfterFirmware(cmd[t]) \in Locations
    BY DEF AfterFirmware, Locations
  <2>2. fabric' \in Content
    <3>1. buf[t] \in Buffers
      BY <1>15 DEF FirmwareAccepts, BufferInv, HasBuffer, TypeOK
    <3>2. Seen(t) \in Content
      BY <3>1, ImagesAssumption DEF Seen, TypeOK
    <3> QED
      BY <1>15, <3>2 DEF FirmwareAccepts, TypeOK
  <2> QED
    BY <1>15, <2>1, <2>2 DEF FirmwareAccepts, TypeOK
<1>16. ASSUME NEW t \in Tasks, FirmwareRefuses(t) PROVE TypeOK'
  <2>1. AfterFirmware(cmd[t]) \in Locations
    BY DEF AfterFirmware, Locations
  <2> QED
    BY <1>16, <2>1 DEF FirmwareRefuses, TypeOK
<1>17. ASSUME NEW t \in Tasks, Unlock(t) PROVE TypeOK'
  BY <1>0, <1>17 DEF Unlock, TypeOK
<1>18. ASSUME NEW t \in Tasks, HandOver(t) PROVE TypeOK'
  <2>1. Head(queue) \in Tasks /\ Tail(queue) \in Seq(Tasks)
    BY <1>18 DEF HandOver, TypeOK
  <2> QED
    BY <1>0, <1>18, <2>1 DEF HandOver, TypeOK
<1>19. ASSUME NEW t \in Tasks, Free(t) PROVE TypeOK'
  BY <1>19 DEF Free, TypeOK
<1>20. ASSUME NEW b \in Buffers, NEW i \in 1..MaxBlocks, WriteBack(b, i)
       PROVE  TypeOK'
  BY <1>20 DEF WriteBack, TypeOK, Content
<1>21. CASE UNCHANGED vars
  BY <1>21 DEF vars, TypeOK
<1> QED
  BY <1>1, <1>2, <1>3, <1>4, <1>5, <1>6, <1>7, <1>8, <1>9, <1>10, <1>11, <1>12,
     <1>13, <1>14, <1>15, <1>16, <1>17, <1>18, <1>19, <1>20, <1>21
     DEF Next, Session, Firmware

-----------------------------------------------------------------------------
(* The commands *)

\* What a session that blocks, or is handed the lock, does to the queue.
LEMMA AppendFacts ==
  ASSUME NEW S, NEW q \in Seq(S), NEW x \in S, NoRepeats(q), x \notin Members(q)
  PROVE  Members(Append(q, x)) = Members(q) \cup {x} /\ NoRepeats(Append(q, x))
<1>1. /\ DOMAIN q = 1..Len(q) /\ Len(q) \in Nat
      /\ DOMAIN Append(q, x) = 1..(Len(q) + 1)
      /\ \A i \in 1..Len(q) : Append(q, x)[i] = q[i]
      /\ Append(q, x)[Len(q) + 1] = x
  OBVIOUS
<1> QED
  BY <1>1 DEF Members, NoRepeats

LEMMA TailFacts ==
  ASSUME NEW S, NEW q \in Seq(S), q # <<>>, NoRepeats(q)
  PROVE  /\ Members(Tail(q)) = Members(q) \ {Head(q)}
         /\ NoRepeats(Tail(q))
         /\ Head(q) \in Members(q)
         /\ Head(q) \in S
<1>1. /\ DOMAIN q = 1..Len(q) /\ Len(q) \in Nat \ {0}
      /\ DOMAIN Tail(q) = 1..(Len(q) - 1)
      /\ \A i \in 1..(Len(q) - 1) : Tail(q)[i] = q[i + 1]
      /\ Head(q) = q[1]
  OBVIOUS
<1>2. \A i \in 2..Len(q) : i - 1 \in DOMAIN Tail(q) /\ Tail(q)[i - 1] = q[i]
  BY <1>1
<1>3. \A i \in 2..Len(q) : q[i] # q[1]
  BY <1>1 DEF NoRepeats
<1>4. Members(Tail(q)) \subseteq Members(q) \ {Head(q)}
  BY <1>1, <1>3 DEF Members
<1>5. Members(q) \ {Head(q)} \subseteq Members(Tail(q))
  <2> SUFFICES ASSUME NEW i \in DOMAIN q, q[i] # q[1] PROVE q[i] \in Members(Tail(q))
    BY <1>1 DEF Members
  <2>1. i \in 2..Len(q)
    BY <1>1
  <2> QED
    BY <2>1, <1>2 DEF Members
<1>6. NoRepeats(Tail(q))
  <2> SUFFICES ASSUME NEW i \in 1..(Len(q) - 1), NEW j \in 1..(Len(q) - 1),
                      q[i + 1] = q[j + 1]
               PROVE  i = j
    BY <1>1 DEF NoRepeats
  <2>1. i + 1 \in DOMAIN q /\ j + 1 \in DOMAIN q
    BY <1>1
  <2>2. i + 1 = j + 1
    BY <2>1 DEF NoRepeats
  <2> QED
    BY <2>2
<1>7. Head(q) \in Members(q) /\ Head(q) \in S
  BY <1>1 DEF Members
<1> QED
  BY <1>4, <1>5, <1>6, <1>7

\* The session that is handed the lock was waiting for it.
LEMMA NextInLine ==
  ASSUME TypeOK, LockInv, CommandInv, queue # <<>>
  PROVE  /\ Head(queue) \in Tasks
         /\ pc[Head(queue)] = "blocked"
         /\ cmd[Head(queue)] = "acap_load"
         /\ rc[Head(queue)] = "none"
<1>1. Head(queue) \in Tasks /\ Head(queue) \in Members(queue)
  BY TailFacts DEF TypeOK, LockInv
<1> QED
  BY <1>1 DEF LockInv, CommandInv

\* Every step of the commands keeps CommandInv.
LEMMA CommandStep == TypeOK /\ LockInv /\ CommandInv /\ [Next]_vars => CommandInv'
<1> SUFFICES ASSUME TypeOK, LockInv, CommandInv, [Next]_vars PROVE CommandInv'
  OBVIOUS
<1> USE NoneAssumption DEF TypeOK, CommandInv, Commands
<1>1. ASSUME NEW t \in Tasks, NEW c \in Commands, Stat(t, c) PROVE CommandInv'
  BY <1>1 DEF Stat, Goto
<1>2. ASSUME NEW t \in Tasks, Malloc(t) PROVE CommandInv'
  BY <1>2 DEF Malloc, Goto
<1>3. ASSUME NEW t \in Tasks, MallocFails(t) PROVE CommandInv'
  BY <1>3 DEF MallocFails, Goto, Return
<1>4. ASSUME NEW t \in Tasks, Open(t) PROVE CommandInv'
  BY <1>4 DEF Open, Goto
<1>5. ASSUME NEW t \in Tasks, OpenFails(t) PROVE CommandInv'
  BY <1>5 DEF OpenFails, Goto, Return
<1>6. ASSUME NEW t \in Tasks, ReadBlock(t) PROVE CommandInv'
  BY <1>6 DEF ReadBlock, Goto
<1>7. ASSUME NEW t \in Tasks, ReadFails(t) PROVE CommandInv'
  BY <1>7 DEF ReadFails, Goto, Return
<1>8. ASSUME NEW t \in Tasks, ReadDone(t) PROVE CommandInv'
  BY <1>8 DEF ReadDone, Goto, AfterRead
<1>9. ASSUME NEW t \in Tasks, Show(t) PROVE CommandInv'
  BY <1>9 DEF Show, Goto
<1>10. ASSUME NEW t \in Tasks, CheckHeader(t) PROVE CommandInv'
  BY <1>10 DEF CheckHeader, Goto
<1>11. ASSUME NEW t \in Tasks, RefuseHeader(t) PROVE CommandInv'
  BY <1>11 DEF RefuseHeader, Goto
<1>12. ASSUME NEW t \in Tasks, Flush(t) PROVE CommandInv'
  BY <1>12 DEF Flush, Goto
<1>13. ASSUME NEW t \in Tasks, Lock(t) PROVE CommandInv'
  BY <1>13 DEF Lock, Goto
<1>14. ASSUME NEW t \in Tasks, Block(t) PROVE CommandInv'
  BY <1>14 DEF Block, Goto
<1>15. ASSUME NEW t \in Tasks, FirmwareAccepts(t) PROVE CommandInv'
  BY <1>15 DEF FirmwareAccepts, Goto, AfterFirmware
<1>16. ASSUME NEW t \in Tasks, FirmwareRefuses(t) PROVE CommandInv'
  BY <1>16 DEF FirmwareRefuses, Goto, AfterFirmware
<1>17. ASSUME NEW t \in Tasks, Unlock(t) PROVE CommandInv'
  BY <1>17 DEF Unlock, Goto
<1>18. ASSUME NEW t \in Tasks, HandOver(t) PROVE CommandInv'
  <2> DEFINE next == Head(queue)
  <2>1. /\ pc[t] = "unlock" /\ cmd' = cmd /\ rc' = rc /\ queue # <<>>
        /\ pc' = [pc EXCEPT ![t] = "free", ![next] = "firmware"]
    BY <1>18 DEF HandOver
  <2>2. /\ pc[next] = "blocked" /\ cmd[next] = "acap_load" /\ rc[next] = "none"
        /\ next \in Tasks
    BY <2>1, NextInLine
  <2> HIDE DEF next
  <2> QED
    BY <2>1, <2>2
<1>19. ASSUME NEW t \in Tasks, Free(t) PROVE CommandInv'
  BY <1>19 DEF Free, Goto, Return
<1>20. ASSUME NEW b \in Buffers, NEW i \in 1..MaxBlocks, WriteBack(b, i)
       PROVE  CommandInv'
  BY <1>20 DEF WriteBack
<1>21. CASE UNCHANGED vars
  BY <1>21 DEF vars
<1> QED
  BY <1>1, <1>2, <1>3, <1>4, <1>5, <1>6, <1>7, <1>8, <1>9, <1>10, <1>11, <1>12,
     <1>13, <1>14, <1>15, <1>16, <1>17, <1>18, <1>19, <1>20, <1>21
     DEF Next, Session, Firmware

\* Every step of the commands keeps LockInv.
LEMMA LockStep == TypeOK /\ LockInv /\ CommandInv /\ [Next]_vars => LockInv'
<1> SUFFICES ASSUME TypeOK, LockInv, CommandInv, [Next]_vars PROVE LockInv'
  OBVIOUS
<1> USE NoneAssumption
<1>1. ASSUME NEW t \in Tasks, NEW c \in Commands, Stat(t, c) PROVE LockInv'
  BY <1>1 DEF Stat, Goto, TypeOK, CommandInv, LockInv
<1>2. ASSUME NEW t \in Tasks, Malloc(t) PROVE LockInv'
  BY <1>2 DEF Malloc, Goto, TypeOK, CommandInv, LockInv
<1>3. ASSUME NEW t \in Tasks, MallocFails(t) PROVE LockInv'
  BY <1>3 DEF MallocFails, Goto, Return, TypeOK, CommandInv, LockInv
<1>4. ASSUME NEW t \in Tasks, Open(t) PROVE LockInv'
  BY <1>4 DEF Open, Goto, TypeOK, CommandInv, LockInv
<1>5. ASSUME NEW t \in Tasks, OpenFails(t) PROVE LockInv'
  BY <1>5 DEF OpenFails, Goto, Return, TypeOK, CommandInv, LockInv
<1>6. ASSUME NEW t \in Tasks, ReadBlock(t) PROVE LockInv'
  BY <1>6 DEF ReadBlock, Goto, TypeOK, CommandInv, LockInv
<1>7. ASSUME NEW t \in Tasks, ReadFails(t) PROVE LockInv'
  BY <1>7 DEF ReadFails, Goto, Return, TypeOK, CommandInv, LockInv
<1>8. ASSUME NEW t \in Tasks, ReadDone(t) PROVE LockInv'
  BY <1>8 DEF ReadDone, Goto, AfterRead, TypeOK, CommandInv, LockInv
<1>9. ASSUME NEW t \in Tasks, Show(t) PROVE LockInv'
  BY <1>9 DEF Show, Goto, TypeOK, CommandInv, LockInv
<1>10. ASSUME NEW t \in Tasks, CheckHeader(t) PROVE LockInv'
  BY <1>10 DEF CheckHeader, Goto, TypeOK, CommandInv, LockInv
<1>11. ASSUME NEW t \in Tasks, RefuseHeader(t) PROVE LockInv'
  BY <1>11 DEF RefuseHeader, Goto, TypeOK, CommandInv, LockInv
<1>12. ASSUME NEW t \in Tasks, Flush(t) PROVE LockInv'
  BY <1>12 DEF Flush, Goto, TypeOK, CommandInv, LockInv
<1>13. ASSUME NEW t \in Tasks, Lock(t) PROVE LockInv'
  BY <1>13 DEF Lock, Goto, TypeOK, CommandInv, LockInv
<1>14. ASSUME NEW t \in Tasks, Block(t) PROVE LockInv'
  <2>1. /\ pc[t] = "lock" /\ owner # None /\ owner' = owner /\ cmd' = cmd
        /\ pc' = [pc EXCEPT ![t] = "blocked"] /\ queue' = Append(queue, t)
    BY <1>14 DEF Block, Goto, TypeOK, CommandInv, LockInv
  <2>2. t \notin Members(queue) /\ owner # t
    BY <2>1 DEF LockInv
  <2>3. Members(queue') = Members(queue) \cup {t} /\ NoRepeats(queue')
    BY <2>1, <2>2, AppendFacts DEF LockInv, TypeOK
  <2> QED
    BY <2>1, <2>2, <2>3 DEF LockInv, TypeOK
<1>15. ASSUME NEW t \in Tasks, FirmwareAccepts(t) PROVE LockInv'
  BY <1>15 DEF FirmwareAccepts, Goto, AfterFirmware, TypeOK, CommandInv, LockInv
<1>16. ASSUME NEW t \in Tasks, FirmwareRefuses(t) PROVE LockInv'
  BY <1>16 DEF FirmwareRefuses, Goto, AfterFirmware, TypeOK, CommandInv, LockInv
<1>17. ASSUME NEW t \in Tasks, Unlock(t) PROVE LockInv'
  BY <1>17 DEF Unlock, Goto, TypeOK, CommandInv, LockInv
<1>18. ASSUME NEW t \in Tasks, HandOver(t) PROVE LockInv'
  <2> DEFINE next == Head(queue)
  <2>1. /\ pc[t] = "unlock" /\ owner' = next /\ cmd' = cmd /\ queue # <<>>
        /\ pc' = [pc EXCEPT ![t] = "free", ![next] = "firmware"]
        /\ queue' = Tail(queue)
    BY <1>18 DEF HandOver
  <2>2. /\ Members(queue') = Members(queue) \ {next}
        /\ NoRepeats(queue') /\ next \in Members(queue) /\ next \in Tasks
    BY <2>1, TailFacts DEF LockInv, TypeOK
  <2>3. pc[next] = "blocked" /\ cmd[next] = "acap_load" /\ next # t /\ owner = t
    BY <2>1, <2>2, NextInLine DEF LockInv, CommandInv
  <2> HIDE DEF next
  <2>4. pc' \in [Tasks -> Locations] /\ pc \in [Tasks -> Locations]
    BY <2>1, <2>2 DEF TypeOK, Locations
  <2>5. /\ pc'[t] = "free" /\ pc'[next] = "firmware"
        /\ \A s \in Tasks \ {t, next} : pc'[s] = pc[s]
    BY <2>1, <2>2, <2>3, <2>4
  <2>6. \A s \in Tasks : pc'[s] = "blocked" <=> s \in Members(queue')
    BY <2>1, <2>2, <2>3, <2>5 DEF LockInv
  <2>7. \A s \in Tasks :
          next = s <=> cmd[s] = "acap_load" /\ pc'[s] \in {"firmware", "unlock"}
    BY <2>2, <2>3, <2>5 DEF LockInv
  <2> QED
    BY <2>1, <2>2, <2>6, <2>7, NoneAssumption DEF LockInv
<1>19. ASSUME NEW t \in Tasks, Free(t) PROVE LockInv'
  BY <1>19 DEF Free, Goto, Return, TypeOK, CommandInv, LockInv
<1>20. ASSUME NEW b \in Buffers, NEW i \in 1..MaxBlocks, WriteBack(b, i)
       PROVE  LockInv'
  BY <1>20 DEF WriteBack, TypeOK, CommandInv, LockInv
<1>21. CASE UNCHANGED vars
  BY <1>21 DEF vars, TypeOK, CommandInv, LockInv
<1> QED
  BY <1>1, <1>2, <1>3, <1>4, <1>5, <1>6, <1>7, <1>8, <1>9, <1>10, <1>11, <1>12,
     <1>13, <1>14, <1>15, <1>16, <1>17, <1>18, <1>19, <1>20, <1>21
     DEF Next, Session, Firmware

-----------------------------------------------------------------------------
(* Buffers and descriptors *)

Buffered == BufferInv /\ BuffersAccounted

LEMMA BuffersKept ==
  ASSUME TypeOK, Buffered, buf' = buf, heap' = heap,
         \A t \in Tasks : HasBuffer(t)' <=> HasBuffer(t)
  PROVE  Buffered'
BY DEF Buffered, BufferInv, BuffersAccounted

\* A command that ends with free() gives back its buffer and no other.
LEMMA BufferReturned ==
  ASSUME TypeOK, Buffered, NEW t \in Tasks, HasBuffer(t), Release(t), Return(t)
  PROVE  Buffered'
<1>1. /\ heap' = heap \ {buf[t]}
      /\ buf' = [buf EXCEPT ![t] = None]
      /\ ~ HasBuffer(t)'
      /\ \A s \in Tasks \ {t} : HasBuffer(s)' <=> HasBuffer(s)
  BY DEF Release, Return, Goto, HasBuffer, TypeOK
<1>2. \A s \in Tasks \ {t} : HasBuffer(s) => buf[s] # buf[t] /\ buf'[s] = buf[s]
  BY <1>1 DEF Buffered, BufferInv, TypeOK
<1>3. BufferInv'
  BY <1>1, <1>2 DEF Buffered, BufferInv, TypeOK
<1>4. BuffersAccounted'
  BY <1>1, <1>2 DEF Buffered, BufferInv, BuffersAccounted
<1> QED
  BY <1>3, <1>4 DEF Buffered

LEMMA BufferStep ==
  TypeOK /\ LockInv /\ CommandInv /\ Buffered /\ [Next]_vars => Buffered'
<1> SUFFICES ASSUME TypeOK, LockInv, CommandInv, Buffered, [Next]_vars
             PROVE  Buffered'
  OBVIOUS
<1> USE BuffersKept, BufferReturned DEF HasBuffer
<1>1. ASSUME NEW t \in Tasks, NEW c \in Commands, Stat(t, c) PROVE Buffered'
  BY <1>1 DEF Stat, Goto, TypeOK
<1>2. ASSUME NEW t \in Tasks, Malloc(t) PROVE Buffered'
  <2>1. PICK b \in Buffers \ heap :
          heap' = heap \cup {b} /\ buf' = [buf EXCEPT ![t] = b]
    BY <1>2 DEF Malloc
  <2>2. /\ ~ HasBuffer(t) /\ HasBuffer(t)'
        /\ \A s \in Tasks \ {t} : (HasBuffer(s)' <=> HasBuffer(s)) /\ buf'[s] = buf[s]
        /\ buf'[t] = b
    BY <1>2, <2>1 DEF Malloc, Goto, TypeOK
  <2>3. BufferInv'
    BY <2>1, <2>2, NoneAssumption DEF Buffered, BufferInv, TypeOK
  <2>4. BuffersAccounted'
    BY <2>1, <2>2 DEF Buffered, BufferInv, BuffersAccounted
  <2> QED
    BY <2>3, <2>4 DEF Buffered
<1>3. ASSUME NEW t \in Tasks, MallocFails(t) PROVE Buffered'
  <2>1. pc[t] = "malloc" /\ heap' = heap /\ buf' = [buf EXCEPT ![t] = None]
        /\ pc' = [pc EXCEPT ![t] = "idle"]
    BY <1>3 DEF MallocFails, Return, Goto
  <2>2. buf[t] = None
    BY <2>1 DEF Buffered, BufferInv
  <2>3. buf' = buf
    BY <2>1, <2>2 DEF TypeOK
  <2> QED
    BY <2>1, <2>3 DEF TypeOK
<1>4. ASSUME NEW t \in Tasks, Open(t) PROVE Buffered'
  BY <1>4 DEF Open, Goto, TypeOK
<1>5. ASSUME NEW t \in Tasks, OpenFails(t) PROVE Buffered'
  BY <1>5 DEF OpenFails, TypeOK
<1>6. ASSUME NEW t \in Tasks, ReadBlock(t) PROVE Buffered'
  BY <1>6 DEF ReadBlock, TypeOK
<1>7. ASSUME NEW t \in Tasks, ReadFails(t) PROVE Buffered'
  BY <1>7 DEF ReadFails, TypeOK
<1>8. ASSUME NEW t \in Tasks, ReadDone(t) PROVE Buffered'
  BY <1>8 DEF ReadDone, AfterRead, Goto, TypeOK
<1>9. ASSUME NEW t \in Tasks, Show(t) PROVE Buffered'
  BY <1>9 DEF Show, Goto, TypeOK
<1>10. ASSUME NEW t \in Tasks, CheckHeader(t) PROVE Buffered'
  BY <1>10 DEF CheckHeader, Goto, TypeOK
<1>11. ASSUME NEW t \in Tasks, RefuseHeader(t) PROVE Buffered'
  BY <1>11 DEF RefuseHeader, Goto, TypeOK
<1>12. ASSUME NEW t \in Tasks, Flush(t) PROVE Buffered'
  BY <1>12 DEF Flush, Goto, TypeOK
<1>13. ASSUME NEW t \in Tasks, Lock(t) PROVE Buffered'
  BY <1>13 DEF Lock, Goto, TypeOK
<1>14. ASSUME NEW t \in Tasks, Block(t) PROVE Buffered'
  BY <1>14 DEF Block, Goto, TypeOK
<1>15. ASSUME NEW t \in Tasks, FirmwareAccepts(t) PROVE Buffered'
  BY <1>15 DEF FirmwareAccepts, AfterFirmware, Goto, TypeOK
<1>16. ASSUME NEW t \in Tasks, FirmwareRefuses(t) PROVE Buffered'
  BY <1>16 DEF FirmwareRefuses, AfterFirmware, Goto, TypeOK
<1>17. ASSUME NEW t \in Tasks, Unlock(t) PROVE Buffered'
  BY <1>17 DEF Unlock, Goto, TypeOK
<1>18. ASSUME NEW t \in Tasks, HandOver(t) PROVE Buffered'
  <2> DEFINE next == Head(queue)
  <2>1. /\ pc[t] = "unlock" /\ pc' = [pc EXCEPT ![t] = "free", ![next] = "firmware"]
        /\ buf' = buf /\ heap' = heap /\ queue # <<>>
    BY <1>18 DEF HandOver
  <2>2. next \in Tasks /\ pc[next] = "blocked"
    BY <2>1, NextInLine
  <2> HIDE DEF next
  <2> QED
    BY <2>1, <2>2 DEF TypeOK
<1>19. ASSUME NEW t \in Tasks, Free(t) PROVE Buffered'
  BY <1>19 DEF Free, TypeOK
<1>20. ASSUME NEW b \in Buffers, NEW i \in 1..MaxBlocks, WriteBack(b, i)
       PROVE  Buffered'
  BY <1>20 DEF WriteBack
<1>21. CASE UNCHANGED vars
  BY <1>21 DEF vars
<1> QED
  BY <1>1, <1>2, <1>3, <1>4, <1>5, <1>6, <1>7, <1>8, <1>9, <1>10, <1>11, <1>12,
     <1>13, <1>14, <1>15, <1>16, <1>17, <1>18, <1>19, <1>20, <1>21
     DEF Next, Session, Firmware

\* Every step of the commands keeps DescriptorsAccounted.
LEMMA DescriptorStep ==
  TypeOK /\ LockInv /\ CommandInv /\ DescriptorsAccounted /\ [Next]_vars
    => DescriptorsAccounted'
<1> SUFFICES ASSUME TypeOK, LockInv, CommandInv, DescriptorsAccounted, [Next]_vars
             PROVE  DescriptorsAccounted'
  OBVIOUS
<1> USE DEF DescriptorsAccounted, TypeOK, Goto
<1>1. ASSUME NEW t \in Tasks, NEW c \in Commands, Stat(t, c)
      PROVE  DescriptorsAccounted'
  BY <1>1 DEF Stat
<1>2. ASSUME NEW t \in Tasks, Malloc(t) PROVE DescriptorsAccounted'
  BY <1>2 DEF Malloc
<1>3. ASSUME NEW t \in Tasks, MallocFails(t) PROVE DescriptorsAccounted'
  BY <1>3 DEF MallocFails, Return
<1>4. ASSUME NEW t \in Tasks, Open(t) PROVE DescriptorsAccounted'
  BY <1>4 DEF Open
<1>5. ASSUME NEW t \in Tasks, OpenFails(t) PROVE DescriptorsAccounted'
  BY <1>5 DEF OpenFails, Return
<1>6. ASSUME NEW t \in Tasks, ReadBlock(t) PROVE DescriptorsAccounted'
  BY <1>6 DEF ReadBlock
<1>7. ASSUME NEW t \in Tasks, ReadFails(t) PROVE DescriptorsAccounted'
  BY <1>7 DEF ReadFails, Return
<1>8. ASSUME NEW t \in Tasks, ReadDone(t) PROVE DescriptorsAccounted'
  BY <1>8 DEF ReadDone, AfterRead
<1>9. ASSUME NEW t \in Tasks, Show(t) PROVE DescriptorsAccounted'
  BY <1>9 DEF Show
<1>10. ASSUME NEW t \in Tasks, CheckHeader(t) PROVE DescriptorsAccounted'
  BY <1>10 DEF CheckHeader
<1>11. ASSUME NEW t \in Tasks, RefuseHeader(t) PROVE DescriptorsAccounted'
  BY <1>11 DEF RefuseHeader
<1>12. ASSUME NEW t \in Tasks, Flush(t) PROVE DescriptorsAccounted'
  BY <1>12 DEF Flush
<1>13. ASSUME NEW t \in Tasks, Lock(t) PROVE DescriptorsAccounted'
  BY <1>13 DEF Lock
<1>14. ASSUME NEW t \in Tasks, Block(t) PROVE DescriptorsAccounted'
  BY <1>14 DEF Block
<1>15. ASSUME NEW t \in Tasks, FirmwareAccepts(t) PROVE DescriptorsAccounted'
  BY <1>15 DEF FirmwareAccepts, AfterFirmware
<1>16. ASSUME NEW t \in Tasks, FirmwareRefuses(t) PROVE DescriptorsAccounted'
  BY <1>16 DEF FirmwareRefuses, AfterFirmware
<1>17. ASSUME NEW t \in Tasks, Unlock(t) PROVE DescriptorsAccounted'
  BY <1>17 DEF Unlock
<1>18. ASSUME NEW t \in Tasks, HandOver(t) PROVE DescriptorsAccounted'
  <2> DEFINE next == Head(queue)
  <2>1. /\ pc[t] = "unlock" /\ pc' = [pc EXCEPT ![t] = "free", ![next] = "firmware"]
        /\ fds' = fds /\ queue # <<>>
    BY <1>18 DEF HandOver
  <2>2. next \in Tasks /\ pc[next] = "blocked"
    BY <2>1, NextInLine
  <2> HIDE DEF next
  <2> QED
    BY <2>1, <2>2
<1>19. ASSUME NEW t \in Tasks, Free(t) PROVE DescriptorsAccounted'
  BY <1>19 DEF Free, Return
<1>20. ASSUME NEW b \in Buffers, NEW i \in 1..MaxBlocks, WriteBack(b, i)
       PROVE  DescriptorsAccounted'
  BY <1>20 DEF WriteBack
<1>21. CASE UNCHANGED vars
  BY <1>21 DEF vars
<1> QED
  BY <1>1, <1>2, <1>3, <1>4, <1>5, <1>6, <1>7, <1>8, <1>9, <1>10, <1>11, <1>12,
     <1>13, <1>14, <1>15, <1>16, <1>17, <1>18, <1>19, <1>20, <1>21
     DEF Next, Session, Firmware

-----------------------------------------------------------------------------
(* The content of the buffers *)

\* The buffers of the other sessions hold what they held.
Undisturbed(t) ==
  /\ \A s \in Tasks \ {t} : /\ pc'[s] = pc[s] /\ cmd'[s] = cmd[s]
                            /\ size'[s] = size[s] /\ left'[s] = left[s]
                            /\ buf'[s] = buf[s]
  /\ \A b \in Buffers \ {buf[t]} : mem'[b] = mem[b] /\ ddr'[b] = ddr[b]
  /\ ~ HasBuffer(t) => mem' = mem /\ ddr' = ddr

LEMMA OthersKept ==
  ASSUME TypeOK, BufferInv, CommandInv, ContentInv, NEW t \in Tasks, Undisturbed(t)
  PROVE  \A s \in Tasks \ {t} : ContentOf(s)'
<1> SUFFICES ASSUME NEW s \in Tasks \ {t} PROVE ContentOf(s)'
  OBVIOUS
<1>1. /\ pc'[s] = pc[s] /\ cmd'[s] = cmd[s] /\ size'[s] = size[s]
      /\ left'[s] = left[s] /\ buf'[s] = buf[s]
  BY DEF Undisturbed
<1>2. HasBuffer(s) => mem'[buf[s]] = mem[buf[s]] /\ ddr'[buf[s]] = ddr[buf[s]]
  BY DEF Undisturbed, BufferInv, TypeOK
<1>3. ContentOf(s)
  BY DEF ContentInv
<1>4. CASE HasBuffer(s)
  BY <1>1, <1>2, <1>3, <1>4 DEF ContentOf, Loaded
<1>5. CASE ~ HasBuffer(s)
  BY <1>1, <1>3, <1>5, NoneAssumption DEF ContentOf, HasBuffer, CommandInv
<1> QED
  BY <1>4, <1>5

\* A session that ends leaves nothing to say about its buffer.
LEMMA ContentReturned ==
  ASSUME TypeOK, BufferInv, CommandInv, ContentInv, NEW t \in Tasks,
         HasBuffer(t), Release(t), Return(t)
  PROVE  ContentInv'
<1>1. Undisturbed(t)
  BY DEF Undisturbed, Release, Return, Goto, TypeOK, BufferInv
<1>2. ContentOf(t)'
  BY NoneAssumption DEF ContentOf, Return, Goto, TypeOK, Commands
<1> QED
  BY <1>1, <1>2, OthersKept DEF ContentInv

\* Every step of the commands keeps ContentInv.
LEMMA ContentStep ==
  TypeOK /\ LockInv /\ CommandInv /\ BufferInv /\ ContentInv /\ [Next]_vars
    => ContentInv'
<1> SUFFICES ASSUME TypeOK, LockInv, CommandInv, BufferInv, ContentInv, [Next]_vars
             PROVE  ContentInv'
  OBVIOUS
<1>0. ASSUME NEW t \in Tasks, Undisturbed(t), ContentOf(t)' PROVE ContentInv'
  BY <1>0, OthersKept DEF ContentInv
<1>1. ASSUME NEW t \in Tasks, NEW c \in Commands, Stat(t, c) PROVE ContentInv'
  <2>1. Undisturbed(t)
    BY <1>1 DEF Stat, Goto, Undisturbed, TypeOK
  <2>2. PICK f \in Images : size' = [size EXCEPT ![t] = Blocks[f]]
    BY <1>1 DEF Stat
  <2>3. size'[t] > 0 /\ pc'[t] = "malloc"
    BY <1>1, <2>2, ImagesAssumption DEF Stat, Goto, TypeOK
  <2>4. ContentOf(t)'
    BY <2>3 DEF ContentOf
  <2> QED
    BY <1>0, <2>1, <2>4
<1>2. ASSUME NEW t \in Tasks, Malloc(t) PROVE ContentInv'
  <2>1. Undisturbed(t)
    BY <1>2 DEF Malloc, Goto, Undisturbed, TypeOK
  <2>2. ContentOf(t)'
    BY <1>2 DEF Malloc, Goto, ContentInv, ContentOf, Loaded, TypeOK
  <2> QED
    BY <1>0, <2>1, <2>2
<1>3. ASSUME NEW t \in Tasks, MallocFails(t) PROVE ContentInv'
  <2>1. Undisturbed(t)
    BY <1>3 DEF MallocFails, Return, Goto, Undisturbed, TypeOK
  <2>2. ContentOf(t)'
    BY <1>3, NoneAssumption DEF MallocFails, Return, Goto, ContentOf, TypeOK, Commands
  <2> QED
    BY <1>0, <2>1, <2>2
<1>4. ASSUME NEW t \in Tasks, Open(t) PROVE ContentInv'
  <2>1. Undisturbed(t)
    BY <1>4 DEF Open, Goto, Undisturbed, TypeOK
  <2>2. ContentOf(t)'
    BY <1>4 DEF Open, Goto, ContentInv, ContentOf, Loaded, TypeOK
  <2> QED
    BY <1>0, <2>1, <2>2
<1>5. ASSUME NEW t \in Tasks, OpenFails(t) PROVE ContentInv'
  BY <1>5, ContentReturned DEF OpenFails, HasBuffer
<1>6. ASSUME NEW t \in Tasks, ReadBlock(t) PROVE ContentInv'
  <2> DEFINE pos == size[t] - left[t] + 1
  <2>1. PICK f \in Images : mem' = [mem EXCEPT ![buf[t]] = [@ EXCEPT ![pos] = f]]
    BY <1>6 DEF ReadBlock
  <2>2. /\ pc[t] = "read" /\ left[t] \in 1..size[t] /\ size[t] \in 1..MaxBlocks
        /\ left' = [left EXCEPT ![t] = left[t] - 1]
        /\ UNCHANGED <<pc, cmd, size, buf, ddr>>
    BY <1>6, ImagesAssumption DEF ReadBlock, ContentInv, ContentOf, TypeOK
  <2>3. pos \in 1..MaxBlocks /\ size[t] - (left[t] - 1) = pos /\ left[t] - 1 <= size[t]
    BY <2>2, ImagesAssumption
  <2>4. buf[t] \in Buffers
    BY <2>2 DEF BufferInv, HasBuffer, TypeOK
  <2>5. mem[buf[t]] \in [1..MaxBlocks -> Images \cup {Junk}]
    BY <2>4 DEF TypeOK, Content
  <2> HIDE DEF pos
  <2>6. mem'[buf[t]] = [mem[buf[t]] EXCEPT ![pos] = f]
    BY <2>1, <2>4 DEF TypeOK
  <2>7. \A i \in 1..pos : mem'[buf[t]][i] \in Images
    <3>1. \A i \in 1..(pos - 1) : mem[buf[t]][i] \in Images
      BY <2>2 DEF ContentInv, ContentOf, Loaded, pos
    <3> QED
      BY <2>3, <2>5, <2>6, <3>1, ImagesAssumption
  <2>8. ContentOf(t)'
    BY <2>2, <2>3, <2>7 DEF ContentOf, Loaded, TypeOK
  <2>9. Undisturbed(t)
    BY <2>1, <2>2 DEF Undisturbed, HasBuffer, TypeOK
  <2> QED
    BY <1>0, <2>8, <2>9
<1>7. ASSUME NEW t \in Tasks, ReadFails(t) PROVE ContentInv'
  BY <1>7, ContentReturned DEF ReadFails, HasBuffer
<1>8. ASSUME NEW t \in Tasks, ReadDone(t) PROVE ContentInv'
  <2>1. Undisturbed(t)
    BY <1>8 DEF ReadDone, Goto, Undisturbed, TypeOK
  <2>2. /\ pc[t] = "read" /\ pc'[t] = AfterRead(cmd[t])
        /\ left[t] = 0 /\ cmd[t] \in Commands
        /\ UNCHANGED <<cmd, size, left, buf, mem, ddr>>
    BY <1>8 DEF ReadDone, Goto, TypeOK, CommandInv
  <2>3. Loaded(t, size[t]) /\ size[t] > 0
    BY <2>2, ImagesAssumption DEF ContentInv, ContentOf, TypeOK
  <2>4. pc'[t] \in {"check", "show", "flush"} /\ (pc'[t] = "flush" => cmd[t] # "acap_load")
    BY <2>2 DEF AfterRead, Commands
  <2>5. ContentOf(t)'
    BY <2>2, <2>3, <2>4 DEF ContentOf, Loaded
  <2> QED
    BY <1>0, <2>1, <2>5
<1>9. ASSUME NEW t \in Tasks, Show(t) PROVE ContentInv'
  <2>1. Undisturbed(t)
    BY <1>9 DEF Show, Goto, Undisturbed, TypeOK
  <2>2. ContentOf(t)'
    BY <1>9 DEF Show, Goto, ContentInv, ContentOf, Loaded, TypeOK
  <2> QED
    BY <1>0, <2>1, <2>2
<1>10. ASSUME NEW t \in Tasks, CheckHeader(t) PROVE ContentInv'
  <2>1. Undisturbed(t)
    BY <1>10 DEF CheckHeader, Goto, Undisturbed, TypeOK
  <2>2. mem[buf[t]][1] \in Images
    <3>1. pc[t] = "check"
      BY <1>10 DEF CheckHeader
    <3>2. size[t] > 0 /\ \A i \in 1..size[t] : mem[buf[t]][i] \in Images
      BY <3>1 DEF ContentInv, ContentOf, Loaded
    <3>3. 1 \in 1..size[t]
      BY <3>2, ImagesAssumption DEF TypeOK
    <3> QED
      BY <3>2, <3>3
  <2>3. Kind[mem[buf[t]][1]] = "partial"
    BY <1>10, <2>2, NoneAssumption DEF CheckHeader, HeaderKind
  <2>4. pc[t] = "check" /\ pc'[t] = "flush" /\ UNCHANGED <<cmd, size, left, buf, mem, ddr>>
    BY <1>10 DEF CheckHeader, Goto, TypeOK
  <2>5. ContentOf(t)'
    BY <2>3, <2>4 DEF ContentInv, ContentOf, Loaded
  <2> QED
    BY <1>0, <2>1, <2>5
<1>11. ASSUME NEW t \in Tasks, RefuseHeader(t) PROVE ContentInv'
  <2>1. Undisturbed(t)
    BY <1>11 DEF RefuseHeader, Goto, Undisturbed, TypeOK
  <2>2. ContentOf(t)'
    BY <1>11 DEF RefuseHeader, Goto, ContentInv, ContentOf, Loaded, TypeOK
  <2> QED
    BY <1>0, <2>1, <2>2
<1>12. ASSUME NEW t \in Tasks, Flush(t) PROVE ContentInv'
  <2>1. Undisturbed(t)
    BY <1>12 DEF Flush, Goto, Undisturbed, HasBuffer, TypeOK
  <2>2. pc[t] = "flush" /\ pc'[t] \in {"lock", "firmware"}
        /\ UNCHANGED <<cmd, size, left, buf, mem>>
    BY <1>12 DEF Flush, Goto, TypeOK
  <2>3. buf[t] \in Buffers
    BY <2>2 DEF BufferInv, HasBuffer, TypeOK
  <2>4. ddr'[buf[t]] = Prefix(mem[buf[t]], size[t])
    BY <1>12, <2>3 DEF Flush, TypeOK
  <2>5. \A i \in 1..size[t] : ddr'[buf[t]][i] = mem[buf[t]][i]
    BY <2>4, ImagesAssumption DEF Prefix, TypeOK
  <2>6. ContentOf(t)'
    BY <2>2, <2>5 DEF ContentInv, ContentOf, Loaded
  <2> QED
    BY <1>0, <2>1, <2>6
<1>13. ASSUME NEW t \in Tasks, Lock(t) PROVE ContentInv'
  <2>1. Undisturbed(t)
    BY <1>13 DEF Lock, Goto, Undisturbed, TypeOK
  <2>2. ContentOf(t)'
    BY <1>13 DEF Lock, Goto, ContentInv, ContentOf, Loaded, TypeOK
  <2> QED
    BY <1>0, <2>1, <2>2
<1>14. ASSUME NEW t \in Tasks, Block(t) PROVE ContentInv'
  <2>1. Undisturbed(t)
    BY <1>14 DEF Block, Goto, Undisturbed, TypeOK
  <2>2. ContentOf(t)'
    BY <1>14 DEF Block, Goto, ContentInv, ContentOf, Loaded, TypeOK
  <2> QED
    BY <1>0, <2>1, <2>2
<1>15. ASSUME NEW t \in Tasks, FirmwareAccepts(t) PROVE ContentInv'
  <2>1. Undisturbed(t)
    BY <1>15 DEF FirmwareAccepts, Goto, Undisturbed, TypeOK
  <2>2. ContentOf(t)'
    BY <1>15 DEF FirmwareAccepts, Goto, AfterFirmware, ContentInv, ContentOf, Loaded, TypeOK
  <2> QED
    BY <1>0, <2>1, <2>2
<1>16. ASSUME NEW t \in Tasks, FirmwareRefuses(t) PROVE ContentInv'
  <2>1. Undisturbed(t)
    BY <1>16 DEF FirmwareRefuses, Goto, Undisturbed, TypeOK
  <2>2. ContentOf(t)'
    BY <1>16 DEF FirmwareRefuses, Goto, AfterFirmware, ContentInv, ContentOf, Loaded, TypeOK
  <2> QED
    BY <1>0, <2>1, <2>2
<1>17. ASSUME NEW t \in Tasks, Unlock(t) PROVE ContentInv'
  <2>1. Undisturbed(t)
    BY <1>17 DEF Unlock, Goto, Undisturbed, TypeOK
  <2>2. ContentOf(t)'
    BY <1>17 DEF Unlock, Goto, ContentInv, ContentOf, Loaded, TypeOK
  <2> QED
    BY <1>0, <2>1, <2>2
<1>18. ASSUME NEW t \in Tasks, HandOver(t) PROVE ContentInv'
  <2> DEFINE next == Head(queue)
  <2>1. /\ pc[t] = "unlock" /\ pc' = [pc EXCEPT ![t] = "free", ![next] = "firmware"]
        /\ UNCHANGED <<cmd, size, left, buf, mem, ddr>> /\ queue # <<>>
    BY <1>18 DEF HandOver
  <2>2. next \in Tasks /\ pc[next] = "blocked"
    BY <2>1, NextInLine
  <2> HIDE DEF next
  <2> SUFFICES ASSUME NEW s \in Tasks PROVE ContentOf(s)'
    BY DEF ContentInv
  <2>3. \/ pc'[s] = pc[s]
        \/ pc[s] = "blocked" /\ pc'[s] = "firmware"
        \/ pc[s] = "unlock" /\ pc'[s] = "free"
    BY <2>1, <2>2 DEF TypeOK
  <2> QED
    BY <2>1, <2>3 DEF ContentInv, ContentOf, Loaded
<1>19. ASSUME NEW t \in Tasks, Free(t) PROVE ContentInv'
  BY <1>19, ContentReturned DEF Free, HasBuffer
<1>20. ASSUME NEW b \in Buffers, NEW i \in 1..MaxBlocks, WriteBack(b, i)
       PROVE  ContentInv'
  <2> SUFFICES ASSUME NEW s \in Tasks PROVE ContentOf(s)'
    BY DEF ContentInv
  <2>1. \A j : ddr[buf[s]][j] = mem[buf[s]][j] => ddr'[buf[s]][j] = mem[buf[s]][j]
    BY <1>20 DEF WriteBack, TypeOK, Content
  <2> QED
    BY <1>20, <2>1 DEF WriteBack, ContentInv, ContentOf, Loaded
<1>21. CASE UNCHANGED vars
  BY <1>21 DEF vars, ContentInv, ContentOf, Loaded
<1> QED
  BY <1>1, <1>2, <1>3, <1>4, <1>5, <1>6, <1>7, <1>8, <1>9, <1>10, <1>11, <1>12,
     <1>13, <1>14, <1>15, <1>16, <1>17, <1>18, <1>19, <1>20, <1>21
     DEF Next, Session, Firmware

-----------------------------------------------------------------------------
(* The theorems *)

LEMMA InitSafety == Init => SafetyInv
<1> SUFFICES ASSUME Init PROVE SafetyInv
  OBVIOUS
<1>1. TypeOK
  BY EmptyType, ImagesAssumption DEF Init, TypeOK, Locations
<1>2. LockInv /\ CommandInv
  BY NoneAssumption DEF Init, LockInv, CommandInv, Members, NoRepeats, Commands
<1>3. BufferInv /\ BuffersAccounted /\ DescriptorsAccounted
  BY DEF Init, BufferInv, BuffersAccounted, DescriptorsAccounted, HasBuffer
<1>4. ContentInv
  BY NoneAssumption DEF Init, ContentInv, ContentOf, Commands
<1> QED
  BY <1>1, <1>2, <1>3, <1>4 DEF SafetyInv

LEMMA SafetyStep == SafetyInv /\ [Next]_vars => SafetyInv'
BY TypeStep, LockStep, CommandStep, BufferStep, DescriptorStep, ContentStep
   DEF SafetyInv, Buffered

\* The inductive invariant: who holds the lock, who waits for it, who owns
\* which buffer, and what the buffers hold at each point of a command.
THEOREM Safety == Spec => []SafetyInv
BY InitSafety, SafetyStep, PTL DEF Spec

\* The variables have their types.
THEOREM TypeCorrect == Spec => []TypeOK
BY Safety, PTL DEF SafetyInv

\* fpga_lock admits one session to PM_LOAD_PDI.
THEOREM Exclusion == Spec => []PdiExclusive
<1>1. SafetyInv => PdiExclusive
  BY DEF SafetyInv, LockInv, PdiExclusive, LoadsPdi
<1> QED
  BY <1>1, Safety, PTL

\* No command loses its buffer, frees it early or shares it.
THEOREM NoLeak == Spec => []BuffersAccounted
BY Safety, PTL DEF SafetyInv

\* Every way out of pm_image_load closes the file.
THEOREM NoOpenFile == Spec => []DescriptorsAccounted
BY Safety, PTL DEF SafetyInv

\* The firmware reads what pm_image_load read.
THEOREM Coherence == Spec => []FirmwareSeesImage
<1>1. SafetyInv => FirmwareSeesImage
  BY NoneAssumption DEF SafetyInv, ContentInv, ContentOf, Loaded, FirmwareSeesImage
<1> QED
  BY <1>1, Safety, PTL

-----------------------------------------------------------------------------
(* The load commands implement the PDI port *)

\* A step of another session leaves the session in the firmware alone.
LEMMA PortKept ==
  ASSUME TypeOK, BufferInv, NEW t \in Tasks, Undisturbed(t), owner' = owner, owner # t
  PROVE  Serving' = Serving /\ Offer' = Offer
<1>1. CASE owner = None
  BY <1>1 DEF Serving, Offer, InFirmware
<1>2. CASE owner # None
  <2>1. owner \in Tasks \ {t}
    BY <1>2 DEF TypeOK
  <2>2. pc'[owner] = pc[owner] /\ size'[owner] = size[owner] /\ buf'[owner] = buf[owner]
    BY <2>1 DEF Undisturbed
  <2>3. ASSUME pc[owner] = "firmware" PROVE ddr'[buf[owner]] = ddr[buf[owner]]
    BY <2>1, <2>3 DEF Undisturbed, BufferInv, HasBuffer, TypeOK
  <2>4. ASSUME pc[owner] = "firmware" PROVE Seen(owner)' = Seen(owner)
    BY <2>2, <2>3, <2>4 DEF Seen
  <2> QED
    BY <1>2, <2>2, <2>4 DEF Serving, Offer, InFirmware
<1> QED
  BY <1>1, <1>2

\* What a session that goes into the firmware hands over is a verified PDI.
LEMMA OfferVerified ==
  ASSUME TypeOK, BufferInv, ContentInv, NEW t \in Tasks,
         cmd[t] = "acap_load", pc[t] \in {"lock", "blocked"}
  PROVE  Seen(t) \in PartialPdis
<1>1. size[t] \in 1..MaxBlocks /\ buf[t] \in Buffers
  <2>1. buf[t] \in Buffers
    BY DEF BufferInv, HasBuffer, TypeOK
  <2>2. size[t] > 0 /\ size[t] \in 0..MaxBlocks
    BY DEF ContentInv, ContentOf, TypeOK
  <2> QED
    BY <2>1, <2>2, ImagesAssumption
<1>2. /\ \A i \in 1..size[t] : mem[buf[t]][i] \in Images /\ ddr[buf[t]][i] = mem[buf[t]][i]
      /\ Kind[mem[buf[t]][1]] = "partial"
  BY DEF ContentInv, ContentOf, Loaded
<1>3. Seen(t) \in Content
  BY <1>1, PrefixType, ImagesAssumption DEF Seen, TypeOK
<1>4. \A i \in 1..MaxBlocks :
        Seen(t)[i] = IF i <= size[t] THEN ddr[buf[t]][i] ELSE Junk
  BY DEF Seen, Prefix
<1>5. \A i \in 1..MaxBlocks : Seen(t)[i] \in Images <=> i <= size[t]
  BY <1>1, <1>2, <1>4, NoneAssumption, ImagesAssumption
<1>6. 1 \in 1..MaxBlocks /\ 1 \in 1..size[t] /\ 1 <= size[t]
  BY <1>1, ImagesAssumption
<1>7. Seen(t)[1] \in Images /\ Kind[Seen(t)[1]] = "partial"
  BY <1>2, <1>4, <1>6
<1> QED
  BY <1>1, <1>3, <1>5, <1>7 DEF PartialPdis

\* Every step of the commands is a step of the port or none.
LEMMA PortStep == SafetyInv /\ [Next]_vars => [Port!Next]_(Port!vars)
<1> SUFFICES ASSUME SafetyInv, [Next]_vars PROVE [Port!Next]_(Port!vars)
  OBVIOUS
<1> USE DEF SafetyInv
<1>a. ASSUME NEW t \in Tasks, Undisturbed(t), owner' = owner, owner # t,
             Answer' = Answer, fabric' = fabric
      PROVE  [Port!Next]_(Port!vars)
  BY <1>a, PortKept DEF Port!vars
\* A command that leaves before it has an answer.
<1>b. ASSUME NEW t \in Tasks, HasBuffer(t), pc[t] \in {"open", "read"}, Release(t),
             Return(t), owner' = owner, fabric' = fabric
      PROVE  [Port!Next]_(Port!vars)
  <2>1. Undisturbed(t)
    BY <1>b DEF Undisturbed, Release, Return, Goto, TypeOK, BufferInv
  <2>2. owner # t
    BY <1>b DEF LockInv
  <2>3. Answer' = Answer
    BY <1>b, NoneAssumption DEF Return, Answer, TypeOK, CommandInv, Commands
  <2> QED
    BY <1>a, <1>b, <2>1, <2>2, <2>3
<1>1. ASSUME NEW t \in Tasks, NEW c \in Commands, Stat(t, c)
      PROVE  [Port!Next]_(Port!vars)
  <2>1. Undisturbed(t) /\ owner' = owner /\ owner # t /\ fabric' = fabric
    BY <1>1 DEF Stat, Goto, Undisturbed, TypeOK, LockInv
  <2>2. Answer' = Answer
    BY <1>1, NoneAssumption DEF Stat, Answer, TypeOK, CommandInv, Commands
  <2> QED
    BY <1>a, <2>1, <2>2
<1>2. ASSUME NEW t \in Tasks, Malloc(t) PROVE [Port!Next]_(Port!vars)
  <2>1. Undisturbed(t) /\ owner' = owner /\ owner # t /\ fabric' = fabric
    BY <1>2 DEF Malloc, Goto, Undisturbed, TypeOK, LockInv
  <2>2. Answer' = Answer
    BY <1>2 DEF Malloc, Answer
  <2> QED
    BY <1>a, <2>1, <2>2
<1>3. ASSUME NEW t \in Tasks, MallocFails(t) PROVE [Port!Next]_(Port!vars)
  <2>1. Undisturbed(t) /\ owner' = owner /\ owner # t /\ fabric' = fabric
    BY <1>3 DEF MallocFails, Return, Goto, Undisturbed, TypeOK, LockInv
  <2>2. Answer' = Answer
    BY <1>3, NoneAssumption
       DEF MallocFails, Return, Answer, TypeOK, CommandInv, Commands
  <2> QED
    BY <1>a, <2>1, <2>2
<1>4. ASSUME NEW t \in Tasks, Open(t) PROVE [Port!Next]_(Port!vars)
  <2>1. Undisturbed(t) /\ owner' = owner /\ owner # t /\ fabric' = fabric
    BY <1>4 DEF Open, Goto, Undisturbed, TypeOK, LockInv
  <2>2. Answer' = Answer
    BY <1>4 DEF Open, Answer
  <2> QED
    BY <1>a, <2>1, <2>2
<1>5. ASSUME NEW t \in Tasks, OpenFails(t) PROVE [Port!Next]_(Port!vars)
  BY <1>5, <1>b DEF OpenFails, HasBuffer
<1>6. ASSUME NEW t \in Tasks, ReadBlock(t) PROVE [Port!Next]_(Port!vars)
  <2>1. Undisturbed(t) /\ owner' = owner /\ owner # t /\ fabric' = fabric
    BY <1>6 DEF ReadBlock, Goto, Undisturbed, HasBuffer, TypeOK, LockInv
  <2>2. Answer' = Answer
    BY <1>6 DEF ReadBlock, Answer
  <2> QED
    BY <1>a, <2>1, <2>2
<1>7. ASSUME NEW t \in Tasks, ReadFails(t) PROVE [Port!Next]_(Port!vars)
  BY <1>7, <1>b DEF ReadFails, HasBuffer
<1>8. ASSUME NEW t \in Tasks, ReadDone(t) PROVE [Port!Next]_(Port!vars)
  <2>1. Undisturbed(t) /\ owner' = owner /\ owner # t /\ fabric' = fabric
    BY <1>8 DEF ReadDone, Goto, Undisturbed, TypeOK, LockInv
  <2>2. Answer' = Answer
    BY <1>8 DEF ReadDone, Answer
  <2> QED
    BY <1>a, <2>1, <2>2
<1>9. ASSUME NEW t \in Tasks, Show(t) PROVE [Port!Next]_(Port!vars)
  <2>1. Undisturbed(t) /\ owner' = owner /\ owner # t /\ fabric' = fabric
    BY <1>9 DEF Show, Goto, Undisturbed, TypeOK, LockInv
  <2>2. Answer' = Answer
    BY <1>9 DEF Show, Answer
  <2> QED
    BY <1>a, <2>1, <2>2
<1>10. ASSUME NEW t \in Tasks, CheckHeader(t) PROVE [Port!Next]_(Port!vars)
  <2>1. Undisturbed(t) /\ owner' = owner /\ owner # t /\ fabric' = fabric
    BY <1>10 DEF CheckHeader, Goto, Undisturbed, TypeOK, LockInv
  <2>2. Answer' = Answer
    BY <1>10 DEF CheckHeader, Answer
  <2> QED
    BY <1>a, <2>1, <2>2
<1>11. ASSUME NEW t \in Tasks, RefuseHeader(t) PROVE [Port!Next]_(Port!vars)
  <2>1. Undisturbed(t) /\ owner' = owner /\ owner # t /\ fabric' = fabric
    BY <1>11 DEF RefuseHeader, Goto, Undisturbed, TypeOK, LockInv
  <2>2. Answer[t] = "none" /\ Answer' = [Answer EXCEPT ![t] = "failed"]
    BY <1>11 DEF RefuseHeader, Answer, TypeOK, CommandInv
  <2>3. Serving # t
    BY <2>1, NoneAssumption DEF Serving
  <2> QED
    BY <2>1, <2>2, <2>3, PortKept DEF Port!Next, Port!Reject
<1>12. ASSUME NEW t \in Tasks, Flush(t) PROVE [Port!Next]_(Port!vars)
  <2>1. Undisturbed(t) /\ owner' = owner /\ owner # t /\ fabric' = fabric
    BY <1>12 DEF Flush, Goto, Undisturbed, HasBuffer, TypeOK, LockInv
  <2>2. Answer' = Answer
    BY <1>12 DEF Flush, Answer
  <2> QED
    BY <1>a, <2>1, <2>2
<1>13. ASSUME NEW t \in Tasks, Lock(t) PROVE [Port!Next]_(Port!vars)
  <2>1. /\ pc[t] = "lock" /\ cmd[t] = "acap_load" /\ owner = None /\ owner' = t
        /\ pc'[t] = "firmware" /\ UNCHANGED <<cmd, size, buf, ddr, rc, fabric>>
    BY <1>13 DEF Lock, Goto, TypeOK, CommandInv
  <2>2. Serving = None /\ Serving' = t /\ Offer' = Seen(t) /\ Answer' = Answer
    BY <2>1, NoneAssumption DEF Serving, Offer, Answer, InFirmware, Seen
  <2>3. Seen(t) \in PartialPdis
    BY <2>1, OfferVerified
  <2> QED
    BY <2>1, <2>2, <2>3 DEF Port!Next, Port!Begin
<1>14. ASSUME NEW t \in Tasks, Block(t) PROVE [Port!Next]_(Port!vars)
  <2>1. Undisturbed(t) /\ owner' = owner /\ owner # t /\ fabric' = fabric
    BY <1>14 DEF Block, Goto, Undisturbed, TypeOK, LockInv
  <2>2. Answer' = Answer
    BY <1>14 DEF Block, Answer
  <2> QED
    BY <1>a, <2>1, <2>2
<1>15. ASSUME NEW t \in Tasks, FirmwareAccepts(t) PROVE [Port!Next]_(Port!vars)
  <2>1. /\ pc[t] = "firmware" /\ pc' = [pc EXCEPT ![t] = AfterFirmware(cmd[t])]
        /\ rc' = [rc EXCEPT ![t] = "ok"] /\ owner' = owner
        /\ UNCHANGED <<cmd, size, left, buf, mem, ddr>>
    BY <1>15 DEF FirmwareAccepts, Goto
  <2>2. CASE cmd[t] = "acap_load"
    <3>1. owner = t /\ pc'[t] = "unlock"
      BY <2>1, <2>2 DEF LockInv, AfterFirmware, TypeOK
    <3>2. /\ Serving = t /\ Serving' = None /\ Offer = Seen(t) /\ Offer' = Empty
      BY <2>1, <3>1, NoneAssumption DEF Serving, Offer, InFirmware
    <3>3. Answer' = [Answer EXCEPT ![t] = "ok"]
      BY <2>1, <2>2 DEF Answer, TypeOK
    <3>4. fabric' = Seen(t)
      BY <1>15, <2>2 DEF FirmwareAccepts
    <3> QED
      BY <3>2, <3>3, <3>4, NoneAssumption
         DEF Port!Next, Port!Accept, Port!Complete
  <2>3. CASE cmd[t] # "acap_load"
    <3>1. owner # t /\ fabric' = fabric
      BY <1>15, <2>3 DEF LockInv, FirmwareAccepts
    <3>2. Answer' = Answer
      BY <2>1, <2>3 DEF Answer, TypeOK
    <3>3. Undisturbed(t)
      BY <2>1 DEF Undisturbed, TypeOK
    <3> QED
      BY <1>a, <2>1, <3>1, <3>2, <3>3
  <2> QED
    BY <2>2, <2>3
<1>16. ASSUME NEW t \in Tasks, FirmwareRefuses(t) PROVE [Port!Next]_(Port!vars)
  <2>1. /\ pc[t] = "firmware" /\ pc' = [pc EXCEPT ![t] = AfterFirmware(cmd[t])]
        /\ rc' = [rc EXCEPT ![t] = "failed"] /\ owner' = owner
        /\ UNCHANGED <<cmd, size, left, buf, mem, ddr>>
    BY <1>16 DEF FirmwareRefuses, Goto
  <2>2. CASE cmd[t] = "acap_load"
    <3>1. owner = t /\ pc'[t] = "unlock"
      BY <2>1, <2>2 DEF LockInv, AfterFirmware, TypeOK
    <3>2. /\ Serving = t /\ Serving' = None /\ Offer = Seen(t) /\ Offer' = Empty
      BY <2>1, <3>1, NoneAssumption DEF Serving, Offer, InFirmware
    <3>3. Answer' = [Answer EXCEPT ![t] = "failed"]
      BY <2>1, <2>2 DEF Answer, TypeOK
    <3>4. fabric' = fabric
      BY <1>16, <2>2 DEF FirmwareRefuses
    <3> QED
      BY <3>2, <3>3, <3>4, NoneAssumption
         DEF Port!Next, Port!Refuse, Port!Complete
  <2>3. CASE cmd[t] # "acap_load"
    <3>1. owner # t /\ fabric' = fabric
      BY <1>16, <2>3 DEF LockInv, FirmwareRefuses
    <3>2. Answer' = Answer
      BY <2>1, <2>3 DEF Answer, TypeOK
    <3>3. Undisturbed(t)
      BY <2>1 DEF Undisturbed, TypeOK
    <3> QED
      BY <1>a, <2>1, <3>1, <3>2, <3>3
  <2> QED
    BY <2>2, <2>3
<1>17. ASSUME NEW t \in Tasks, Unlock(t) PROVE [Port!Next]_(Port!vars)
  <2>1. owner = t /\ owner' = None /\ pc[t] = "unlock"
        /\ UNCHANGED <<cmd, rc, fabric>>
    BY <1>17 DEF Unlock, LockInv, CommandInv
  <2>2. Serving' = Serving /\ Offer' = Offer /\ Answer' = Answer
    BY <2>1 DEF Serving, Offer, Answer, InFirmware
  <2> QED
    BY <2>1, <2>2 DEF Port!vars
<1>18. ASSUME NEW t \in Tasks, HandOver(t) PROVE [Port!Next]_(Port!vars)
  <2> DEFINE next == Head(queue)
  <2>1. /\ pc[t] = "unlock" /\ pc' = [pc EXCEPT ![t] = "free", ![next] = "firmware"]
        /\ UNCHANGED <<cmd, size, buf, ddr, rc, fabric>> /\ queue # <<>>
        /\ owner' = next
    BY <1>18 DEF HandOver
  <2>2. next \in Tasks /\ pc[next] = "blocked" /\ cmd[next] = "acap_load"
    BY <2>1, NextInLine
  <2> HIDE DEF next
  <2>3. owner = t /\ pc'[next] = "firmware"
    BY <2>1, <2>2 DEF LockInv, CommandInv, TypeOK
  <2>4. Serving = None /\ Serving' = next /\ Offer' = Seen(next) /\ Answer' = Answer
    BY <2>1, <2>2, <2>3, NoneAssumption DEF Serving, Offer, Answer, InFirmware, Seen
  <2>5. Seen(next) \in PartialPdis
    BY <2>2, OfferVerified
  <2> QED
    BY <2>1, <2>2, <2>4, <2>5 DEF Port!Next, Port!Begin
<1>19. ASSUME NEW t \in Tasks, Free(t) PROVE [Port!Next]_(Port!vars)
  <2>1. pc[t] = "free" /\ Undisturbed(t) /\ owner' = owner /\ owner # t /\ fabric' = fabric
    BY <1>19 DEF Free, Release, Return, Goto, Undisturbed, HasBuffer, TypeOK, LockInv, BufferInv
  <2>2. Answer' = [Answer EXCEPT ![t] = "none"]
    BY <1>19, NoneAssumption DEF Free, Return, Answer, TypeOK, Commands
  <2>3. CASE Answer[t] = "none"
    <3>1. Answer' = Answer
      BY <2>2, <2>3 DEF Answer
    <3> QED
      BY <1>a, <2>1, <3>1
  <2>4. CASE Answer[t] # "none"
    <3>1. Serving # t
      BY <2>1, NoneAssumption DEF Serving
    <3> QED
      BY <2>1, <2>2, <2>4, <3>1, PortKept DEF Port!Next, Port!Done
  <2> QED
    BY <2>3, <2>4
<1>20. ASSUME NEW b \in Buffers, NEW i \in 1..MaxBlocks, WriteBack(b, i)
       PROVE  [Port!Next]_(Port!vars)
  <2>1. UNCHANGED <<pc, cmd, size, buf, mem, owner, rc, fabric>>
    BY <1>20 DEF WriteBack
  <2>2. ASSUME InFirmware PROVE Seen(owner)' = Seen(owner)
    <3>1. owner \in Tasks /\ pc[owner] = "firmware" /\ size[owner] \in Nat
      BY <2>2, ImagesAssumption DEF InFirmware, TypeOK
    <3>2. \A j \in 1..size[owner] : ddr[buf[owner]][j] = mem[buf[owner]][j]
      BY <3>1 DEF ContentInv, ContentOf
    <3>3. \A j \in 1..size[owner] : ddr'[buf[owner]][j] = ddr[buf[owner]][j]
      BY <1>20, <3>2 DEF WriteBack, TypeOK, Content
    <3> QED
      BY <2>1, <3>1, <3>3, ImagesAssumption DEF Seen, Prefix
  <2>3. Serving' = Serving /\ Offer' = Offer /\ Answer' = Answer
    BY <2>1, <2>2 DEF Serving, Offer, Answer, InFirmware
  <2> QED
    BY <2>1, <2>3 DEF Port!vars
<1>21. CASE UNCHANGED vars
  BY <1>21 DEF vars, Port!vars, Serving, Offer, Answer, InFirmware, Seen
<1> QED
  BY <1>1, <1>2, <1>3, <1>4, <1>5, <1>6, <1>7, <1>8, <1>9, <1>10, <1>11, <1>12,
     <1>13, <1>14, <1>15, <1>16, <1>17, <1>18, <1>19, <1>20, <1>21
     DEF Next, Session, Firmware

\* The load commands implement PdiPort: a verified PDI, one at a time, that
\* does not change while the firmware reads it, and answers that are true.
THEOREM Refinement == Spec => ServesPort
<1>1. Init => Port!Init
  BY DEF Init, Port!Init, Serving, Offer, Answer, InFirmware
<1>2. SafetyInv /\ [Next]_vars => [Port!Next]_(Port!vars)
  BY PortStep
<1> QED
  BY <1>1, <1>2, Safety, PTL DEF Spec, ServesPort, Port!Spec

-----------------------------------------------------------------------------
(* The way to the end of a command *)

\* How far a session is from the end of its command
Rank(t) ==
  CASE pc[t] = "idle" -> 0
    [] pc[t] = "free" -> 1
    [] pc[t] = "unlock" -> 2
    [] pc[t] = "firmware" -> 3
    [] pc[t] = "blocked" -> 4
    [] pc[t] = "lock" -> 5
    [] pc[t] = "flush" -> 6
    [] pc[t] \in {"check", "show"} -> 7
    [] pc[t] = "read" -> 8 + left[t]
    [] pc[t] = "open" -> 9 + MaxBlocks
    [] OTHER -> 10 + MaxBlocks

\* The session gets nearer to its end, and the others are where they were.
Nearer(t) ==
  /\ pc[t] # "idle" /\ Rank(t)' < Rank(t)
  /\ \A s \in Tasks \ {t} : pc'[s] = pc[s] /\ left'[s] = left[s]

LEMMA ReturnNearer ==
  ASSUME TypeOK, NEW t \in Tasks, pc[t] \in {"malloc", "open", "read", "free"}, Return(t)
  PROVE  Nearer(t)
<1>1. pc'[t] = "idle" /\ \A s \in Tasks \ {t} : pc'[s] = pc[s] /\ left'[s] = left[s]
  BY DEF Return, Goto, TypeOK
<1>2. Rank(t)' = 0 BY <1>1 DEF Rank
<1>3. Rank(t) > 0
  <2>1. left[t] \in 0..MaxBlocks /\ MaxBlocks \in Nat BY ImagesAssumption DEF TypeOK
  <2> QED BY <2>1 DEF Rank
<1> QED BY <1>1, <1>2, <1>3 DEF Nearer

LEMMA SessionNearer ==
  ASSUME SafetyInv, NEW t \in Tasks, Session(t) \/ Firmware(t), ~ HandOver(t)
  PROVE  Nearer(t)
<1>1. /\ MaxBlocks \in Nat /\ left[t] \in 0..MaxBlocks /\ size[t] \in 0..MaxBlocks
      /\ TypeOK /\ CommandInv
  BY ImagesAssumption DEF SafetyInv, TypeOK
<1>2. CASE MallocFails(t) \/ OpenFails(t) \/ ReadFails(t) \/ Free(t)
  BY <1>1, <1>2, ReturnNearer DEF MallocFails, OpenFails, ReadFails, Free
<1>3. CASE Malloc(t)
  BY <1>1, <1>3 DEF Malloc, Goto, TypeOK, Nearer, Rank
<1>4. CASE Open(t)
  <2>1. /\ pc[t] = "open" /\ pc'[t] = "read" /\ left'[t] = size[t]
        /\ \A s \in Tasks \ {t} : pc'[s] = pc[s] /\ left'[s] = left[s]
    BY <1>1, <1>4 DEF Open, Goto, TypeOK
  <2> QED BY <1>1, <2>1 DEF Nearer, Rank
<1>5. CASE ReadBlock(t)
  <2>1. /\ pc[t] = "read" /\ pc' = pc /\ left[t] > 0 /\ left'[t] = left[t] - 1
        /\ \A s \in Tasks \ {t} : left'[s] = left[s]
    BY <1>1, <1>5 DEF ReadBlock, TypeOK
  <2> QED BY <1>1, <2>1 DEF Nearer, Rank
<1>6. CASE ReadDone(t)
  <2>1. /\ pc[t] = "read" /\ pc'[t] \in {"check", "show", "flush"} /\ left' = left
        /\ \A s \in Tasks \ {t} : pc'[s] = pc[s]
    BY <1>1, <1>6 DEF ReadDone, Goto, AfterRead, TypeOK
  <2> QED BY <1>1, <2>1 DEF Nearer, Rank
<1>7. CASE Show(t) \/ CheckHeader(t) \/ RefuseHeader(t)
  <2>1. /\ pc[t] \in {"check", "show"} /\ pc'[t] \in {"flush", "free"} /\ left' = left
        /\ \A s \in Tasks \ {t} : pc'[s] = pc[s]
    BY <1>1, <1>7 DEF Show, CheckHeader, RefuseHeader, Goto, TypeOK, loader
  <2> QED BY <2>1 DEF Nearer, Rank
<1>8. CASE Flush(t)
  <2>1. /\ pc[t] = "flush" /\ pc'[t] \in {"lock", "firmware"} /\ left' = left
        /\ \A s \in Tasks \ {t} : pc'[s] = pc[s]
    BY <1>1, <1>8 DEF Flush, Goto, TypeOK, loader
  <2> QED BY <2>1 DEF Nearer, Rank
<1>9. CASE Lock(t) \/ Block(t)
  <2>1. /\ pc[t] = "lock" /\ pc'[t] \in {"blocked", "firmware"} /\ left' = left
        /\ \A s \in Tasks \ {t} : pc'[s] = pc[s]
    BY <1>1, <1>9 DEF Lock, Block, Goto, TypeOK, loader
  <2> QED BY <2>1 DEF Nearer, Rank
<1>10. CASE FirmwareAccepts(t) \/ FirmwareRefuses(t)
  <2>1. /\ pc[t] = "firmware" /\ pc'[t] \in {"unlock", "free"} /\ left' = left
        /\ \A s \in Tasks \ {t} : pc'[s] = pc[s]
    BY <1>1, <1>10 DEF FirmwareAccepts, FirmwareRefuses, AfterFirmware, Goto, TypeOK, loader
  <2> QED BY <2>1 DEF Nearer, Rank
<1>11. CASE Unlock(t)
  <2>1. /\ pc[t] = "unlock" /\ pc'[t] = "free" /\ left' = left
        /\ \A s \in Tasks \ {t} : pc'[s] = pc[s]
    BY <1>1, <1>11 DEF Unlock, Goto, TypeOK, loader
  <2> QED BY <2>1 DEF Nearer, Rank
<1> QED BY <1>2, <1>3, <1>4, <1>5, <1>6, <1>7, <1>8, <1>9, <1>10, <1>11
        DEF Session, Firmware

\* Handing over moves two sessions, both of them nearer to their ends.
LEMMA HandOverNearer ==
  ASSUME SafetyInv, NEW t \in Tasks, HandOver(t)
  PROVE  \E next \in Tasks :
           /\ Rank(t)' < Rank(t) /\ Rank(next)' < Rank(next)
           /\ \A s \in Tasks \ {t, next} : pc'[s] = pc[s] /\ left'[s] = left[s]
<1>0. PICK next \in Tasks : next = Head(queue)
  BY NextInLine DEF SafetyInv, HandOver
<1>1. /\ pc[t] = "unlock" /\ pc' = [pc EXCEPT ![t] = "free", ![next] = "firmware"]
      /\ queue # <<>> /\ left' = left
  BY <1>0 DEF HandOver, loader
<1>2. next \in Tasks /\ pc[next] = "blocked"
  BY <1>0, <1>1, NextInLine DEF SafetyInv
<1>3. t # next /\ pc'[t] = "free" /\ pc'[next] = "firmware"
      /\ \A s \in Tasks \ {t, next} : pc'[s] = pc[s]
  BY <1>1, <1>2 DEF SafetyInv, TypeOK
<1>4. Rank(t)' < Rank(t) /\ Rank(next)' < Rank(next)
  BY <1>1, <1>2, <1>3 DEF Rank
<1> QED BY <1>1, <1>3, <1>4

NoSetback ==
  \A t \in Tasks :
    /\ Session(t) \/ Firmware(t) => Rank(t)' < Rank(t)
    /\ pc[t] # "idle" => Rank(t)' <= Rank(t)

LEMMA RankType == TypeOK => \A t \in Tasks : Rank(t) \in Nat
<1> SUFFICES ASSUME TypeOK, NEW t \in Tasks PROVE Rank(t) \in Nat OBVIOUS
<1>1. left[t] \in 0..MaxBlocks /\ MaxBlocks \in Nat BY ImagesAssumption DEF TypeOK
<1> QED BY <1>1 DEF Rank

LEMMA StepNearer == SafetyInv /\ [Next]_vars => [NoSetback]_vars
<1> SUFFICES ASSUME SafetyInv, Next PROVE NoSetback
  OBVIOUS
<1>1. \A t \in Tasks : Rank(t) \in Nat /\ Rank(t)' \in Nat
  <2>1. TypeOK /\ TypeOK' BY SafetyStep DEF SafetyInv
  <2>2. \A t \in Tasks : Rank(t)' \in Nat
    <3> SUFFICES ASSUME NEW t \in Tasks PROVE Rank(t)' \in Nat OBVIOUS
    <3>1. left'[t] \in 0..MaxBlocks /\ MaxBlocks \in Nat BY <2>1, ImagesAssumption DEF TypeOK
    <3> QED BY <3>1 DEF Rank
  <2> QED BY <2>1, <2>2, RankType
<1>2. ASSUME NEW t \in Tasks, pc'[t] = pc[t], left'[t] = left[t] PROVE Rank(t)' = Rank(t)
  BY <1>2 DEF Rank
<1>3. ASSUME NEW t \in Tasks, Session(t) \/ Firmware(t)
      PROVE  /\ Rank(t)' < Rank(t)
             /\ \A s \in Tasks : Rank(s)' <= Rank(s)
  <2>1. CASE ~ HandOver(t)
    <3>1. Nearer(t) BY <1>3, <2>1, SessionNearer
    <3> QED BY <1>1, <1>2, <3>1 DEF Nearer
  <2>2. CASE HandOver(t)
    <3>1. PICK next \in Tasks :
            /\ Rank(t)' < Rank(t) /\ Rank(next)' < Rank(next)
            /\ \A s \in Tasks \ {t, next} : pc'[s] = pc[s] /\ left'[s] = left[s]
      BY <2>2, HandOverNearer
    <3> QED BY <1>1, <1>2, <3>1
  <2> QED BY <2>1, <2>2
<1>4. ASSUME NEW t \in Tasks, NEW c \in Commands, Stat(t, c)
      PROVE  /\ \A s \in Tasks : ~ (Session(s) \/ Firmware(s))
             /\ \A s \in Tasks : pc[s] # "idle" => Rank(s)' <= Rank(s)
  <2>1. /\ pc[t] = "idle" /\ pc'[t] = "malloc" /\ left' = left
        /\ \A s \in Tasks \ {t} : pc'[s] = pc[s]
    BY <1>4 DEF Stat, Goto, SafetyInv, TypeOK
  <2>2. ASSUME NEW s \in Tasks, Session(s) \/ Firmware(s) PROVE FALSE
    <3>1. Rank(s)' < Rank(s) /\ \A u \in Tasks : Rank(u)' <= Rank(u) BY <1>3, <2>2
    <3>2. Rank(t) = 0 BY <2>1 DEF Rank
    <3>3. Rank(t)' = 10 + MaxBlocks BY <2>1 DEF Rank
    <3> QED BY <3>1, <3>2, <3>3, ImagesAssumption
  <2>3. \A s \in Tasks : pc[s] # "idle" => Rank(s)' <= Rank(s)
    BY <1>1, <1>2, <2>1
  <2> QED BY <2>2, <2>3
<1>5. ASSUME NEW b \in Buffers, NEW i \in 1..MaxBlocks, WriteBack(b, i)
      PROVE  NoSetback
  <2>1. pc' = pc /\ left' = left BY <1>5 DEF WriteBack
  <2>2. \A s \in Tasks : Rank(s)' = Rank(s) BY <1>2, <2>1
  <2>3. \A s \in Tasks : ~ (Session(s) \/ Firmware(s)) BY <1>1, <1>3, <2>2
  <2> QED BY <1>1, <2>2, <2>3 DEF NoSetback
<1>6. ASSUME NEW t \in Tasks, Session(t) \/ Firmware(t) PROVE NoSetback
  BY <1>3, <1>6 DEF NoSetback
<1>7. ASSUME NEW t \in Tasks, NEW c \in Commands, Stat(t, c) PROVE NoSetback
  BY <1>4, <1>7 DEF NoSetback
<1> QED BY <1>5, <1>6, <1>7 DEF Next

\* Each step of a command, and each answer of the firmware to it, brings it
\* nearer to its end, and no step of another session sets it back: the read loop
\* and the hand-over of the lock are the only loops, and both come to their end.
THEOREM Progress == Spec => [][NoSetback]_vars
BY StepNearer, Safety, PTL DEF Spec

\* The sessions in front of one in the queue
Ahead(t) == {queue[i] : i \in {k \in DOMAIN queue : \E j \in DOMAIN queue : k < j /\ queue[j] = t}}

\* A session that waits, waits for one that does not.
WaitsForOwner ==
  \A t \in Tasks : pc[t] = "blocked" =>
    owner \in Tasks /\ pc[owner] \in {"firmware", "unlock"} /\ t \in Members(queue)

NotOvertaken ==
  \A t \in Tasks : pc[t] = "blocked" =>
    pc'[t] = "firmware" \/ (pc'[t] = "blocked" /\ Ahead(t)' \subseteq Ahead(t))

\* No wake-up is lost: whoever is blocked is in the queue of a session that is in
\* the firmware or on its way out of it, and that session is not itself blocked.
THEOREM Waiting == Spec => []WaitsForOwner
<1>1. SafetyInv => WaitsForOwner
  <2> SUFFICES ASSUME SafetyInv, NEW t \in Tasks, pc[t] = "blocked"
               PROVE  owner \in Tasks /\ pc[owner] \in {"firmware", "unlock"} /\ t \in Members(queue)
    BY DEF WaitsForOwner
  <2>1. t \in Members(queue) /\ queue # <<>> BY DEF SafetyInv, LockInv, Members
  <2>2. owner # None /\ owner \in Tasks BY <2>1 DEF SafetyInv, LockInv, TypeOK
  <2> QED BY <2>1, <2>2 DEF SafetyInv, LockInv
<1> QED BY <1>1, Safety, PTL

LEMMA AheadKept ==
  ASSUME SafetyInv, NEW t \in Tasks, pc[t] = "blocked", queue' = queue
  PROVE  Ahead(t)' = Ahead(t)
BY DEF Ahead

LEMMA AheadAppend ==
  ASSUME SafetyInv, NEW t \in Tasks, pc[t] = "blocked", NEW s \in Tasks, s # t,
         queue' = Append(queue, s)
  PROVE  Ahead(t)' \subseteq Ahead(t)
<1>1. /\ queue \in Seq(Tasks) /\ Len(queue) \in Nat /\ DOMAIN queue = 1..Len(queue)
      /\ DOMAIN queue' = 1..Len(queue) + 1
      /\ \A i \in 1..Len(queue) : queue'[i] = queue[i]
      /\ queue'[Len(queue) + 1] = s
  BY DEF SafetyInv, TypeOK
<1> SUFFICES ASSUME NEW k \in DOMAIN queue', NEW j \in DOMAIN queue', k < j, queue'[j] = t
             PROVE  queue'[k] \in Ahead(t)
  BY DEF Ahead
<1>2. j \in 1..Len(queue) /\ k \in 1..Len(queue) BY <1>1
<1>3. queue'[k] = queue[k] /\ queue[j] = t BY <1>1, <1>2
<1> QED BY <1>1, <1>2, <1>3 DEF Ahead

LEMMA AheadTail ==
  ASSUME SafetyInv, NEW t \in Tasks, queue # <<>>, queue' = Tail(queue)
  PROVE  Ahead(t)' \subseteq Ahead(t)
<1>1. /\ queue \in Seq(Tasks) /\ Len(queue) \in Nat /\ DOMAIN queue = 1..Len(queue)
      /\ DOMAIN queue' = 1..Len(queue) - 1
      /\ \A i \in 1..Len(queue) - 1 : queue'[i] = queue[i + 1]
  BY DEF SafetyInv, TypeOK
<1> SUFFICES ASSUME NEW k \in DOMAIN queue', NEW j \in DOMAIN queue', k < j, queue'[j] = t
             PROVE  queue'[k] \in Ahead(t)
  BY DEF Ahead
<1>2. k + 1 \in DOMAIN queue /\ j + 1 \in DOMAIN queue /\ k + 1 < j + 1 BY <1>1
<1>3. queue'[k] = queue[k + 1] /\ queue[j + 1] = t BY <1>1
<1> QED BY <1>2, <1>3 DEF Ahead

LEMMA StepInTurn == SafetyInv /\ [Next]_vars => [NotOvertaken]_vars
<1> SUFFICES ASSUME SafetyInv, Next, NEW t \in Tasks, pc[t] = "blocked"
             PROVE  pc'[t] = "firmware" \/ (pc'[t] = "blocked" /\ Ahead(t)' \subseteq Ahead(t))
  BY DEF NotOvertaken
<1>1. CASE pc'[t] = "blocked" /\ queue' = queue
  BY <1>1, AheadKept
<1>2. ASSUME NEW s \in Tasks, Block(s) PROVE pc'[t] = "blocked" /\ Ahead(t)' \subseteq Ahead(t)
  <2>1. pc[s] = "lock" /\ queue' = Append(queue, s) /\ pc' = [pc EXCEPT ![s] = "blocked"]
    BY <1>2 DEF Block, Goto
  <2> QED BY <2>1, AheadAppend DEF SafetyInv, TypeOK
<1>3. ASSUME NEW s \in Tasks, HandOver(s)
      PROVE  pc'[t] = "firmware" \/ (pc'[t] = "blocked" /\ Ahead(t)' \subseteq Ahead(t))
  <2>1. /\ pc[s] = "unlock" /\ queue # <<>> /\ queue' = Tail(queue)
        /\ pc' = [pc EXCEPT ![s] = "free", ![Head(queue)] = "firmware"]
    BY <1>3 DEF HandOver
  <2>2. pc'[t] \in {"firmware", "blocked"} BY <2>1 DEF SafetyInv, TypeOK
  <2> QED BY <2>1, <2>2, AheadTail
<1>4. ASSUME NEW s \in Tasks, (Session(s) /\ ~ Block(s) /\ ~ HandOver(s)) \/ Firmware(s)
      PROVE  pc'[t] = "blocked" /\ queue' = queue
  <2>1. queue' = queue
    BY <1>4 DEF Session, Firmware, Malloc, MallocFails, Open, OpenFails, ReadBlock, ReadFails,
      ReadDone, Show, CheckHeader, RefuseHeader, Flush, Lock, Unlock, Free, FirmwareAccepts,
      FirmwareRefuses, lock
  <2>2. s # t
    BY <1>4 DEF Session, Firmware, Malloc, MallocFails, Open, OpenFails, ReadBlock, ReadFails,
      ReadDone, Show, CheckHeader, RefuseHeader, Flush, Lock, Unlock, Free, FirmwareAccepts,
      FirmwareRefuses
  <2>3. ~ HandOver(s) BY <1>4, <2>1 DEF HandOver, Firmware, FirmwareAccepts, FirmwareRefuses
  <2>4. Nearer(s) BY <1>4, <2>3, SessionNearer
  <2> QED BY <2>1, <2>2, <2>4 DEF Nearer
<1>5. ASSUME NEW s \in Tasks, NEW c \in Commands, Stat(s, c)
      PROVE  pc'[t] = "blocked" /\ queue' = queue
  BY <1>5 DEF Stat, Goto, lock, SafetyInv, TypeOK
<1>6. ASSUME NEW b \in Buffers, NEW i \in 1..MaxBlocks, WriteBack(b, i)
      PROVE  pc'[t] = "blocked" /\ queue' = queue
  BY <1>6 DEF WriteBack, lock
<1>7. \A s \in Tasks : Session(s) \/ Firmware(s) =>
        pc'[t] = "firmware" \/ (pc'[t] = "blocked" /\ Ahead(t)' \subseteq Ahead(t))
        \/ (pc'[t] = "blocked" /\ queue' = queue)
  BY <1>2, <1>3, <1>4
<1> QED BY <1>1, <1>5, <1>6, <1>7 DEF Next

\* Nobody overtakes a session that is blocked: until the lock is handed to it, it
\* stays in the queue and nobody comes in front of it.
THEOREM InTurn == Spec => [][NotOvertaken]_vars
BY StepInTurn, Safety, PTL DEF Spec
=============================================================================
