------------------------------- MODULE PmLoad -------------------------------
(***************************************************************************)
(* The image commands of the "pm" shell command, from the file to the      *)
(* firmware: `pm acap load`, `pm acap info` and `pm fpga load`             *)
(* (rtems/pm/pm-shell.c) with the calls they make in the PM driver         *)
(* (rtems/pm/pm.c).  Several shell sessions run the commands at once.      *)
(*                                                                         *)
(* An image is a sequence of read blocks (LOAD_BLOCK_SIZE bytes each).  A  *)
(* block in memory is known by the image it was read from.  The file may   *)
(* be replaced between any two calls (the images are kept on an NFS        *)
(* server), so each call finds an image of its own.                        *)
(*                                                                         *)
(* The data cache is modelled by the two views of a buffer: mem is what    *)
(* the processor sees, ddr what the firmware sees.  Junk is what the       *)
(* command that owns the buffer did not put there.                         *)
(***************************************************************************)
EXTENDS Naturals, Sequences

CONSTANTS
  Tasks,      \* the shell sessions
  Images,     \* the file contents
  Kind,       \* what the headers of an image say it is
  Blocks,     \* how many blocks an image has
  MaxBlocks,  \* bound on the blocks of an image
  Buffers,    \* the heap blocks malloc can return
  None,       \* no task, no buffer, no command
  Junk        \* memory that no read filled

Kinds == {"partial", "boot", "corrupt"}
Commands == {"acap_load", "acap_info", "fpga_load"}

ASSUME ImagesAssumption ==
  /\ MaxBlocks \in Nat \ {0}
  /\ Kind \in [Images -> Kinds]
  /\ Blocks \in [Images -> 1..MaxBlocks]

ASSUME NoneAssumption ==
  /\ None \notin Tasks \cup Buffers \cup Commands
  /\ Junk \notin Images

VARIABLES
  pc,      \* where each session is in its command
  cmd,     \* the command of each session
  size,    \* image->size, in blocks
  left,    \* the blocks pm_image_load still has to read
  buf,     \* image->image
  heap,    \* the buffers malloc has handed out
  fds,     \* the sessions that hold an open descriptor
  mem,     \* buffers as the processor sees them
  ddr,     \* buffers as the firmware sees them
  owner,   \* the owner of fpga_lock
  queue,   \* the sessions blocked on fpga_lock
  rc,      \* what the driver answered to the command under way
  fabric   \* the PDI the firmware programmed last

loader == <<cmd, size, left, buf, heap, fds>>
memory == <<mem, ddr>>
lock == <<owner, queue>>
vars == <<pc, cmd, size, left, buf, heap, fds, mem, ddr, owner, queue, rc,
          fabric>>

Content == [1..MaxBlocks -> Images \cup {Junk}]
Empty == [i \in 1..MaxBlocks |-> Junk]

Locations ==
  {"idle", "malloc", "open", "read", "check", "show", "flush", "lock",
   "blocked", "firmware", "unlock", "free"}

Goto(t, l) == pc' = [pc EXCEPT ![t] = l]

\* The session owns a buffer.
HasBuffer(t) == pc[t] \notin {"idle", "malloc"}

Init ==
  /\ pc = [t \in Tasks |-> "idle"]
  /\ cmd = [t \in Tasks |-> None]
  /\ size = [t \in Tasks |-> 0]
  /\ left = [t \in Tasks |-> 0]
  /\ buf = [t \in Tasks |-> None]
  /\ heap = {}
  /\ fds = {}
  /\ mem = [b \in Buffers |-> Empty]
  /\ ddr = [b \in Buffers |-> Empty]
  /\ owner = None
  /\ queue = <<>>
  /\ rc = [t \in Tasks |-> "none"]
  /\ fabric = Empty

(***************************************************************************)
(* free(): what is left in the block means nothing to its next owner.      *)
(***************************************************************************)
Release(t) ==
  /\ heap' = heap \ {buf[t]}
  /\ mem' = [mem EXCEPT ![buf[t]] = Empty]
  /\ ddr' = [ddr EXCEPT ![buf[t]] = Empty]

\* The command returns and its local variables are gone.
Return(t) ==
  /\ Goto(t, "idle")
  /\ cmd' = [cmd EXCEPT ![t] = None]
  /\ size' = [size EXCEPT ![t] = 0]
  /\ left' = [left EXCEPT ![t] = 0]
  /\ buf' = [buf EXCEPT ![t] = None]
  /\ rc' = [rc EXCEPT ![t] = "none"]

\* The first n blocks of a buffer; the rest of the block belongs to nobody.
Prefix(content, n) == [i \in 1..MaxBlocks |-> IF i <= n THEN content[i] ELSE Junk]

\* What the headers in the first block of a session's buffer say.
HeaderKind(t) == IF mem[buf[t]][1] = Junk THEN "corrupt" ELSE Kind[mem[buf[t]][1]]

(***************************************************************************)
(* Plausible mistakes in the code below, each of them caught by a property.*)
(***************************************************************************)
\* A failed read() returns without free().
ReadFailsKeepsBuffer(t) ==
  /\ pc[t] = "read"
  /\ left[t] > 0
  /\ fds' = fds \ {t}
  /\ Return(t)
  /\ UNCHANGED <<heap, memory, lock, fabric>>

\* A failed read() returns without close().
ReadFailsKeepsFile(t) ==
  /\ pc[t] = "read"
  /\ left[t] > 0
  /\ Release(t)
  /\ Return(t)
  /\ UNCHANGED <<fds, lock, fabric>>

\* The firmware is called without a cache flush.
FlushForgotten(t) ==
  /\ pc[t] = "flush"
  /\ Goto(t, IF cmd[t] = "acap_load" THEN "lock" ELSE "firmware")
  /\ UNCHANGED <<loader, memory, lock, rc, fabric>>

\* The flush leaves out the last block.
FlushShort(t) ==
  /\ pc[t] = "flush"
  /\ ddr' = [ddr EXCEPT ![buf[t]] = Prefix(mem[buf[t]], size[t] - 1)]
  /\ Goto(t, IF cmd[t] = "acap_load" THEN "lock" ELSE "firmware")
  /\ UNCHANGED <<loader, mem, lock, rc, fabric>>

\* The header is looked at and the verdict ignored.
CheckHeaderIgnored(t) ==
  /\ pc[t] = "check"
  /\ Goto(t, "flush")
  /\ UNCHANGED <<loader, memory, lock, rc, fabric>>

\* The PDI load does not wait for fpga_lock.
LockIgnored(t) ==
  /\ pc[t] = "lock"
  /\ owner' = t
  /\ Goto(t, "firmware")
  /\ UNCHANGED <<loader, queue, memory, rc, fabric>>

\* A refused PDI makes the load return with fpga_lock still held.
FirmwareRefusesKeepsLock(t) ==
  /\ pc[t] = "firmware"
  /\ rc' = [rc EXCEPT ![t] = "failed"]
  /\ Goto(t, "free")
  /\ UNCHANGED <<loader, memory, lock, fabric>>

(***************************************************************************)
(* pm_image_load                                                           *)
(***************************************************************************)
\* The command line is accepted and stat() finds the file.  A stat() that
\* fails ends the command where it began.
Stat(t, c) ==
  /\ pc[t] = "idle"
  /\ cmd' = [cmd EXCEPT ![t] = c]
  /\ \E f \in Images : size' = [size EXCEPT ![t] = Blocks[f]]
  /\ Goto(t, "malloc")
  /\ UNCHANGED <<left, buf, heap, fds, memory, lock, rc, fabric>>

Malloc(t) ==
  /\ pc[t] = "malloc"
  /\ \E b \in Buffers \ heap :
       /\ heap' = heap \cup {b}
       /\ buf' = [buf EXCEPT ![t] = b]
  /\ Goto(t, "open")
  /\ UNCHANGED <<cmd, size, left, fds, memory, lock, rc, fabric>>

MallocFails(t) ==
  /\ pc[t] = "malloc"
  /\ Return(t)
  /\ UNCHANGED <<heap, fds, memory, lock, fabric>>

Open(t) ==
  /\ pc[t] = "open"
  /\ fds' = fds \cup {t}
  /\ left' = [left EXCEPT ![t] = size[t]]
  /\ Goto(t, "read")
  /\ UNCHANGED <<cmd, size, buf, heap, memory, lock, rc, fabric>>

OpenFails(t) ==
  /\ pc[t] = "open"
  /\ Release(t)
  /\ Return(t)
  /\ UNCHANGED <<fds, lock, fabric>>

\* One turn of the read loop, with the whole block there.
ReadBlock(t) ==
  LET pos == size[t] - left[t] + 1 IN
  /\ pc[t] = "read"
  /\ left[t] > 0
  /\ \E f \in {i \in Images : pos <= Blocks[i]} :
       mem' = [mem EXCEPT ![buf[t]] = [@ EXCEPT ![pos] = f]]
  /\ left' = [left EXCEPT ![t] = @ - 1]
  /\ UNCHANGED <<pc, cmd, size, buf, heap, fds, ddr, lock, rc, fabric>>

\* read() fails or is short.
ReadFails(t) ==
  /\ pc[t] = "read"
  /\ left[t] > 0
  /\ fds' = fds \ {t}
  /\ Release(t)
  /\ Return(t)
  /\ UNCHANGED <<lock, fabric>>

AfterRead(c) ==
  CASE c = "acap_load" -> "check"
    [] c = "acap_info" -> "show"
    [] OTHER -> "flush"

ReadDone(t) ==
  /\ pc[t] = "read"
  /\ left[t] = 0
  /\ fds' = fds \ {t}
  /\ Goto(t, AfterRead(cmd[t]))
  /\ UNCHANGED <<cmd, size, left, buf, heap, memory, lock, rc, fabric>>

(***************************************************************************)
(* The driver: rtems_pm_acap_print, rtems_pm_acap_load, rtems_pm_fpga_load *)
(***************************************************************************)
\* rtems_pm_acap_print only reads the image.
Show(t) ==
  /\ pc[t] = "show"
  /\ Goto(t, "free")
  /\ UNCHANGED <<loader, memory, lock, rc, fabric>>

\* rtems_pm_acap_image_header: the headers are in the first block, and only a
\* partial PDI begins with a valid image header table.
CheckHeader(t) ==
  /\ pc[t] = "check"
  /\ HeaderKind(t) = "partial"
  /\ Goto(t, "flush")
  /\ UNCHANGED <<loader, memory, lock, rc, fabric>>

\* The early return with errno = EIO, for boot PDIs and corrupt images.
RefuseHeader(t) ==
  /\ pc[t] = "check"
  /\ HeaderKind(t) # "partial"
  /\ Goto(t, "free")
  /\ rc' = [rc EXCEPT ![t] = "failed"]
  /\ UNCHANGED <<loader, memory, lock, fabric>>

\* rtems_cache_flush_multiple_data_lines(image, size)
Flush(t) ==
  /\ pc[t] = "flush"
  /\ ddr' = [ddr EXCEPT ![buf[t]] = Prefix(mem[buf[t]], size[t])]
  /\ Goto(t, IF cmd[t] = "acap_load" THEN "lock" ELSE "firmware")
  /\ UNCHANGED <<loader, mem, lock, rc, fabric>>

\* The PDI load takes fpga_lock and traps into the firmware.
Lock(t) ==
  /\ pc[t] = "lock"
  /\ owner = None
  /\ owner' = t
  /\ Goto(t, "firmware")
  /\ UNCHANGED <<loader, queue, memory, rc, fabric>>

Block(t) ==
  /\ pc[t] = "lock"
  /\ owner # None
  /\ queue' = Append(queue, t)
  /\ Goto(t, "blocked")
  /\ UNCHANGED <<loader, owner, memory, rc, fabric>>

\* What the firmware finds in the buffer of session t.
Seen(t) == Prefix(ddr[buf[t]], size[t])

AfterFirmware(c) == IF c = "acap_load" THEN "unlock" ELSE "free"

FirmwareAccepts(t) ==
  /\ pc[t] = "firmware"
  /\ rc' = [rc EXCEPT ![t] = "ok"]
  /\ fabric' = IF cmd[t] = "acap_load" THEN Seen(t) ELSE fabric
  /\ Goto(t, AfterFirmware(cmd[t]))
  /\ UNCHANGED <<loader, memory, lock>>

FirmwareRefuses(t) ==
  /\ pc[t] = "firmware"
  /\ rc' = [rc EXCEPT ![t] = "failed"]
  /\ Goto(t, AfterFirmware(cmd[t]))
  /\ UNCHANGED <<loader, memory, lock, fabric>>

Unlock(t) ==
  /\ pc[t] = "unlock"
  /\ queue = <<>>
  /\ owner' = None
  /\ Goto(t, "free")
  /\ UNCHANGED <<loader, queue, memory, rc, fabric>>

\* RTEMS hands the mutex over to the first session in the queue, which goes
\* on into the firmware.
HandOver(t) ==
  /\ pc[t] = "unlock"
  /\ queue # <<>>
  /\ owner' = Head(queue)
  /\ queue' = Tail(queue)
  /\ pc' = [pc EXCEPT ![t] = "free", ![Head(queue)] = "firmware"]
  /\ UNCHANGED <<loader, memory, rc, fabric>>

\* pm_image_free, the message and the end of the command.
Free(t) ==
  /\ pc[t] = "free"
  /\ Release(t)
  /\ Return(t)
  /\ UNCHANGED <<fds, lock, fabric>>

(***************************************************************************)
(* The cache may write any line back when it likes.                        *)
(***************************************************************************)
WriteBack(b, i) ==
  /\ ddr' = [ddr EXCEPT ![b] = [@ EXCEPT ![i] = mem[b][i]]]
  /\ UNCHANGED <<pc, loader, mem, lock, rc, fabric>>

Session(t) ==
  \/ Malloc(t) \/ MallocFails(t) \/ Open(t) \/ OpenFails(t)
  \/ ReadBlock(t) \/ ReadFails(t) \/ ReadDone(t)
  \/ Show(t) \/ CheckHeader(t) \/ RefuseHeader(t) \/ Flush(t)
  \/ Lock(t) \/ Block(t) \/ Unlock(t) \/ HandOver(t) \/ Free(t)

Firmware(t) == FirmwareAccepts(t) \/ FirmwareRefuses(t)

Next ==
  \/ \E t \in Tasks, c \in Commands : Stat(t, c)
  \/ \E t \in Tasks : Session(t) \/ Firmware(t)
  \/ \E b \in Buffers, i \in 1..MaxBlocks : WriteBack(b, i)

Spec == Init /\ [][Next]_vars

\* A session that can run is scheduled in the end and the firmware answers
\* each call; nobody has to type a command.
Fairness == \A t \in Tasks : WF_vars(Session(t)) /\ WF_vars(Firmware(t))
FairSpec == Spec /\ Fairness

(***************************************************************************)
(* Properties                                                              *)
(***************************************************************************)
TypeOK ==
  /\ pc \in [Tasks -> Locations]
  /\ cmd \in [Tasks -> Commands \cup {None}]
  /\ size \in [Tasks -> 0..MaxBlocks]
  /\ left \in [Tasks -> 0..MaxBlocks]
  /\ buf \in [Tasks -> Buffers \cup {None}]
  /\ heap \subseteq Buffers
  /\ fds \subseteq Tasks
  /\ mem \in [Buffers -> Content]
  /\ ddr \in [Buffers -> Content]
  /\ owner \in Tasks \cup {None}
  /\ queue \in Seq(Tasks)
  /\ rc \in [Tasks -> {"none", "ok", "failed"}]
  /\ fabric \in Content

\* The session is in the middle of PM_LOAD_PDI.
LoadsPdi(t) == cmd[t] = "acap_load" /\ pc[t] = "firmware"

\* At most one session has a PDI in the firmware: the lock around PM_LOAD_PDI
\* in rtems_pm_acap_load does its job whatever the interleaving.
PdiExclusive == \A s, t \in Tasks : LoadsPdi(s) /\ LoadsPdi(t) => s = t

\* The buffers malloc has handed out are those of the commands under way, one
\* each: no path through pm_image_load and its callers loses a buffer, frees
\* it early or shares it.
BuffersAccounted ==
  /\ heap = {buf[t] : t \in {u \in Tasks : HasBuffer(u)}}
  /\ \A s, t \in Tasks : HasBuffer(s) /\ HasBuffer(t) /\ buf[s] = buf[t] => s = t

\* A descriptor is open exactly while its session is in the read loop: every
\* way out of pm_image_load closes it.
DescriptorsAccounted == \A t \in Tasks : t \in fds <=> pc[t] = "read"

\* While the firmware may read the image of a session, memory holds all the
\* blocks that pm_image_load read, as the processor sees them: the flush and
\* the read loop cover the same bytes, and nobody reuses the buffer.
FirmwareSeesImage ==
  \A t \in Tasks : pc[t] = "firmware" =>
    \A i \in 1..size[t] : ddr[buf[t]][i] = mem[buf[t]][i] /\ ddr[buf[t]][i] # Junk

\* A PDI whose header was verified, with no hole in it.
PartialPdis ==
  {c \in Content :
     /\ c[1] \in Images
     /\ Kind[c[1]] = "partial"
     /\ \E n \in 1..MaxBlocks : \A i \in 1..MaxBlocks : c[i] \in Images <=> i <= n}

InFirmware == owner # None /\ pc[owner] = "firmware"

Serving == IF InFirmware THEN owner ELSE None
Offer == IF InFirmware THEN Seen(owner) ELSE Empty
Answer == [t \in Tasks |-> IF cmd[t] = "acap_load" THEN rc[t] ELSE "none"]

Port == INSTANCE PdiPort WITH
  Loaders <- Tasks, Pdis <- PartialPdis, NoPdi <- Empty, Nobody <- None,
  serving <- Serving, offer <- Offer, answer <- Answer

\* The load commands are a PDI port: what rtems_pm_acap_load hands to the
\* firmware is a verified partial PDI that does not change under it, one at a
\* time, and a success that it returns is the firmware's.
ServesPort == Port!Spec

\* A command that was started comes to its end: no lost wake-up on the lock,
\* no path that leaves the lock taken.
CommandsEnd == \A t \in Tasks : pc[t] # "idle" ~> pc[t] = "idle"

(***************************************************************************)
(* The inductive invariant behind the safety properties.                   *)
(***************************************************************************)
Members(q) == {q[i] : i \in DOMAIN q}
NoRepeats(q) == \A i, j \in DOMAIN q : q[i] = q[j] => i = j

\* A session holds fpga_lock around the firmware call of a PDI load; those
\* that wait for it are in its queue, once.
LockInv ==
  /\ \A t \in Tasks : owner = t <=> cmd[t] = "acap_load" /\ pc[t] \in {"firmware", "unlock"}
  /\ \A t \in Tasks : pc[t] = "blocked" <=> t \in Members(queue)
  /\ NoRepeats(queue)
  /\ owner = None => queue = <<>>

\* Only a PDI load checks a header or meets the lock, and only it has an
\* answer from the check.
CommandInv ==
  \A t \in Tasks :
    /\ pc[t] = "idle" <=> cmd[t] = None
    /\ pc[t] = "idle" => rc[t] = "none"
    /\ pc[t] \in {"check", "lock", "blocked", "unlock"} => cmd[t] = "acap_load"
    /\ pc[t] = "show" => cmd[t] = "acap_info"
    /\ pc[t] \in {"flush", "firmware"} => cmd[t] \in {"acap_load", "fpga_load"}
    /\ pc[t] \in {"malloc", "open", "read", "check", "show", "flush", "lock",
                  "blocked", "firmware"} => rc[t] = "none"

BufferInv ==
  \A t \in Tasks :
    /\ HasBuffer(t) <=> buf[t] # None
    /\ HasBuffer(t) => buf[t] \in heap
    /\ \A s \in Tasks : HasBuffer(t) /\ buf[s] = buf[t] => s = t

\* The blocks read so far are in memory; the check looked at the first of
\* them; the flush wrote all of them out.
Loaded(t, n) == \A i \in 1..n : mem[buf[t]][i] \in Images
ContentOf(t) ==
  /\ pc[t] # "idle" => size[t] > 0
  /\ pc[t] = "read" => left[t] <= size[t] /\ Loaded(t, size[t] - left[t])
  /\ pc[t] \in {"check", "show", "flush", "lock", "blocked", "firmware"} =>
       Loaded(t, size[t])
  /\ cmd[t] = "acap_load" /\ pc[t] \in {"flush", "lock", "blocked", "firmware"} =>
       Kind[mem[buf[t]][1]] = "partial"
  /\ pc[t] \in {"lock", "blocked", "firmware"} =>
       \A i \in 1..size[t] : ddr[buf[t]][i] = mem[buf[t]][i]
ContentInv == \A t \in Tasks : ContentOf(t)

SafetyInv ==
  TypeOK /\ LockInv /\ CommandInv /\ BufferInv /\ ContentInv
    /\ BuffersAccounted /\ DescriptorsAccounted
=============================================================================
