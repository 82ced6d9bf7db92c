------------------------------- MODULE Binding -------------------------------
(***************************************************************************)
(* The bindings that reach registers through a device file: IoIo           *)
(* (io_binding.cc), PciIo (pci_binding.cc) and MsrIo (msr_binding.cc) with *)
(* read() and write(), MemIo (mem_binding.cc) with a mapping for every     *)
(* access, all over filesystem::File (util/filesystem.h).  A call is a     *)
(* sequence of system calls, each of which may fail: checks, reopen() if   *)
(* the file must become writable, seek() or mmap(), and the access, with   *)
(* what follows it, is_eof() or munmap().                                  *)
(*                                                                         *)
(* The classes differ in the bounds and the widths they check, in the base *)
(* they add, and in what they make of a short access: a binding is a       *)
(* record of these.                                                        *)
(***************************************************************************)
EXTENDS Integers

CONSTANTS
  Byte, Ones, Absent,  \* what a cell of a device holds; 0xff; no cell
  PortSpace,    \* IO_SPACE_SIZE, one more than the greatest uint16_t
  ConfigSpace,  \* the 4096 of PciIo::check_bounds()
  ConfigFile,   \* <<size, readable>> of the config files there are
  MsrTop,       \* the MASK(32) of MsrIo::check_bounds()
  MemTop,       \* 2^64
  Page,         \* getpagesize()
  Memory,       \* the addresses that have memory or registers behind them
  MemRegion,    \* the <<base, size>> of memory that bindings are made for
  Width,        \* register widths, in bytes
  MaxWidth,     \* BITS64, the only width of an MSR
  Offset,       \* the offsets callers ask for
  Volatile      \* the cells of the device that change by themselves

ASSUME CellAssumption == Ones \in Byte /\ Absent \notin Byte
ASSUME SizeAssumption ==
  /\ PortSpace \in Nat \ {0} /\ ConfigSpace \in Nat /\ MsrTop \in Nat
  /\ ConfigFile \subseteq {f \in Nat \X Nat : f[2] <= f[1]}
ASSUME CallAssumption ==
  /\ MaxWidth \in Nat \ {0}
  /\ Width \subseteq 1..MaxWidth
  /\ Offset \subseteq Int
(* MemDriver::new_binding() does not check that a region ends within the   *)
(* address space: that is left to whoever makes the binding.               *)
ASSUME MemoryAssumption ==
  /\ Page \in Nat \ {0} /\ MemTop \in Nat \ {0}
  /\ Memory \subseteq 0..(MemTop - 1)
  /\ MemRegion \subseteq {r \in Nat \X Nat : r[1] < MemTop /\ r[1] + r[2] <= MemTop}

VARIABLES
  binding,  \* the binding, fixed once made
  content,  \* the cells of the device file
  open,     \* the descriptors for it the process has, their mode and position
  fd,       \* m_file->m_fd
  mode,     \* m_file->mode()
  map,      \* the FileMapping of the access: its first address, its length,
            \* where in it the access goes, and its protection
  pc,       \* "idle", or what the call in progress does next
  call,     \* the call in progress
  reply,    \* the result of the last call
  asked     \* whether a valid write has ever been asked for (history)

vars == <<binding, content, open, fd, mode, map, pc, call, reply, asked>>

NoCall  == [name |-> "none"]
NoReply == [status |-> "none"]
Error   == [status |-> "error"]
Done    == [status |-> "done"]
Data(f) == [status |-> "data", data |-> f]
NoMap   == [from |-> 0, length |-> 0, at |-> 0, prot |-> "none"]

-----------------------------------------------------------------------------
(* IoDriver::new_binding() checks its arguments, IoAddress keeps them in   *)
(* uint16_t.                                                               *)
IoAccepts(base, size) == base < PortSpace /\ base + size <= PortSpace

IoBinding(base, size) ==
  [kind |-> "io", base |-> base % PortSpace, limit |-> size % PortSpace,
   bound |-> size % PortSpace, named |-> size, widths |-> Width,
   cells |-> 0..(PortSpace - 1), size |-> PortSpace, readable |-> PortSpace]

(* All of 4 KB are offered, whatever the file has.  The kernel may let the *)
(* user read no more than the start of it.                                 *)
PciBinding(file) ==
  [kind |-> "pci", base |-> 0, limit |-> ConfigSpace,
   bound |-> ConfigSpace, named |-> ConfigSpace, widths |-> Width,
   cells |-> 0..(file[1] - 1), size |-> file[1], readable |-> file[2]]

(* An MSR is one cell, however many bytes it has.                          *)
MsrBinding ==
  [kind |-> "msr", base |-> 0, limit |-> MsrTop,
   bound |-> MsrTop, named |-> MsrTop, widths |-> {MaxWidth},
   cells |-> 0..(MsrTop - 1), size |-> MsrTop, readable |-> MsrTop]

(* MemIo checks its own size only as it maps, its bound is MASK(64).       *)
MemBinding(base, size) ==
  [kind |-> "mem", base |-> base % MemTop, limit |-> size % MemTop,
   bound |-> MemTop - 1, named |-> size, widths |-> Width,
   cells |-> Memory, size |-> MemTop, readable |-> MemTop]

Bindings ==
  {IoBinding(p[1], p[2]) :
     p \in {q \in (0..PortSpace) \X (0..PortSpace) : IoAccepts(q[1], q[2])}}
  \cup {PciBinding(f) : f \in ConfigFile} \cup {MsrBinding}
  \cup {MemBinding(r[1], r[2]) : r \in MemRegion}

Requests ==
  [name : {"read", "write"}, off : Offset, width : Width,
   data : [0..(MaxWidth - 1) -> Byte]]

Descriptor == 0..2  \* the numbers free for descriptors

Mapped == binding.kind = "mem"

(* How many cells a call accesses. *)
Count == IF binding.kind = "msr" THEN 1 ELSE call.width

(* The constructor has opened the file for reading.                        *)
Init ==
  /\ binding \in Bindings
  /\ content \in [binding.cells -> Byte]
  /\ fd = 0
  /\ mode = "r"
  /\ open = [f \in {fd} |-> [mode |-> "r", pos |-> 0]]
  /\ map = NoMap
  /\ pc = "idle"
  /\ call = NoCall
  /\ reply = NoReply
  /\ asked = FALSE

Begin(c) ==
  /\ pc = "idle"
  /\ pc' = "check"
  /\ call' = c
  /\ reply' = NoReply
  /\ UNCHANGED <<binding, content, open, fd, mode, map, asked>>

(* The call returns or throws; what it has mapped is unmapped.             *)
EndCall(r) ==
  /\ pc' = "idle"
  /\ call' = NoCall
  /\ reply' = r
  /\ map' = NoMap

Access == IF Mapped THEN "map" ELSE "seek"

(* (Mutation of Valid: negative offsets pass.)                             *)
ValidNegative ==
  /\ call.width \in binding.widths
  /\ call.off + call.width <= binding.bound

(* check_width() and check_bounds().                                       *)
Valid ==
  /\ call.width \in binding.widths
  /\ call.off >= 0
  /\ call.off + call.width <= binding.bound

(* (Mutation of Check: the file is made writable for reads, too.)          *)
CheckReopens ==
  /\ pc = "check"
  /\ Valid
  /\ pc' = IF mode = "r" THEN "reopen" ELSE Access
  /\ asked' = (asked \/ call.name = "write")
  /\ UNCHANGED <<binding, content, open, fd, mode, map, call, reply>>

Check ==
  /\ pc = "check"
  /\ \/ /\ Valid
        /\ pc' = IF call.name = "write" /\ mode = "r" THEN "reopen" ELSE Access
        /\ asked' = (asked \/ call.name = "write")
        /\ UNCHANGED <<map, call, reply>>
     \/ /\ ~Valid
        /\ EndCall(Error)
        /\ UNCHANGED asked
  /\ UNCHANGED <<binding, content, open, fd, mode>>

(* (Mutation of Reopen: the old descriptor is not closed on an error.)     *)
ReopenLeaks ==
  /\ pc = "reopen"
  /\ \E new \in Descriptor \ DOMAIN open :
       /\ open' = [f \in DOMAIN open \cup {new} |->
                     IF f = new THEN [mode |-> "rw", pos |-> 0] ELSE open[f]]
       /\ fd' = new
  /\ mode' = "rw"
  /\ EndCall(Error)
  /\ UNCHANGED <<binding, content, asked>>

(* File::reopen(): the new descriptor takes the place of the old one,      *)
(* which is closed.  close() may report an error, but closes.              *)
Reopen ==
  /\ pc = "reopen"
  /\ \E new \in Descriptor \ DOMAIN open :
       /\ open' = [f \in (DOMAIN open \ {fd}) \cup {new} |->
                     IF f = new THEN [mode |-> "rw", pos |-> 0] ELSE open[f]]
       /\ fd' = new
  /\ mode' = "rw"
  /\ \/ pc' = Access /\ UNCHANGED <<map, call, reply>>
     \/ EndCall(Error)
  /\ UNCHANGED <<binding, content, asked>>

(* (Mutation of Seek: the base of the binding is forgotten.)               *)
SeekFromZero ==
  /\ pc = "seek"
  /\ open' = [open EXCEPT ![fd].pos = call.off]
  /\ pc' = "access"
  /\ UNCHANGED <<binding, content, fd, mode, map, call, reply, asked>>

Seek ==
  /\ pc = "seek"
  /\ open' = [open EXCEPT ![fd].pos = binding.base + call.off]
  /\ pc' = "access"
  /\ UNCHANGED <<binding, content, fd, mode, map, call, reply, asked>>

RoundUp(n) == ((n + Page - 1) \div Page) * Page

(* (Mutation of Mapping: only what was asked is rounded up.)               *)
MappingExact(addr) ==
  [from |-> addr - (addr % Page), length |-> RoundUp(call.width),
   at |-> addr % Page, prot |-> mode]

(* FileMapping::do_mmap(): from the page of the address on, and a page     *)
(* longer than asked.                                                      *)
Mapping(addr) ==
  [from |-> addr - (addr % Page), length |-> Page + RoundUp(call.width),
   at |-> addr % Page, prot |-> mode]

(* MemIo::map(): the bound of the region is checked only now.  The address *)
(* is a sum of two uint64_t.                                               *)
Map ==
  /\ pc = "map"
  /\ \/ /\ call.off + call.width <= binding.limit
        /\ map' = Mapping((binding.base + call.off) % MemTop)
        /\ pc' = "access"
        /\ UNCHANGED <<call, reply>>
     \/ /\ call.off + call.width > binding.limit
        /\ EndCall(Error)
  /\ UNCHANGED <<binding, content, open, fd, mode, asked>>

(* How many cells of an access at pos a file of n cells has.               *)
Got(pos, n) == IF pos >= n THEN 0 ELSE IF pos + Count <= n THEN Count ELSE n - pos

(* A short access is an error, but at the end of a PCI config file.        *)
Short(got) == got # Count /\ ~(binding.kind = "pci" /\ open[fd].pos + got >= binding.size)

(* After the access: a whole one returns r, a short one throws, at the end *)
(* of a config file only if is_eof() cannot tell the position or the size. *)
EndAccess(got, r) ==
  \/ ~Short(got) /\ EndCall(r)
  \/ got # Count /\ EndCall(Error)

(* read() and write() may transfer less than the file has.  The bytes of   *)
(* the buffer that were not read are 0xff.                                 *)
Read ==
  /\ pc = "access" /\ call.name = "read" /\ ~Mapped
  /\ LET pos == open[fd].pos IN
     \E got \in 0..Got(pos, binding.readable) :
       /\ open' = [open EXCEPT ![fd].pos = pos + got]
       /\ EndAccess(got, Data([k \in 0..(Count - 1) |->
                                 IF k < got THEN content[pos + k] ELSE Ones]))
  /\ UNCHANGED <<binding, content, fd, mode, asked>>

Write ==
  /\ pc = "access" /\ call.name = "write" /\ ~Mapped
  /\ open[fd].mode = "rw"
  /\ LET pos == open[fd].pos IN
     \E got \in 0..Got(pos, binding.size) :
       /\ open' = [open EXCEPT ![fd].pos = pos + got]
       /\ content' = [a \in DOMAIN content |->
                        IF a \in pos..(pos + got - 1) THEN call.data[a - pos]
                        ELSE content[a]]
       /\ EndAccess(got, Done)
  /\ UNCHANGED <<binding, fd, mode, asked>>

(* MemIo::do_read() and do_write(), at an address of the mapping.  After   *)
(* the access munmap() may fail, in ~FileMapping, which throws (the build  *)
(* names no language standard: from C++11 on a destructor that throws ends *)
(* the program instead).  Nobody refers to the mapping that is left.       *)
Pointer == map.from + map.at

EndMapped(r) == EndCall(r) \/ EndCall(Error)

Load ==
  /\ pc = "access" /\ call.name = "read" /\ Mapped
  /\ EndMapped(Data([k \in 0..(Count - 1) |->
                       IF Pointer + k \in DOMAIN content THEN content[Pointer + k]
                       ELSE Ones]))
  /\ UNCHANGED <<binding, content, open, fd, mode, asked>>

Store ==
  /\ pc = "access" /\ call.name = "write" /\ Mapped
  /\ content' = [a \in DOMAIN content |->
                   IF a \in Pointer..(Pointer + Count - 1)
                   THEN call.data[a - Pointer] ELSE content[a]]
  /\ EndMapped(Done)
  /\ UNCHANGED <<binding, open, fd, mode, asked>>

(* A system call up to the access fails, and throws; write() also when the *)
(* descriptor is not open for writing.                                     *)
Throw ==
  /\ pc \in {"reopen", "seek", "map"} \/ (pc = "access" /\ ~Mapped)
  /\ EndCall(Error)
  /\ UNCHANGED <<binding, content, open, fd, mode, asked>>

(* The hardware behind the file changes a cell.                            *)
Device ==
  /\ \E a \in Volatile \cap DOMAIN content, v \in Byte :
       content' = [content EXCEPT ![a] = v]
  /\ UNCHANGED <<binding, open, fd, mode, map, pc, call, reply, asked>>

Next ==
  \/ \E c \in Requests : Begin(c)
  \/ Check \/ Reopen \/ Seek \/ Map
  \/ Read \/ Write \/ Load \/ Store \/ Throw
  \/ Device

Spec == Init /\ [][Next]_vars

-----------------------------------------------------------------------------
TypeOK ==
  /\ binding \in Bindings
  /\ content \in [binding.cells -> Byte]
  /\ DOMAIN open \subseteq Descriptor
  /\ \A f \in DOMAIN open : open[f] \in [mode : {"r", "rw"}, pos : Nat]
  /\ fd \in DOMAIN open
  /\ mode \in {"r", "rw"}
  /\ map \in [from : Nat, length : Nat, at : Nat, prot : {"none", "r", "rw"}]
  /\ pc \in {"idle", "check", "reopen", "seek", "map", "access"}
  /\ IF pc = "idle" THEN call = NoCall ELSE call \in Requests
  /\ asked \in BOOLEAN

(* However calls fail, the binding has one descriptor open, the one it     *)
(* will use next, and knows how it is open (filesystem.h:278-298): nothing *)
(* leaks, and a later call is served as if no other had failed.            *)
OneDescriptor == DOMAIN open = {fd} /\ open[fd].mode = mode

(* A device file is opened for writing by the first write that passes the  *)
(* checks, and not before (io_binding.cc:63-66).                           *)
ReadOnlyUntilWrite == mode = "rw" => asked

(* A mapped access lies within its mapping, however address and width lie  *)
(* with respect to pages, and a write has a writable one: what would       *)
(* happen otherwise is no exception but the end of the program             *)
(* (filesystem.h:521-544).                                                 *)
NoFault ==
  pc = "access" /\ Mapped =>
    /\ map.from % Page = 0
    /\ map.at + call.width <= map.length
    /\ call.name = "write" => map.prot = "rw"

(* The calls of a binding, seen from outside. *)
Space ==
  [a \in 0..(binding.limit - 1) |->
     IF binding.base + a \in DOMAIN content THEN content[binding.base + a] ELSE Absent]
Asked ==
  IF pc = "idle" THEN NoCall
  ELSE [name |-> call.name, off |-> call.off, data |-> call.data, count |-> Count]

Promise == INSTANCE AddressSpace WITH space <- Space, call <- Asked

(* Every read returns what is at its offset within the binding's own part  *)
(* of the device, every write changes just that (binding.h:24-42).  A call *)
(* that throws, whichever system call fails, has changed at most what it   *)
(* was asked to write, from the beginning on: nothing behind it, outside   *)
(* the binding, or by a read.  Nothing more can be said: is_eof() and      *)
(* munmap() may fail when all or a part is written already                 *)
(* (pci_binding.cc:85-92, filesystem.h:78-101).                            *)
KeepsPromise == Promise!Spec

(* IoDriver::new_binding() has accepted <base, size> as a valid region     *)
(* (io_driver.cc:44-49): an access within it is a valid access.            *)
RefusesOnlyInvalid ==
  [][pc = "check" /\ pc' = "idle" /\ binding.kind = "io" =>
       ~(call.width \in binding.widths /\ call.off >= 0
           /\ call.off + call.width <= binding.named)]_vars
=============================================================================
