--------------------------------- MODULE Gpu ---------------------------------
(***************************************************************************)
(* GPU detection of internal/gpu: which vendor tools a host is probed      *)
(* with, what each parser makes of their output, and the capacity the      *)
(* devices add up to.                                                      *)
(*                                                                         *)
(* The output of a tool is Absent (not installed), Failed (it ran and gave *)
(* an error, or text that does not parse), or the sequence of its entries. *)
(* A number that does not parse is Bad.  Of a device's name only identity  *)
(* counts; Blank is an empty name.  A host is a record with the operating  *)
(* system and the output of each tool.                                     *)
(***************************************************************************)
EXTENDS Integers, Sequences, SequencesExt, Bags, BagsExt

CONSTANTS
    Kib,         \* 1024 in the code
    Absent, Failed, Bad, Blank

ASSUME GpuConstants == Kib \in Nat \ {0}

mib == Kib * Kib
gib == Kib * mib

Clamp(util) == IF util = Bad THEN 0 ELSE IF util > 100 THEN 100 ELSE util

\* A probe ends with devices or with an error.
Found(devices) == [ok |-> TRUE, devices |-> devices]
ProbeError == [ok |-> FALSE, devices |-> <<>>]

-----------------------------------------------------------------------------
(* NVIDIA *)

\* One line per device, in MiB.  One bad line fails the whole output.
parseNvidiaSMI(out) ==
    IF \E i \in DOMAIN out : out[i].total = Bad \/ out[i].free = Bad THEN ProbeError
    ELSE Found([i \in DOMAIN out |->
                 [name |-> out[i].name, total |-> out[i].total * mib,
                  free |-> out[i].free * mib, load |-> Clamp(out[i].util)]])

detectNVIDIA(host) ==
    IF host.nvidia \in {Absent, Failed} THEN ProbeError ELSE parseNvidiaSMI(host.nvidia)

-----------------------------------------------------------------------------
(* AMD *)

\* Cards in the order of their ids, in bytes; free is total less used, and 0
\* when used is unknown or does not fit.
parseRocmSMI(out) ==
    LET device(e) ==
          [name |-> e.name, total |-> IF e.total = Bad THEN 0 ELSE e.total,
           free |-> IF e.total = Bad \/ e.used = Bad \/ e.used > e.total THEN 0
                    ELSE e.total - e.used,
           load |-> Clamp(e.util)]
        usable(e) == e.card /\ ~ (e.name = Blank /\ e.total = Bad) IN
    Found([i \in DOMAIN SelectSeq(out, usable) |-> device(SelectSeq(out, usable)[i])])

amdVRAMToBytes(value, unit) ==
    CASE unit = "gb" -> value * gib
      [] unit = "kb" -> value * Kib
      [] unit = "b" -> value
      [] OTHER -> value * mib

\* Only the total: the static report has neither free memory nor load.
parseAmdSMI(out) ==
    LET usable(e) == ~ (e.name = Blank /\ amdVRAMToBytes(e.value, e.unit) = 0) IN
    [i \in DOMAIN SelectSeq(out, usable) |->
        LET e == SelectSeq(out, usable)[i] IN
        [name |-> e.name, total |-> amdVRAMToBytes(e.value, e.unit), free |-> 0, load |-> 0]]

\* amd-smi when it reports a device, rocm-smi otherwise.
detectAMD(host) ==
    IF host.amd \notin {Absent, Failed} /\ parseAmdSMI(host.amd) # <<>>
    THEN Found(parseAmdSMI(host.amd))
    ELSE IF host.rocm \in {Absent, Failed} THEN ProbeError
    ELSE parseRocmSMI(host.rocm)

-----------------------------------------------------------------------------
(* Apple *)

\* Two fields, a number and a unit.
parseAppleVRAM(value, unit) ==
    CASE value = Bad -> Bad
      [] value # Bad /\ unit = "gb" -> value * gib
      [] value # Bad /\ unit = "mb" -> value * mib
      [] value # Bad /\ unit = "kb" -> value * Kib
      [] OTHER -> Bad

parseSystemProfiler(out) ==
    LET vram(e) == parseAppleVRAM(e.value, e.unit)
        usable(e) == ~ (e.name = Blank /\ vram(e) \in {Bad, 0}) IN
    [devices |-> [i \in DOMAIN SelectSeq(out, usable) |->
                    LET e == SelectSeq(out, usable)[i]
                        bytes == IF vram(e) = Bad THEN 0 ELSE vram(e) IN
                    [name |-> e.name, total |-> bytes, free |-> bytes, load |-> 0]],
     needMem |-> \E i \in DOMAIN out : vram(out[i]) = Bad]

\* sysctl hw.memsize, 0 when it cannot be read.
appleUnifiedMemory(host) == IF host.memsize = Bad THEN 0 ELSE host.memsize

\* A device without memory of its own has the host's.
detectApple(host) ==
    IF host.apple \in {Absent, Failed} THEN ProbeError
    ELSE LET parsed == parseSystemProfiler(host.apple)
             mem == appleUnifiedMemory(host) IN
         Found([i \in DOMAIN parsed.devices |->
                 LET d == parsed.devices[i] IN
                 IF parsed.needMem /\ d.total = 0
                 THEN [d EXCEPT !.total = mem, !.free = mem] ELSE d])

-----------------------------------------------------------------------------
(* The detector *)

\* The vendors tried on each system, in order.
probes(host) ==
    CASE host.goos = "linux" -> <<detectNVIDIA(host), detectAMD(host)>>
      [] host.goos = "windows" -> <<detectNVIDIA(host)>>
      [] host.goos = "darwin" -> <<detectApple(host)>>
      [] OTHER -> <<>>

\* How many devices of each name there are.
combineNames(devices) ==
    FoldSeq(LAMBDA d, names : BagAdd(names, IF d.name = Blank THEN "GPU" ELSE d.name),
            EmptyBag, devices)

cpuFallback == [type |-> EmptyBag, total |-> 0, free |-> 0, load |-> 0]

\* Memory adds up; the load is the mean, rounded to the nearest.
aggregate(devices) ==
    IF devices = <<>> THEN cpuFallback
    ELSE LET sum(Of(_)) == FoldSeq(LAMBDA d, n : n + Of(d), 0, devices)
             count == Len(devices)
             mean == (sum(LAMBDA d : d.load) + (count \div 2)) \div count IN
         [type |-> combineNames(devices), total |-> sum(LAMBDA d : d.total),
          free |-> sum(LAMBDA d : d.free), load |-> IF mean > 100 THEN 100 ELSE mean]

\* The first vendor that reports a device; the CPU profile when none does.
Detect(host) ==
    LET reporting == {i \in DOMAIN probes(host) : /\ probes(host)[i].ok
                                                  /\ probes(host)[i].devices # <<>>} IN
    IF reporting = {} THEN cpuFallback
    ELSE aggregate(probes(host)[CHOOSE i \in reporting : \A j \in reporting : i <= j].devices)

=============================================================================
