----------------------------- MODULE RscCfgTbl -----------------------------
(***************************************************************************)
(* The resource table RscCfgTbl (perfservice_rsccfgtbl.h), row by row.     *)
(*                                                                         *)
(* Of a row the model keeps how requests are compared, the range they are  *)
(* clamped to, the default, and whether unset_func is a function of its    *)
(* own or set_func again.  The command's number and name, and which kernel *)
(* file the functions write, do not matter to the arbitration, so rows of  *)
(* one shape are one element.  The table is given in the order of the      *)
(* file, a definition for each stretch of it.                              *)
(***************************************************************************)
EXTENDS Integers

Row(comp, max, min, def, own) ==
  [comp |-> comp, max |-> max, min |-> min, def |-> def, ownUnset |-> own]

\* Ranked rows; unset_func is set_func, and writes the default.
Biggest(max, min, def) == Row("BIGGEST", max, min, def, FALSE)
Smallest(max, min, def) == Row("SMALLEST", max, min, def, FALSE)

\* Ranked rows with an unset_func of their own.
BiggestReset(max, min, def) == Row("BIGGEST", max, min, def, TRUE)
SmallestReset(max, min, def) == Row("SMALLEST", max, min, def, TRUE)

\* ONESHOT rows: with an unset_func of their own, and with set_func in its place.
Oneshot(max, min, def) == Row("ONESHOT", max, min, def, TRUE)
Sticky(max, min, def) == Row("ONESHOT", max, min, def, FALSE)
-----------------------------------------------------------------------------
\* Game mode and the cluster frequency limits.
CpuFreqClusterRowsA ==
  {Biggest(1, 0, 0), Biggest(5000000, 0, -1), Smallest(5000000, 0, -1)}
CpuFreqClusterRowsB ==
  {Biggest(5000000, 0, -1), Smallest(5000000, 0, -1)}
\* GPU frequency and core counts.
GpuAndCoreRows ==
  {Smallest(100, 0, -1), Biggest(100, 0, -1), Biggest(10, 0, -1),
   Smallest(10, 0, -1)}
\* Per-core frequency limits, CCI.
CpuFreqCoreRowsA ==
  {Biggest(5000000, 0, -1), Smallest(5000000, 0, -1)}
CpuFreqCoreRowsB ==
  {Smallest(5000000, 0, -1), Biggest(5000000, 0, -1), Biggest(2, 0, 0)}
\* Thermal and FRS parameters.
FrsRowsA ==
  {Biggest(1, 0, 0), Oneshot(1, 0, 0), Oneshot(100, 0, -1),
   Oneshot(100000, 25000, -1), Oneshot(240, 10, -1), Oneshot(1000, 0, -1)}
FrsRowsB ==
  {Oneshot(1000, 0, -1), Oneshot(100000, 0, -1), Oneshot(100, 0, -1),
   Oneshot(1, 0, -1), Oneshot(100, 0, 0), Oneshot(2000, 0, 0)}
FrsRowsC ==
  {Oneshot(100, 0, 0), Oneshot(1, 0, 0), Oneshot(3000000, 0, 0),
   Oneshot(2600000, 0, 0), Oneshot(1000, 0, -1),
   Oneshot(100000, 25000, -1), Oneshot(40000000, 0, 0)}
FrsRowsD ==
  {Oneshot(40000000, 0, 0)}
FrsRowsE ==
  {Oneshot(40000000, 0, 0)}
FrsRowsF ==
  {Oneshot(40000000, 0, 0), Oneshot(100000, 0, -1), Oneshot(1000, 0, -1),
   Oneshot(100, 0, 0), Oneshot(1, 0, -1)}
\* Wi-Fi, BT and netd.
NetRows ==
  {Biggest(1000000, 0, 0), Biggest(1, 0, 0), Oneshot(500000, 0, -1)}
\* FPSGO, FSTB and FBT, most of them per process.
FpsgoRowsA ==
  {Sticky(32768, 0, 0), Sticky(536870912, 0, 0), Biggest(600, 0, -1),
   Oneshot(2, 0, -1), Oneshot(100, 0, -1), Oneshot(1, 0, 0)}
FpsgoRowsB ==
  {Oneshot(1, 0, 0), Oneshot(2, 0, 0), Oneshot(98, 0, 0),
   Oneshot(10, 0, 0), Oneshot(50, 0, 0)}
FpsgoRowsC ==
  {Oneshot(7, 0, 0), Oneshot(1, 0, 0), Oneshot(1500, 0, 0),
   Oneshot(3, 0, 0), Oneshot(100, 0, 0), Oneshot(4, 0, 0)}
FpsgoRowsD ==
  {Oneshot(1, 0, 0), Oneshot(6, 0, 0), Oneshot(255, 1, 255),
   Oneshot(2, 0, 0), Oneshot(100, 0, 0), Oneshot(100, 0, 100)}
FpsgoRowsE ==
  {Oneshot(200, 0, 0), Oneshot(100, -100, 0), Oneshot(100, 0, 0),
   Oneshot(1, 0, -1), Oneshot(100, -100, -1), Oneshot(100, 0, -1),
   Oneshot(2, 0, -1), Oneshot(6000, -6000, -1)}
FpsgoRowsF ==
  {Oneshot(200, 0, -1), Oneshot(100, 0, -1)}
\* Latency hints, storage, task preference.
IoAndTaskRowsA ==
  {Biggest(1, 0, 0), Oneshot(500000, 0, -1), Biggest(1024, 0, -1),
   Oneshot(536870912, 1, -1)}
IoAndTaskRowsB ==
  {Oneshot(536870912, 1, -1), Biggest(100000, 0, 0), Biggest(255, 0, 0),
   Biggest(4, 0, 0), Biggest(2, 0, 0)}
\* GPU and thermal policy, touch boost, ADPF.
PolicyAndAdpfRows ==
  {Biggest(1, 0, 0), Oneshot(999, 0, -1), Oneshot(1000000, 0, 25),
   Biggest(1, 0, -1), Biggest(10000, 100, 125), Biggest(10000, 1, -1)}
\* DRAM, LMK and DuraSpeed.
MemoryRowsA ==
  {Smallest(15, 0, -1), Biggest(1, 0, 0), Biggest(100, 0, 100),
   Biggest(100000, 0, 0), Biggest(100, 0, 10), Biggest(3, 0, 0),
   Smallest(1000, 0, 100)}
MemoryRowsB ==
  {Biggest(1, 0, 0), Biggest(1000, 0, 0), Smallest(100, 0, 100),
   BiggestReset(100, 0, 20), Biggest(100, 0, 0), Smallest(100, 0, 85),
   Smallest(100, 0, 70), Smallest(6, 1, 6)}
\* Video, SurfaceFlinger and display.
DisplayRowsA ==
  {Biggest(1, 0, 0), Oneshot(100000000, 0, 0)}
DisplayRowsB ==
  {Oneshot(255, 0, -1), Biggest(1, 0, 0), Oneshot(536870912, 1, -1)}
\* Isolation, PELT, CPU idle, task turbo, hold time.
IsolationAndPowerRowsA ==
  {Oneshot(1000000, 0, 0), SmallestReset(32, 8, 8),
   Smallest(10000, 1, 100), Sticky(1000000, -1000000, 0),
   Smallest(1, 0, 1), Sticky(1, 0, 0), Oneshot(100, 0, 0)}
IsolationAndPowerRowsB ==
  {Biggest(1, 0, 0), Oneshot(536870912, 0, 0), Smallest(1, 0, 1),
   Sticky(255, 0, -1), Biggest(1, 0, 1)}
\* Forced pause and core_ctl thresholds.
CoreCtlRowsA ==
  {Oneshot(100000000, 0, 0), Biggest(1, 0, 0)}
CoreCtlRowsB ==
  {Biggest(100000000, 0, 100), Biggest(100, 0, 50),
   Biggest(100000000, 0, 0), Smallest(100, 0, 60)}
CoreCtlRowsC ==
  {Smallest(100, 0, 60), Biggest(100, 0, 30), Smallest(1000, 0, 4),
   Smallest(5000000, 0, 1200000), Smallest(5000000, 0, 1500000)}
CoreCtlRowsD ==
  {Smallest(5000000, 0, 1700000), Smallest(100, 0, 80),
   Smallest(1000, 0, 2)}
\* Cpusets, kswapd, CPU QoS of the cache.
CacheQosRowsA ==
  {Oneshot(1000000, 0, 0), BiggestReset(1, 0, 0), Sticky(1, 0, 0)}
CacheQosRowsB ==
  {Sticky(1, 0, 0), Sticky(536870912, 0, -1),
   Biggest(1000000000, 0, 1000), Biggest(1000000000, 1, 1),
   Biggest(1, 0, 0), SmallestReset(100, 0, -1)}
\* EAS scheduler controls.
SchedRowsA ==
  {Sticky(32768, 0, 0), Sticky(100, 0, 100), Sticky(1, 0, 0),
   Sticky(3, 0, 1), Sticky(1000000, -1000000, 0), Biggest(1, 0, 1)}
SchedRowsB ==
  {Biggest(3200000, 0, 0), BiggestReset(99, -2000, 0),
   BiggestReset(99, -2000, 1), BiggestReset(99, -2000, 2),
   Sticky(1000000000, 0, -1)}
SchedRowsC ==
  {Sticky(1000000000, 0, -1), Oneshot(1000000000, 0, -1),
   Oneshot(120, 99, 99), Sticky(100, 0, 0), Oneshot(64, 0, 0),
   Sticky(64, 0, 0)}
SchedRowsD ==
  {Sticky(64, 0, 0), Sticky(1, 0, 0), Oneshot(536870912, 0, 0),
   SmallestReset(1, 0, 0), BiggestReset(1, 0, 0), Biggest(1, 0, 0),
   BiggestReset(1, 0, 1), Biggest(1, 0, 1)}
\* CPU QoS user groups.
UserGroupRows ==
  {Oneshot(536870912, 0, 0), Sticky(255, 0, 0)}
\* FPSGO and FBT per process, second part.
FpsByPidRowsA ==
  {Sticky(1000000, -1000000, 0), Oneshot(1, 0, 0), Sticky(32768, 0, 0),
   Oneshot(120, 0, 0), Oneshot(100, 0, 0), Oneshot(2000, 0, 0)}
FpsByPidRowsB ==
  {Oneshot(4000000, 0, 0), Oneshot(1000, 0, 0), Oneshot(1, 0, 0),
   Oneshot(3000, -3000, -1), Oneshot(1, 0, 1)}
FpsByPidRowsC ==
  {Oneshot(100, 0, 22), Oneshot(1, 0, 0), Oneshot(100, 0, 0),
   Oneshot(60000, 0, 0), Oneshot(200, 0, 0)}
\* SBE and peak power limits.
SbeAndPeakPowerRowsA ==
  {Smallest(100, 0, 50), Smallest(1000, 10, 100), Smallest(1000, 10, 150),
   Biggest(100000, 0, 700), Biggest(100000, 0, 3000),
   Smallest(100000, 0, 1000), Biggest(1, 0, 0), Biggest(3, 0, 2),
   Biggest(100, 0, 0)}
SbeAndPeakPowerRowsB ==
  {Biggest(100000, 0, 0), Oneshot(1, 0, 0), Biggest(100, 0, 0),
   Biggest(5, 0, 0), Smallest(1, 0, 1), Biggest(8, 0, 0),
   Biggest(21, 0, 0), SmallestReset(16777215, 0, 16777215)}
SbeAndPeakPowerRowsC ==
  {Biggest(7, 0, 0), Biggest(65793, 0, 0), Biggest(1381653, 0, 0),
   Biggest(1, 0, 0), Biggest(21, 0, 0), SmallestReset(2147483646, 0, 0)}
\* Test and jank detection rows.
LastRowsA ==
  {Oneshot(1, 0, 0), Oneshot(100, -100, 0), Oneshot(1000000, 0, 0),
   Sticky(100, -100, 0), Biggest(1, 0, 1), Oneshot(31, 0, 0)}
LastRowsB ==
  {Oneshot(1, 0, 0), Oneshot(100, -100, -20), Oneshot(100, 0, 20),
   Oneshot(1, -1, -1), Sticky(32768, -32768, 0)}

RscCfgTbl ==
  UNION {CpuFreqClusterRowsA, CpuFreqClusterRowsB, GpuAndCoreRows,
         CpuFreqCoreRowsA, CpuFreqCoreRowsB, FrsRowsA, FrsRowsB,
         FrsRowsC, FrsRowsD, FrsRowsE, FrsRowsF, NetRows, FpsgoRowsA,
         FpsgoRowsB, FpsgoRowsC, FpsgoRowsD, FpsgoRowsE, FpsgoRowsF,
         IoAndTaskRowsA, IoAndTaskRowsB, PolicyAndAdpfRows,
         MemoryRowsA, MemoryRowsB, DisplayRowsA, DisplayRowsB,
         IsolationAndPowerRowsA, IsolationAndPowerRowsB, CoreCtlRowsA,
         CoreCtlRowsB, CoreCtlRowsC, CoreCtlRowsD, CacheQosRowsA,
         CacheQosRowsB, SchedRowsA, SchedRowsB, SchedRowsC,
         SchedRowsD, UserGroupRows, FpsByPidRowsA, FpsByPidRowsB,
         FpsByPidRowsC, SbeAndPeakPowerRowsA, SbeAndPeakPowerRowsB,
         SbeAndPeakPowerRowsC, LastRowsA, LastRowsB}
=============================================================================
