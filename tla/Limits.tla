------------------------------- MODULE Limits -------------------------------
(***************************************************************************)
(* Setters that share state: what reaches a node is worked out from two or *)
(* more resources of RscCfgTbl.                                            *)
(*                                                                         *)
(* Init picks a unit: the frequency limits of a CPU cluster (soft and hard *)
(* limits of the cluster, soft limits of its cores), the GPU's soft and    *)
(* hard limits, the boost of the APU cores, the number of CPU cores, the   *)
(* soft frame rate, and two nodes with a resource that overrides another   *)
(* (PELT half-life, dex2oat).  The arbitration calls the set_func of a     *)
(* limit with the ruling value or, when nobody asks, with -1.              *)
(***************************************************************************)
EXTENDS Integers, FiniteSetsExt

CONSTANTS
  freqMin, freqMax,     \* of a cluster
  nGpuFreqCount         \* operating points of the GPU; 0 is the fastest

ASSUME LimitsAssumption ==
  /\ freqMin \in Nat \ {0} /\ freqMax \in Nat /\ freqMin < freqMax
  /\ nGpuFreqCount \in Nat \ {0}

Ignore == -1            \* PPM_IGNORE; also the default of every limit
VPU_BOOST_MAX == 100
Cpu == {"cpu0", "cpu1"}       \* the cores of the cluster
cpuNum == 2                   \* cores of a cluster, for the core counts
default_core_min == 1         \* read from core_ctl at start
cpu_max == 3                  \* (1 << cpu_num) - 1: the largest mask of cores

VARIABLES
  unit,     \* the unit looked at
  asked,    \* the variables ..._now of the setters: scope -> [min, max]
  seen,     \* CPU: soft_core_freq, soft_freq and hard_freq, as last worked out
  written   \* the nodes: name -> [min, max]

limitVars == <<unit, asked, seen, written>>

Pair(a, b) == [min |-> a, max |-> b]
ScopesOf(kind) ==
  CASE kind = "cpu" -> {"soft", "hard"} \cup Cpu
    [] kind = "gpu" -> {"soft", "hard"}
    [] kind = "apu" -> {"vpu0", "vpu1", "mdla"}
    [] kind = "cores" -> {"cluster0", "cluster1"}
    [] kind = "fps" -> {"soft"}
    [] kind \in {"pelt", "dex2oat"} -> {"low", "high"}

Units ==
  {[kind |-> "cpu", byCore |-> b, hard_user_limit |-> h] : b, h \in BOOLEAN}
  \cup {[kind |-> "apu", chip6885 |-> b] : b \in BOOLEAN}
  \cup {[kind |-> "cores", core_ctl |-> b] : b \in BOOLEAN}
  \cup {[kind |-> k] : k \in {"gpu", "fps", "pelt", "dex2oat"}}

Clamp(v) == IF v <= freqMin THEN freqMin ELSE IF v >= freqMax THEN freqMax ELSE v
CapAt(v) == IF v >= freqMax THEN freqMax ELSE v
Align(p) == IF p.max < p.min THEN Pair(p.min, p.min) ELSE p   \* ceiling up to floor
-----------------------------------------------------------------------------
(***************************************************************************)
(* CPU frequency.  An unset request is stored as 0 or freqMax.             *)
(***************************************************************************)
initCPUFreqInfo == [s \in ScopesOf("cpu") |-> Pair(0, freqMax)]

updateClusterFreqInfo(now) ==
  [s \in {"soft", "hard"} |-> Align(Pair(CapAt(now[s].min), CapAt(now[s].max)))]

updateCPUFreqInfo(now, c) == Align(Pair(now[c].min, CapAt(now[c].max)))

IntoHard(hard, v) == IF v < hard.min THEN hard.min
                     ELSE IF v > hard.max THEN hard.max ELSE v

Ceiling(p) == IF p.max <= 0 THEN freqMax ELSE Clamp(p.max)

\* Mutant: the ceiling is not aligned with the floor.
FreqToSet_NoAlign(k, c) ==
  LET cores == IF unit.byCore THEN {c} ELSE Cpu
      floor == Max({Clamp(k[d].min) : d \in cores \cup {"soft"}})
      ceil == Min({Ceiling(k[c]), Ceiling(k["soft"])})
  IN  Pair(IntoHard(k["hard"], floor), IntoHard(k["hard"], ceil))

\* The computation of setCPUFreq: the highest floor, the lowest ceiling, the floor
\* first, then both into the hard limits.  With one policy for the cluster the
\* limits of all its cores count.
FreqToSet(k, c) ==
  LET cores == IF unit.byCore THEN {c} ELSE Cpu
      floor == Max({Clamp(k[d].min) : d \in cores \cup {"soft"}})
      ceil == Min({Ceiling(k[c]), Ceiling(k["soft"])}
                  \cup (IF unit.byCore THEN {} ELSE {Clamp(k[d].max) : d \in Cpu}))
      p == Align(Pair(floor, ceil))
  IN  Pair(IntoHard(k["hard"], p.min), IntoHard(k["hard"], p.max))

\* setCPUFreq(cluster, c): <<seen, written>> afterwards.  Only cores with a policy of
\* their own have their requests looked at.
setCPUFreq(now, kw, c) ==
  LET k == IF unit.byCore THEN [kw[1] EXCEPT ![c] = updateCPUFreqInfo(now, c)] ELSE kw[1]
      target == IF unit.byCore THEN c ELSE "cpu0"
  IN  <<k, [kw[2] EXCEPT ![target] = FreqToSet(k, c)]>>

\* setClusterFreq: every core with a policy of its own, or the first.
setClusterFreq(now) ==
  LET k == [s \in DOMAIN seen |-> IF s \in Cpu THEN seen[s] ELSE updateClusterFreqInfo(now)[s]]
      first == setCPUFreq(now, <<k, written>>, "cpu0")
  IN  IF unit.byCore THEN setCPUFreq(now, first, "cpu1") ELSE first

\* setClusterHardFreq: with a node of its own for hard limits, that is written, and
\* hard_freq is brought up to date by the next soft request.
setClusterHardFreq(now) ==
  IF ~unit.hard_user_limit THEN setClusterFreq(now)
  ELSE <<seen, [written EXCEPT !["hard"] =
                  Pair(IF now["hard"].min <= 0 THEN Ignore ELSE now["hard"].min,
                       IF now["hard"].max <= 0 \/ now["hard"].max >= freqMax
                       THEN Ignore ELSE now["hard"].max)]>>

\* The functions of the macros SET_CPU_FREQ_*.
setCPUFreqLimit(scope, end, freq) ==
  /\ unit.kind = "cpu"
  /\ LET rest == IF end = "min" THEN 0 ELSE freqMax
         now == [asked EXCEPT ![scope][end] = IF freq = -1 THEN rest ELSE freq]
         new == CASE scope = "soft" -> setClusterFreq(now)
                  [] scope = "hard" -> setClusterHardFreq(now)
                  [] OTHER -> setCPUFreq(now, <<seen, written>>, scope)
     IN  /\ asked' = now /\ seen' = new[1] /\ written' = new[2]
         /\ UNCHANGED unit
-----------------------------------------------------------------------------
(***************************************************************************)
(* GPU, APU, core counts and frame rate.                                   *)
(***************************************************************************)

\* Levels: a lower number is a higher frequency.
setGpuFreq(now) ==
  LET minHard == now["hard"].min
      maxHard == Min({now["hard"].max, minHard})
      into(v) == IF v > minHard THEN minHard ELSE IF v < maxHard THEN maxHard ELSE v
      freqToSet == into(now["soft"].min)
      maxToSet == into(Min({now["soft"].max, now["soft"].min}))
  IN  Pair(IF freqToSet \notin 0 .. nGpuFreqCount - 1 THEN nGpuFreqCount - 1 ELSE freqToSet,
           IF maxToSet \notin 0 .. nGpuFreqCount - 1 THEN 0 ELSE maxToSet)

\* setGPUFreqMinOPP, ...MaxOPP and their hard versions.
setGPUFreqOPP(scope, end, level) ==
  /\ unit.kind = "gpu"
  /\ LET rest == IF end = "min" THEN nGpuFreqCount - 1 ELSE 0
         now == [asked EXCEPT ![scope][end] = IF level = -1 THEN rest ELSE level]
     IN  asked' = now /\ written' = [written EXCEPT !["gpu"] = setGpuFreq(now)]
  /\ UNCHANGED <<unit, seen>>

\* setVPUboost and setMDLAboost: on chip 6885 both VPU cores are one user.
setBoost(scope, end, value) ==
  /\ unit.kind = "apu"
  /\ LET now == [asked EXCEPT ![scope][end] = value]
         p == Align(Pair(IF now[scope].min = -1 THEN 0 ELSE now[scope].min,
                         IF now[scope].max = -1 THEN VPU_BOOST_MAX ELSE now[scope].max))
         target == IF unit.chip6885 /\ scope = "vpu1" THEN "vpu0" ELSE scope
     IN  asked' = now /\ written' = [written EXCEPT ![target] = p]
  /\ UNCHANGED <<unit, seen>>

\* setClusterCores: the limits of a cluster for a driver with a file, and for
\* core_ctl, where an absent limit is spelt out.
setClusterCores(p) ==
  LET least == IF p.min < 0 \/ p.min > cpuNum \/ (p.min = 0 /\ ~unit.core_ctl)
               THEN Ignore ELSE p.min
      most == IF p.max < 0 \/ p.max >= cpuNum THEN Ignore ELSE p.max
  IN  IF ~unit.core_ctl THEN Pair(least, most)
      ELSE Pair(IF least # Ignore THEN least
                ELSE IF most = Ignore THEN default_core_min ELSE 0,
                IF most = Ignore THEN cpuNum ELSE most)

\* setCPUCores: all clusters are written.  The first two may not both be limited to
\* no core at all.
setCPUCores(now) ==
  LET least(c) == IF now[c].min > cpuNum THEN Ignore ELSE now[c].min
      most(c) == Max({now[c].max, least(c)})
  IN  [c \in DOMAIN now |->
         setClusterCores(Pair(least(c),
                              IF c = "cluster0" /\ \A d \in DOMAIN now : most(d) = 0
                              THEN Ignore ELSE most(c)))]

setCPUCoreCluster(scope, end, value) ==
  /\ unit.kind = "cores"
  /\ LET now == [asked EXCEPT ![scope][end] =
                   IF end = "max" /\ value = -1 THEN cpuNum ELSE value]
     IN  asked' = now /\ written' = setCPUCores(now)
  /\ UNCHANGED <<unit, seen>>

\* setFstbSoftFpsHigh and ...Low; with nothing asked the text read at start is
\* written.  The two are not compared.
setFstbSoftFps(end, fps) ==
  /\ unit.kind = "fps"
  /\ asked' = [asked EXCEPT !["soft"][end] = fps]
  /\ written' = [written EXCEPT !["soft"] = asked'["soft"]]
  /\ UNCHANGED <<unit, seen>>
-----------------------------------------------------------------------------
(***************************************************************************)
(* Two resources, one node; the value is kept in field min.  The ruling    *)
(* values arrive by set, and unset when nobody asks any more.              *)
(***************************************************************************)
PELT_DEFAULT == 8

sched_set_pelt_multiplier(value) == CASE value = 32 -> 1 [] value = 16 -> 2 [] OTHER -> 4

\* Mutant: the end of the overriding request does not bring the other back.
PeltValue_Forgets(now, scope, value) ==
  IF now["high"].min # -1 THEN now["high"].min ELSE value

\* The half-life in force after the request of scope became value.
PeltValue(now, scope, value) ==
  IF now["high"].min # -1 THEN now["high"].min
  ELSE IF scope = "high" /\ now["low"].min # -1 THEN now["low"].min ELSE value

\* sched_(un)set_pelt_halflife and ..._high_priority; a request for the lower one
\* writes nothing while the other is set.
sched_pelt_halflife(scope, v) ==
  /\ unit.kind = "pelt"
  /\ asked' = [asked EXCEPT ![scope].min = v]
  /\ written' =
       IF scope = "low" /\ asked["high"].min # -1 THEN written
       ELSE [written EXCEPT !["pelt"].min =
               sched_set_pelt_multiplier(
                 PeltValue(asked', scope, IF v = -1 THEN PELT_DEFAULT ELSE v))]
  /\ UNCHANGED <<unit, seen>>

\* dex2oat: "high" is the thermal request.  seen holds is_dex2oat_disable, whether
\* the default was read, which is done by the first set after boot, and whether
\* the last thermal request got through (history).
do_set_dex2oat_cpus(v, s) ==
  IF ~s.default /\ ~s.boot THEN <<s, written>>
  ELSE <<[s EXCEPT !.default = TRUE],
         IF v \in 1 .. cpu_max THEN [written EXCEPT !["dex2oat"].min = v] ELSE written>>

set_dex2oat_cpus(scope, v) ==
  /\ unit.kind = "dex2oat"
  /\ asked' = [asked EXCEPT ![scope].min = v]
  /\ LET s == IF scope = "high"
              THEN [seen EXCEPT !.disable = TRUE, !.took = v \in 1 .. cpu_max /\ (seen.default \/ seen.boot)]
              ELSE seen
         new == IF scope = "low" /\ seen.disable THEN <<seen, written>>
                ELSE do_set_dex2oat_cpus(v, s)
     IN  seen' = new[1] /\ written' = new[2]
  /\ UNCHANGED unit

unset_dex2oat_cpus(scope) ==
  /\ unit.kind = "dex2oat"
  /\ asked' = [asked EXCEPT ![scope].min = -1]
  /\ IF ~seen.default \/ (scope = "low" /\ seen.disable)
     THEN UNCHANGED <<seen, written>>
     ELSE /\ written' = [written EXCEPT !["dex2oat"].min = -1]
          /\ seen' = IF scope = "high" THEN [seen EXCEPT !.disable = FALSE] ELSE seen
  /\ UNCHANGED unit

\* The property of the finished boot is set.
BootCompletes ==
  /\ unit.kind = "dex2oat" /\ ~seen.boot
  /\ seen' = [seen EXCEPT !.boot = TRUE]
  /\ UNCHANGED <<unit, asked, written>>
-----------------------------------------------------------------------------
NodesOf(u) == CASE u.kind = "cpu" -> Cpu \cup {"hard"}
                [] u.kind = "gpu" -> {"gpu"}
                [] u.kind \in {"pelt", "dex2oat"} -> {u.kind}
                [] OTHER -> ScopesOf(u.kind)
AtRest(u) == CASE u.kind = "cpu" -> Pair(freqMin, freqMax)
               [] u.kind = "gpu" -> Pair(nGpuFreqCount - 1, 0)
               [] u.kind = "apu" -> Pair(0, VPU_BOOST_MAX)
               [] u.kind = "cores" -> IF u.core_ctl THEN Pair(default_core_min, cpuNum)
                                      ELSE Pair(Ignore, Ignore)
               [] u.kind = "pelt" -> Pair(4, -1)
               [] OTHER -> Pair(-1, -1)
NotAsked(u) == CASE u.kind = "cpu" -> Pair(0, freqMax)
                 [] u.kind = "gpu" -> Pair(nGpuFreqCount - 1, -1)
                 [] u.kind = "cores" -> Pair(-1, cpuNum)
                 [] OTHER -> Pair(-1, -1)

LimitsInit ==
  /\ unit \in Units
  /\ asked = [s \in ScopesOf(unit.kind) |-> NotAsked(unit)]
  /\ seen = CASE unit.kind = "cpu" -> initCPUFreqInfo
              [] unit.kind = "dex2oat" -> [disable |-> FALSE, default |-> FALSE,
                                      boot |-> FALSE, took |-> FALSE]
              [] OTHER -> <<>>
  /\ written = [n \in NodesOf(unit) |->
                  IF n = "hard" THEN Pair(Ignore, Ignore) ELSE AtRest(unit)]

\* What set_func of a limit can be called with: -1, in and out of the node's range.
\* One of the cores is asked for fewer values.
LimitValues(scope, end) ==
  CASE unit.kind = "cpu" /\ scope = "cpu1" -> {-1, freqMin + 1}
    [] unit.kind = "cpu" -> IF end = "min" THEN {-1, freqMin + 1, freqMax + 1}
                            ELSE {-1, 0, freqMin + 1}
    [] unit.kind = "gpu" -> -1 .. nGpuFreqCount
    [] unit.kind = "apu" -> {-1, 0, 60, VPU_BOOST_MAX}
    [] unit.kind = "cores" -> -1 .. cpuNum + 1
    [] OTHER -> {}

LimitsNext ==
  \/ \E scope \in DOMAIN asked, end \in {"min", "max"} :
       \/ \E v \in LimitValues(scope, end) : setCPUFreqLimit(scope, end, v)
       \/ \E v \in LimitValues(scope, end) : setGPUFreqOPP(scope, end, v)
       \/ \E v \in LimitValues(scope, end) : setBoost(scope, end, v)
       \/ \E v \in LimitValues(scope, end) : setCPUCoreCluster(scope, end, v)
  \/ \E end \in {"min", "max"}, v \in {-1, 30, 60} : setFstbSoftFps(end, v)
  \/ \E scope \in {"low", "high"} :
       \/ \E v \in {-1, 8, 16, 32} : sched_pelt_halflife(scope, v)
       \/ \E v \in {0, 1, cpu_max, cpu_max + 1} : set_dex2oat_cpus(scope, v)
       \/ unset_dex2oat_cpus(scope)
  \/ BootCompletes

LimitsSpec == LimitsInit /\ [][LimitsNext]_limitVars
-----------------------------------------------------------------------------
LimitsTypeOK ==
  LET most == Max({freqMax + 1, nGpuFreqCount, VPU_BOOST_MAX})
      pairs(S) == \A p \in S : p.min \in -1 .. most /\ p.max \in -1 .. most
  IN  /\ unit \in Units
      /\ DOMAIN asked = ScopesOf(unit.kind) /\ pairs({asked[s] : s \in DOMAIN asked})
      /\ DOMAIN written = NodesOf(unit) /\ pairs({written[n] : n \in DOMAIN written})

\* Floors and ceilings that reach the hardware agree, whatever was asked in whatever
\* order: a floor is never above its ceiling; the limits of a CPU or of the GPU are
\* within the hard ones; of a floor and a ceiling that contradict each other the
\* floor is kept, up to the hard ceiling; and when nothing is asked any more the
\* limits are the ones of the start.  (Where hard limits have a node of their own,
\* setCPUFreq works with those of the last soft request, which may be over.)
LimitsConsistent ==
  LET nobody == \A s \in DOMAIN asked :
                  asked[s] = NotAsked(unit) \/ (unit.kind = "gpu" /\ asked[s] = AtRest(unit))
      hard == IF unit.kind = "cpu" /\ ~unit.hard_user_limit
              THEN updateClusterFreqInfo(asked)["hard"] ELSE seen["hard"]
  IN  /\ unit.kind = "cpu" =>
           \A c \in IF unit.byCore THEN Cpu ELSE {"cpu0"} :
             LET floor == Max({asked[s].min : s \in IF unit.byCore THEN {c, "soft"} ELSE {"soft"}})
             IN  /\ written[c].min <= written[c].max
                 /\ {written[c].min, written[c].max} \subseteq hard.min .. hard.max
                 /\ written[c].min >= Min({CapAt(floor), hard.max})
      /\ unit.kind = "gpu" =>
           /\ written["gpu"].max <= written["gpu"].min
           /\ asked["hard"].min < nGpuFreqCount =>
                {written["gpu"].min, written["gpu"].max}
                  \subseteq Max({0, Min({asked["hard"].max, asked["hard"].min})}) .. asked["hard"].min
      /\ unit.kind \in {"apu", "cores"} =>
           \A n \in DOMAIN written :
             written[n].min <= written[n].max \/ written[n].max = Ignore
      /\ nobody /\ unit \notin {u \in Units : u.kind = "cpu" /\ u.hard_user_limit} =>
           \A n \in DOMAIN written \ {"hard"} : written[n] = AtRest(unit)

\* A node with an overriding resource holds that resource's value while it is set,
\* whatever happens to the other; the PELT half-life then goes back to the other's,
\* and both go back to the default when neither is set.  (A thermal request for
\* dex2oat does not bring the other back, and one made before the boot has finished
\* is lost.)
OverrideRules ==
  LET high == asked["high"].min
      low == asked["low"].min
  IN  /\ unit.kind = "pelt" =>
           written["pelt"].min = sched_set_pelt_multiplier(
              IF high # -1 THEN high ELSE IF low # -1 THEN low ELSE PELT_DEFAULT)
      /\ unit.kind = "dex2oat" =>
           /\ high = -1 /\ low = -1 => written["dex2oat"].min = -1
           /\ high # -1 /\ seen.took => written["dex2oat"].min = high
=============================================================================
