----------------------------- MODULE SetterTbl -----------------------------
(***************************************************************************)
(* The functions RscCfgTbl names as set_func and unset_func (rsc_util/):   *)
(* what each pair does to the kernel, as a shape                           *)
(*                                                                         *)
(*   ranked  its row is SMALLEST or BIGGEST, not ONESHOT                   *)
(*   key     what the value is stored under: "none" (one node), "pid" (the *)
(*           process last given to set_fpsgo_render_pid), "tid" (the       *)
(*           thread last given to set_fpsgo_render_tid) or "arg" (the      *)
(*           argument names a task, a group or a bit, and is what is set)  *)
(*   unset   what unset_func does with its argument: "clear" (the node is  *)
(*           put to rest), "same" (it is written, as by set_func), "flip"  *)
(*           (its negation is written) or "none" (nothing happens)         *)
(*                                                                         *)
(* One definition per stretch of source.  Setters that keep state of their *)
(* own or share it with another are not here: ThermalPolicy, Netd, Limits, *)
(* PowerTimer and BtGameMode have them.                                    *)
(***************************************************************************)

RankedPair(unset) == [ranked |-> TRUE, key |-> "none", unset |-> unset]
OneshotPair(key, unset) == [ranked |-> FALSE, key |-> key, unset |-> unset]

-----------------------------------------------------------------------------
(* utility_fps.cpp *)

\* notify_targetFPS_pid, fpsgo_ctrl_render_thread, fpsgo_set_video_pid_thread,
\* fpsgo_clear_video_pid_thread: the row's unset_func is the set_func.
FpsThreads == {OneshotPair("none", "same"), OneshotPair("arg", "same")}

\* The attributes written with write_string_to_file: control_by_pid, ema2,
\* calculate_dep, filter_dep_task, target_fps, notify_fps, mfrc, loom; by render
\* thread control_by_render and target_detect; no_boost_by_process and _thread.
FpsgoByPid == {OneshotPair("pid", "clear"), OneshotPair("tid", "clear"), OneshotPair("arg", "same")}

\* game_target_fps gives its argument back; bypass_nonsf, control_api_mask,
\* control_hwui, app_cam_*, dep_loading_thr, cam_bypass_window, fstbv2 are cleared.
FpsgoByPidMore == {OneshotPair("pid", "same"), OneshotPair("pid", "clear")}

\* FBT_SET_ATTR_BY_PID, FBT_UNSET_ATTR_BY_PID: commands 's' and 'u'.
FbtByPid == {OneshotPair("pid", "clear")}
FbtByTid == {OneshotPair("tid", "clear")}
FbtAttributesA == FbtByPid
FbtAttributesB == FbtByPid \cup FbtByTid
-----------------------------------------------------------------------------
(* utility_thermal.cpp: parameters of the frame rate smoother, sent to its    *)
(* socket as "frs <name> <value>" and taken back as "frs <name> -1".          *)

\* frs_set sends "frs enable v" with the render pid, frs_unset "frs enable !v".
FrsEnable == {OneshotPair("pid", "flip")}
FrsTargets == {OneshotPair("none", "clear")}         \* threshold .. ceiling_th
FrsTimes == {OneshotPair("none", "clear")}           \* ptime .. fps_ratio
FrsModes == {OneshotPair("none", "clear"), OneshotPair("none", "none")}  \* .. reset, max_fps_diff
FrsZones == {OneshotPair("none", "clear")}           \* urgent_temp_offset .. limit_rfreq_m
FrsCold == {OneshotPair("none", "clear")}            \* ct_ptime .. cluster0_4
FrsCluster0 == {OneshotPair("none", "clear")}
FrsCluster1 == {OneshotPair("none", "clear")}
FrsCluster2 == {OneshotPair("none", "clear")}
FrsMapping == {OneshotPair("none", "clear")}         \* hysteresis, ptime, tz_idx
-----------------------------------------------------------------------------
(* utility_sched.cpp: ioctls on the EAS, core control and CPU QoS devices.    *)

SchedMacros == {RankedPair("same"), RankedPair("clear"), OneshotPair("none", "same"), OneshotPair("arg", "clear")}
\* set_cpu_boost, set_offline_throttle_cluster*, set_btask_up_thres_cluster*,
\* set_not_preferred.
CoreCtlBoost == {RankedPair("same")}
\* set_cpuqos_mode and the set_*_ct: rows whose unset_func is the set_func.
CtGroups == {OneshotPair("none", "same")}
\* set_per_task_ct and unset_per_task_ct are set_func and unset_func of one row
\* each; the threshold of the top group is reset, its switch gets the default.
CtTask == {OneshotPair("arg", "same"), RankedPair("clear"), RankedPair("same")}
\* core_ctl_set_*_thres_cluster*.
CoreCtlBusy == {RankedPair("same")}
CoreCtlTasks == {RankedPair("same")}
CoreCtlLoading == {RankedPair("same")}
\* Uses of the macros: sync, sbb (a row to set and a row to unset), util_est,
\* margins, vip, gear hints, uclamp, CPU QoS user groups.
EasControls == {RankedPair("same"), RankedPair("clear"), OneshotPair("none", "same"),
                OneshotPair("arg", "same"), OneshotPair("arg", "clear"), OneshotPair("none", "clear")}
-----------------------------------------------------------------------------
(* utility_sys.cpp *)
TaskPreferCpu == {OneshotPair("arg", "clear")}
IsolationCpu == {OneshotPair("none", "clear")}
\* set_cus_hint_enable, set_webp_use_threads_mode, set_test_val,
\* dsu_cci_sport_mode, task turbo.
SysHints == {RankedPair("same")}
SysModes == {RankedPair("same"), OneshotPair("none", "same"), OneshotPair("arg", "clear")}
-----------------------------------------------------------------------------
(* Properties and nodes with one writer each.                                 *)

GpuPolicy == {RankedPair("same"), OneshotPair("none", "clear")}
\* setLmkSwapfreelowpercent is taken back by writing the value of the build.
LmkProperties == {RankedPair("same"), RankedPair("clear")}
LmkCallbacks == {RankedPair("same")}
\* The default means the value found at init (check_blkDevSupport, ufs_init).
ReadAhead == {RankedPair("same")}
UfsNodes == {RankedPair("same")}
HugePages == {RankedPair("same")}
VideoColor == {RankedPair("same")}
SfMask == {OneshotPair("none", "clear"), RankedPair("same"), OneshotPair("arg", "clear")}
CpusetTopApp == {OneshotPair("none", "clear")}
Kswapd == {RankedPair("clear")}
WifiData == {RankedPair("same")}
\* notify_rild_opt_update, notify_rild_cert_pid_set; set_HSR_mode.
RilModes == {RankedPair("same"), OneshotPair("none", "clear")}
\* Peak power: nodes, and limits sent to the thermal core; the modem's cc_ctrl
\* and uai limits are taken back with a number of their own.
PeakPowerBudget == {RankedPair("same"), OneshotPair("none", "none")}
PeakPowerLimits == {RankedPair("same"), RankedPair("clear")}
PeakPowerModem == {RankedPair("same"), RankedPair("clear")}
-----------------------------------------------------------------------------
SetterTbl ==
  UNION {FpsThreads, FpsgoByPid, FpsgoByPidMore, FbtAttributesA, FbtAttributesB,
         FrsEnable, FrsTargets, FrsTimes, FrsModes, FrsZones, FrsCold,
         FrsCluster0, FrsCluster1, FrsCluster2, FrsMapping,
         SchedMacros, CoreCtlBoost, CtGroups, CtTask, CoreCtlBusy, CoreCtlTasks,
         CoreCtlLoading, EasControls, TaskPreferCpu, IsolationCpu, SysHints, SysModes,
         GpuPolicy, LmkProperties, LmkCallbacks, ReadAhead, UfsNodes, HugePages,
         VideoColor, SfMask, CpusetTopApp, Kswapd, WifiData, RilModes,
         PeakPowerBudget, PeakPowerLimits, PeakPowerModem}
=============================================================================
