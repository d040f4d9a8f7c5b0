----------------------------- MODULE MCEdgeNode -----------------------------
(* A small instance of EdgeNode for TLC. *)
EXTENDS EdgeNode

\* A device that only its directory entry tells of.
Bare(name, dir) ==
  [name |-> name, dir |-> dir, bare |-> TRUE, vendor |-> "absent", driver |-> "none",
   hwmon |-> {}, busy |-> "absent", info |-> "none", smi |-> {}]

Radeon ==
  [Bare("Radeon", "drm") EXCEPT !.vendor = "0x1002", !.driver = "amdgpu", !.busy = "number",
     !.hwmon = {[temp |-> "number", average |-> "garbage", input |-> "number"]}]
Nvidia1 ==
  [Bare("nvidia1", "drm") EXCEPT !.vendor = "0x10de", !.driver = "nvidia", !.info = "model",
     !.smi = {[temp |-> "number", power |-> "number", util |-> "number"]}]
Nvidia2 ==
  [Bare("nvidia2", "drm") EXCEPT !.vendor = "0x10de", !.driver = "nvidia", !.info = "unreadable",
     !.smi = {[temp |-> "number", power |-> "garbage", util |-> "number"]}]
IntelGpu  == [Bare("i915", "drm") EXCEPT !.vendor = "0x8086", !.busy = "number"]
Connector == [Bare("card0-DP-1", "drm") EXCEPT !.bare = FALSE]
Xdna ==
  [Bare("xdna", "accel") EXCEPT !.vendor = "0x1022", !.driver = "amdxdna",
     !.hwmon = {[temp |-> "absent", average |-> "absent", input |-> "number"]}]
Unbound == [Bare("unbound", "accel") EXCEPT !.vendor = "0x8086"]
Hailo   == Bare("hailo0", "hailo")
Rknpu   == Bare("rknpu", "rknpu")

MCHosts ==
  {{Radeon, Connector}, {Nvidia1, IntelGpu}, {Nvidia1, Nvidia2}, {Xdna, Unbound},
   {Hailo, Connector}, {Rknpu}, {IntelGpu, Unbound}, {}}

\* A mode is matched exactly, so "Offline" is none.
MCArguments ==
  [mode: {"online", "degraded", "offline", "Offline"}, model: BOOLEAN, gpu_layers: {9}]
=============================================================================
