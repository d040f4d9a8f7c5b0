------------------------------ MODULE Hardware ------------------------------
(***************************************************************************)
(* Accelerator detection and sensors of crates/edge-agent, as operators    *)
(* over what is plugged in.  sysfs, /dev, /proc/driver/nvidia and          *)
(* nvidia-smi are external; a device is what they show of it:              *)
(*                                                                         *)
(*   dir      where it is listed: "drm", "accel", or its node in /dev,     *)
(*            "rknpu" or "hailo"                                           *)
(*   bare     its entry's name has no '-'                                  *)
(*   vendor   its PCI vendor id, or "absent"                               *)
(*   driver   the driver in its uevent, or "none"                          *)
(*   hwmon    its hwmon entries, [temp, average, input]; {} for no hwmon   *)
(*   busy     gpu_busy_percent                                             *)
(*   info     its file in /proc/driver/nvidia: "none", "unreadable",       *)
(*            "unnamed" or "model"                                         *)
(*   smi      its line of nvidia-smi, [temp, power, util], if it has one   *)
(*                                                                         *)
(* An attribute is "absent", "garbage" (it does not parse) or "number".    *)
(* A name or a value read is told by the device it belongs to: {} for      *)
(* none, or a singleton.  Order matters where the code stops at the first; *)
(* read_dir lists in any order.                                            *)
(***************************************************************************)
vendor_from_pci_id(id) ==
  CASE id = "0x10de"               -> "NVIDIA"
    [] id \in {"0x1002", "0x1022"} -> "AMD"
    [] id = "0x8086"               -> "Intel"
    [] id = "0x17cb"               -> "Qualcomm"
    [] OTHER                       -> "Other"

-----------------------------------------------------------------------------
(* Detection.                                                              *)

\* What nvidia_model_name may find: the loop ends at the first file that names a model
\* and at the first that cannot be read.
nvidia_model_names(host) ==
  LET named == {d \in host : d.info = "model"}
  IN  {{d} : d \in named}
        \cup (IF named = {} \/ \E d \in host : d.info = "unreadable" THEN {{}} ELSE {})

Accelerator(kind, vendor, name, d, sysfs_device) ==
  [kind |-> kind, vendor |-> vendor, name |-> name, device_path |-> d,
   sysfs_device |-> sysfs_device]

\* Cards, not their connectors; the first model name serves every NVIDIA card.
detect_drm_gpus(host, model) ==
  LET vendor(d) == vendor_from_pci_id(d.vendor)
      name(d)   == IF vendor(d) = "NVIDIA" /\ model # {} THEN model ELSE {d}
  IN  {Accelerator("GPU", vendor(d), name(d), d, {d}) :
         d \in {d \in host : d.dir = "drm" /\ d.bare /\ d.vendor # "absent"}}

\* The driver tells the vendor; without one the PCI id does.
detect_accel_npus(host) ==
  LET vendor(d) ==
        CASE d.driver = "amdxdna"    -> "AMD"
          [] d.driver = "intel_vpu"  -> "Intel"
          [] d.driver = "qaic"       -> "Qualcomm"
          [] d.driver = "habanalabs" -> "Habana"
          [] d.driver = "none"       -> vendor_from_pci_id(d.vendor)
          [] OTHER                   -> "Other"
  IN  {Accelerator("NPU", vendor(d), {d}, d, {d}) :
         d \in {d \in host : d.dir = "accel" /\ d.bare}}

detect_misc_npus(host) ==
  LET vendor == [rknpu |-> "Rockchip", hailo |-> "Hailo"]
  IN  {Accelerator("NPU", vendor[d.dir], {d}, d, {}) : d \in {d \in host : d.dir \in DOMAIN vendor}}

detect_accelerators(host, model) ==
  detect_drm_gpus(host, model) \cup detect_accel_npus(host) \cup detect_misc_npus(host)

\* Mutant: the kind is not asked for.
supports_offloadByVendor(a) == a.vendor \in {"NVIDIA", "AMD", "Intel"}

supports_llama_offload(a) == a.kind = "GPU" /\ a.vendor \in {"NVIDIA", "AMD", "Intel"}

-----------------------------------------------------------------------------
(* Sensors.                                                                *)

NoReading == [temp_c |-> {}, power_w |-> {}, utilization_pct |-> {}]

\* The device's own readings, as far as it is still there.  power1_average is preferred
\* to power1_input when it can be read, whether it parses or not.
read_hwmon_sensors(sysfs_device) ==
  LET power(entry) == IF entry.average # "absent" THEN entry.average ELSE entry.input
  IN  [temp_c  |-> {d \in sysfs_device : \E entry \in d.hwmon : entry.temp = "number"},
       power_w |-> {d \in sysfs_device : \E entry \in d.hwmon : power(entry) = "number"},
       utilization_pct |-> {d \in sysfs_device : d.hwmon # {} /\ d.busy = "number"}]

\* The devices whose line nvidia-smi may print first; it may fail and print none.
nvidia_smi_first(host) == {{}} \cup {{d} : d \in {d \in host : d.smi # {}}}

\* The first line is read, for whichever device the reading was asked.
read_nvidia_smi_sensors(first) ==
  [temp_c  |-> {d \in first : \E line \in d.smi : line.temp = "number"},
   power_w |-> {d \in first : \E line \in d.smi : line.power = "number"},
   utilization_pct |-> {d \in first : \E line \in d.smi : line.util = "number"}]

hwmon(a, host) == read_hwmon_sensors(a.sysfs_device \cap host)

\* A utilization by itself is not a reading.
Suffices(reading) == reading.temp_c # {} \/ reading.power_w # {}

\* Mutant: nvidia-smi is asked for any device.
asks_nvidia_smiAnyVendor(a, host) == ~Suffices(hwmon(a, host))

asks_nvidia_smi(a, host) == ~Suffices(hwmon(a, host)) /\ a.vendor = "NVIDIA"

\* What read_sensors returns where it does not ask nvidia-smi.
read_sensors(a, host) ==
  IF Suffices(hwmon(a, host)) THEN hwmon(a, host) ELSE NoReading
=============================================================================
