---------------------------- MODULE DeviceSettings ----------------------------
(***************************************************************************)
(* The life of a device handler: it is chosen, its constructor loads the   *)
(* library and opens the device, what the widgets show is restored from    *)
(* the settings file and told to the device, the user changes it while     *)
(* the device runs or not, and the destructor saves it for the next start  *)
(* of the program.  All this happens on the GUI thread; how the samples    *)
(* are started and stopped is the subject of DeviceHandlers, and the       *)
(* handlers of the file reader and of sdrplay v3 have modules of their own.*)
(*                                                                         *)
(* The libraries are external: any call may be refused, and what the       *)
(* device was set to before it was opened is not known.  What a            *)
(* constructor sets on the way to a setting that it restores is left out.  *)
(* getDevice has no branch for the older sdrplay at present; its handler   *)
(* is taken to be used as the others are.                                  *)
(***************************************************************************)
EXTENDS Integers, FiniteSets, Sequences

CONSTANTS Kinds,         (* of handlers, of those below                    *)
          Gains,         (* of airspy: some of "lna", "mixer", "vga"       *)
          Positions,     (* of sliders, spin boxes and lists               *)
          LnaStates,     (* positions of the lna of sdrplay                *)
          GainsCounts,   (* of rtlsdr, of which one is found               *)
          Versions,      (* of the hardware of sdrplay: 1, 2, 3 or 255     *)
          Frequencies,   (* as numbers, all of them legal                  *)
          MaxRefused,    (* bound: settings the device has refused         *)
          MaxLate,       (* bound: settings changed after a refused start  *)
          MaxOffset      (* bound: of rtlsdr, what frequencies are off by  *)

ASSUME SettingsAssumption ==
    /\ Kinds # {}
    /\ Kinds \subseteq {"airspy", "hackrf", "lime", "pluto", "dabstick", "sdrplay"}
    /\ Gains \subseteq {"lna", "mixer", "vga"}
    /\ Positions \subseteq Nat /\ {0, 1} \subseteq Positions
    /\ Versions \subseteq {1, 2, 3, 255} /\ Versions # {}
    /\ LnaStates \subseteq Nat /\ 1 \in LnaStates
    /\ GainsCounts \subseteq Nat \ {0, 1} /\ GainsCounts # {}
    /\ Frequencies \subseteq Nat /\ Frequencies # {}
    /\ MaxRefused \in Nat /\ MaxLate \in Nat /\ MaxOffset \in Nat

Khz       == 2                      \* in Hz, for the offsets of rtlsdr
Untouched == <<"untouched", 0>>     \* since the device was opened

----------------------------------------------------------------------------
(* What each constructor does before it restores anything, in order: what a
   step takes hold of, and what is thrown if it fails. *)
Step(gets, throws) == [gets |-> gets, throws |-> throws]

(* One or more of the functions of the library are missing. *)
load_airspyFunctions == Step({}, "exception")
load_hackrfFunctions == Step({}, "int")
load_limeFunctions   == Step({}, "exception")
load_plutoFunctions  == Step({}, "exception")
load_rtlFunctions    == Step({}, "exception")
load_mirFunctions    == Step({}, "int")

(* The streams of pluto's chip are found and configured. *)
cfg_ad9361 == Step({}, "exception")

airspySetup  == <<Step({}, "exception"), load_airspyFunctions, Step({"api"}, "int"),
                  Step({"device"}, "nothing or crash")>>
hackrfSetup  == <<Step({}, "exception"), load_hackrfFunctions, Step({"api"}, "exception"),
                  Step({"device"}, "exception"), Step({}, "exception")>>
limeSetup    == <<Step({}, "exception"), load_limeFunctions, Step({}, "exception"),
                  Step({"device"}, "exception"), Step({}, "exception")>>
plutoSetup   == <<Step({}, "exception"), load_plutoFunctions, Step({"device"}, "exception"),
                  cfg_ad9361, Step({"buffer"}, "exception")>>
rtlsdrSetup  == <<Step({}, "exception"), load_rtlFunctions, Step({}, "int or crash"),
                  Step({"device"}, "int or crash"), Step({}, "int")>>
sdrplaySetup == <<Step({}, "int"), load_mirFunctions, Step({}, "int"), Step({}, "int"),
                  Step({"device"}, "int")>>

SetupOf == [airspy |-> airspySetup, hackrf |-> hackrfSetup, lime |-> limeSetup,
            pluto |-> plutoSetup, dabstick |-> rtlsdrSetup, sdrplay |-> sdrplaySetup]

(* The settings of the devices themselves, and those of them that a
   constructor leaves as it finds them. *)
Params == [airspy   |-> Gains \cup {"lna_agc", "mixer_agc", "rf_bias", "freq"},
           hackrf   |-> {"lna", "vga", "antenna", "amp", "ppm", "freq"},
           lime     |-> {"antenna", "gain", "freq"},
           pluto    |-> {"agc", "gain", "freq"},
           dabstick |-> {"gain", "ppm", "agc", "bias", "freq"},
           sdrplay  |-> {"GRdB", "lna", "agc", "setPoint", "ppm", "bias", "antenna", "freq"}]

LeftAlone == [airspy   |-> {"lna_agc", "mixer_agc", "rf_bias"},
              hackrf   |-> {},
              lime     |-> {},
              pluto    |-> {},
              dabstick |-> {"ppm", "agc", "bias"},
              sdrplay  |-> {"agc", "bias"}]

(* What the file is to keep from one start of the program to the next.  (Of
   hackrf nothing is kept, nor pluto's agc, nor the bias of sdrplay: README.) *)
Kept == [airspy   |-> Gains \cup {"linearity", "sensitivity"},
         hackrf   |-> {},
         lime     |-> {"antenna", "gain"},
         pluto    |-> {"gain"},
         dabstick |-> {"gain", "ppm", "KhzOffset", "HzOffset"},
         sdrplay  |-> {"GRdB", "lna", "ppm", "agc"}]

VARIABLES
    kind,
    place,       (* "asking" (for a device), "setup", "constructed", "tuned",
                    "running", "stopped", "refused" (the first start), "over",
                    or, without the destructor, "ended" (before anything
                    was shown, or by a crash) or "exited"                   *)
    stage,       (* of the constructor                                     *)
    held,        (* of the library: "api", "device", "buffer"              *)
    shown,       (* by the widgets, and what members keep                  *)
    device,      (* what it was told and accepted, and what it refused     *)
    saved,       (* the settings file; <<>> if there is none, or it is to
                    be written by a handler that has started                *)
    remembered   (* history: what of it was shown when that was written    *)

life == <<kind, place, stage, held, saved, remembered>>
vars == <<life, shown, device>>

Fresh == [applied |-> [p \in Params[kind] |-> Untouched], refused |-> {}]

Init ==
    /\ kind \in Kinds
    /\ place = "asking" /\ stage = 1 /\ held = {} /\ shown = <<>> /\ device = Fresh
    /\ saved = <<>> /\ remembered = <<>>

----------------------------------------------------------------------------
(* Calls of the library that tell the device something: what to which of its
   settings. *)
Told(p, v)          == [x \in {p} |-> <<p, v>>]
AllGains(source, v) == [g \in Gains |-> <<source, v>>]
If(condition, call) == IF condition THEN call ELSE <<>>

Accepted(d, call) ==
    [applied |-> [p \in DOMAIN d.applied |-> IF p \in DOMAIN call THEN call[p] ELSE d.applied[p]],
     refused |-> d.refused \ DOMAIN call]
Denied(d, call) == [applied |-> d.applied, refused |-> d.refused \cup DOMAIN call]

(* Without a device every call is refused. *)
Refusals(d, call) ==
    {r \in {Denied(d, call)} : "device" \in held => Cardinality(r.refused) <= MaxRefused}
Answers(d, call) ==
    Refusals(d, call) \cup IF "device" \in held THEN {Accepted(d, call)} ELSE {}

(* One call after the other: what may become of a device is what the next call
   may make of any it may be by then. *)
ds \bullet call == UNION {Answers(d, call) : d \in ds}
Tell(call) == device' \in {device} \bullet call

----------------------------------------------------------------------------
(* getDevice, from quickStart or for what was chosen in setDevice. *)
Choose ==
    /\ place = "asking" /\ place' = "setup" /\ stage' = 1
    /\ UNCHANGED <<kind, held, shown, device, saved, remembered>>

(* "quit" is chosen: TerminateProcess, without a processor, is exit. *)
Quit ==
    /\ place = "asking" /\ place' = "ended" /\ held' = {}
    /\ UNCHANGED <<kind, stage, shown, device, saved, remembered>>

Steps   == SetupOf[kind]
SettingUp == place = "setup" /\ stage \in 1..Len(Steps)

(* A device that is open, from an earlier attempt, cannot be opened again. *)
StepDone ==
    /\ SettingUp /\ "device" \notin Steps[stage].gets \cap held
    /\ held' = held \cup Steps[stage].gets /\ stage' = stage + 1
    /\ device' = IF "device" \in Steps[stage].gets THEN Fresh ELSE device
    /\ UNCHANGED <<kind, place, shown, saved, remembered>>

(* getDevice catches int, and the user is asked again; anything else that is
   thrown, or a handle used that was never set, ends the program. *)
StepFails ==
    /\ SettingUp
    /\ \/ /\ Steps[stage].throws \in {"int", "int or crash"}
          /\ place' = "asking" /\ UNCHANGED <<stage, held>>
       \/ /\ Steps[stage].throws \in {"exception", "int or crash", "nothing or crash"}
          /\ place' = "ended" /\ held' = {} /\ UNCHANGED stage
       \/ /\ Steps[stage].throws = "nothing or crash"
          /\ stage' = stage + 1 /\ UNCHANGED <<place, held>>
    /\ UNCHANGED <<kind, shown, device, saved, remembered>>

NextProgram ==
    /\ place \in {"over", "ended", "exited"} /\ place' = "asking" /\ held' = {} /\ device' = Fresh
    /\ UNCHANGED <<kind, stage, shown, saved, remembered>>

----------------------------------------------------------------------------
(* The rest of the constructors: what the file says is shown, and told. *)
Default(p) == IF p \in {"gain", "lna", "vga", "mixer", "linearity", "sensitivity", "GRdB"}
              THEN 1 ELSE 0
Read(p)    == IF p \in DOMAIN saved THEN saved[p] ELSE Default(p)

Cut(v, n) == IF v > n THEN n ELSE v

(* How far the lna of a version of sdrplay goes. *)
LnaRange(hwVersion) == CASE hwVersion = 1 -> 3 [] hwVersion = 2 -> 8 [] OTHER -> 9

(* What a widget makes of a value, with the range it has for the device that is
   found: what is above goes to its end. *)
Fits(p, v, members) ==
    CASE kind = "sdrplay" /\ p = "lna"   -> Cut(v, LnaRange(members["hwVersion"]))
      [] kind = "dabstick" /\ p = "gain" -> Cut(v, members["gainsCount"])
      [] OTHER                           -> v

Constructs(k, ps, others) ==
    /\ kind = k /\ place = "setup" /\ stage > Len(Steps)
    /\ place' = "constructed"
    /\ shown' = [p \in ps \cup DOMAIN others |->
                    IF p \in ps THEN Fits(p, Read(p), others) ELSE others[p]]
    /\ UNCHANGED <<kind, stage, held, saved, remembered>>

(* The tab shown is the third; currentTab is the first, and so are the gains. *)
airspyHandler ==
    /\ Constructs("airspy", Gains \cup {"linearity", "sensitivity"},
                  [freq |-> 0, lna_agc |-> 0, mixer_agc |-> 0, rf_bias |-> 0,
                   tab |-> 2, currentTab |-> 0])
    /\ Tell(AllGains("sensitivity", Read("sensitivity")))

hackrfHandler ==
    /\ Constructs("hackrf", {"lna", "vga", "antenna", "amp", "ppm"}, [freq |-> 0])
    /\ device' \in {device} \bullet Told("lna", Read("lna")) \bullet Told("vga", Read("vga"))
                   \bullet Told("antenna", Read("antenna")) \bullet Told("amp", Read("amp"))
                   \bullet Told("ppm", Read("ppm"))

limeHandler ==
    /\ Constructs("lime", {"antenna", "gain"}, [freq |-> 0])
    /\ device' \in {device} \bullet Told("antenna", Read("antenna")) \bullet Told("gain", Read("gain"))

(* The agc is looked for under a name that it is not saved under. *)
plutoHandler ==
    /\ Constructs("pluto", {"gain"}, [freq |-> 0, agc |-> 0, visible |-> 1])
    /\ device' \in {device} \bullet Told("agc", 0) \bullet Told("gain", Read("gain"))

(* The widgets tell the device, or their member, if they are changed from 0;
   a slider at an end of its range does not.  Not every library has a function
   for the bias. *)
rtlsdrHandler ==
    \E biasTee \in {0, 1}, gainsCount \in GainsCounts :
        LET gain  == Cut(Read("gain"), gainsCount)
            takes == gain \in 1..gainsCount - 1
        IN  /\ Constructs("dabstick", {"gain", "ppm", "KhzOffset", "HzOffset"},
                  [freq |-> 0, agc |-> 0, bias |-> 0, biasTee |-> biasTee,
                   gainsCount |-> gainsCount,
                   vfoOffset |-> Khz * Read("KhzOffset") + Read("HzOffset"),
                   oldGain |-> IF takes THEN gain ELSE 0])
            /\ device' \in {device} \bullet Told("gain", gainsCount \div 2)
                           \bullet If(takes, Told("gain", gainsCount - gain))
                           \bullet If(Read("ppm") # 0, Told("ppm", Read("ppm")))

(* The bias is looked for under a name that it is not saved under. *)
sdrplayHandler ==
    \E hwVersion \in Versions :
        /\ Constructs("sdrplay", {"GRdB", "lna", "agc", "ppm"},
                      [freq |-> 0, bias |-> 0, antenna |-> 0, hwVersion |-> hwVersion])
        /\ Tell(If(hwVersion \in {2, 3}, Told("antenna", 0)))

Construct == \/ airspyHandler \/ hackrfHandler \/ limeHandler \/ plutoHandler
             \/ rtlsdrHandler \/ sdrplayHandler

----------------------------------------------------------------------------
(* setVFOFrequency: from getDevice first, then for the user. *)
Tuning(k) ==
    /\ kind = k /\ place \in {"constructed", "running", "stopped", "refused"}
    /\ place' = IF place = "constructed" THEN "tuned" ELSE place
    /\ UNCHANGED <<kind, stage, held, saved, remembered>>
Show(p, v) == shown' = [shown EXCEPT ![p] = v]

tuneDirectly(k) == \E f \in Frequencies :
    Tuning(k) /\ Show("freq", f) /\ Tell(Told("freq", f))

airspySetVFO  == tuneDirectly("airspy")
limeSetVFO    == tuneDirectly("lime")
plutoSetVFO   == tuneDirectly("pluto")

(* The device switches its amplifier off when it is tuned. *)
Tuned(f) == [freq |-> <<"freq", f>>, amp |-> <<"amp", 0>>]

(* Mutant: nobody remembers the amplifier. *)
hackrfRetune == \E f \in Frequencies :
    /\ Tuning("hackrf")
    /\ \/ device' \in Refusals(device, Told("freq", f)) /\ UNCHANGED shown
       \/ Show("freq", f) /\ device' = Accepted(device, Tuned(f))

hackrfSetVFO == \E f \in Frequencies :
    /\ Tuning("hackrf")
    /\ \/ device' \in Refusals(device, Told("freq", f)) /\ UNCHANGED shown
       \/ /\ Show("freq", f)
          /\ device' \in {Accepted(device, Tuned(f))} \bullet If(shown["amp"] = 1, Told("amp", 1))

(* What the device is tuned to is asked for when it is needed. *)
rtlsdrSetVFO == \E f \in Frequencies :
    Tuning("dabstick") /\ UNCHANGED shown /\ Tell(Told("freq", f + shown["vfoOffset"]))

sdrplaySetVFO == \E f \in Frequencies :
    /\ Tuning("sdrplay") /\ Show("freq", f)
    /\ device' \in {device} \bullet If(place = "running", Told("freq", f))
                   \bullet If(place = "running", Told("ppm", shown["ppm"]))

SetVFO == \/ airspySetVFO \/ limeSetVFO \/ plutoSetVFO
          \/ hackrfSetVFO \/ rtlsdrSetVFO \/ sdrplaySetVFO

----------------------------------------------------------------------------
(* restartReader, of a device that is not running: from setStart, and for
   Continue.  If the first start fails there is never a processor, and no other
   start, but the handler is there, and its widgets are connected. *)
Starting(k) == kind = k /\ place \in {"tuned", "stopped"} /\ UNCHANGED <<kind, stage, held>>
(* Mutant: that the device could not be started is not seen. *)
BeginsAnyhow == place' = "running" /\ saved' = <<>> /\ remembered' = <<>>
Begins == /\ "device" \in held /\ place' = "running"
          /\ saved' = <<>> /\ remembered' = <<>>
Fails  == /\ place' = IF place = "tuned" THEN "refused" ELSE "stopped"
          /\ UNCHANGED <<saved, remembered>>

(* What a tab stands for. *)
TabGains(ds, tab) ==
    CASE tab = 0 -> ds \bullet AllGains("sensitivity", shown["sensitivity"])
      [] tab = 1 -> ds \bullet AllGains("linearity", shown["linearity"])
      [] tab = 2 -> ds \bullet If("vga" \in Gains, Told("vga", shown["vga"]))
                       \bullet If("mixer" \in Gains, Told("mixer", shown["mixer"]))
                       \bullet If("lna" \in Gains, Told("lna", shown["lna"]))

(* Whatever the tab, the gains of the first have the last word. *)
airspyRestart ==
    /\ Starting("airspy") /\ UNCHANGED shown
    /\ \/ device' \in TabGains({device}, shown["currentTab"]) /\ Fails
       \/ /\ device' \in TabGains(TabGains(TabGains({device}, shown["currentTab"]), 1), 0)
          /\ Begins \/ Fails

hackrfRestart  == Starting("hackrf") /\ UNCHANGED <<shown, device>> /\ (Begins \/ Fails)

limeRestart ==
    Starting("lime") /\ UNCHANGED shown /\ Tell(Told("freq", shown["freq"])) /\ (Begins \/ Fails)

plutoRestart ==
    /\ Starting("pluto") /\ Show("visible", 1 - shown["agc"])
    /\ \E d \in {device} \bullet Told("agc", shown["agc"])
                         \bullet If(shown["agc"] = 0, Told("gain", shown["gain"])) :
          \/ device' = Accepted(d, Told("freq", shown["freq"])) /\ Begins
          \/ device' \in Refusals(d, Told("freq", shown["freq"])) /\ Fails

(* The offset is added to the frequency the device is tuned to already. *)
Within(f) == \E m \in Frequencies : f <= m + MaxOffset
rtlsdrRestart ==
    /\ Starting("dabstick") /\ UNCHANGED shown
    /\ \/ Fails /\ UNCHANGED device
       \/ LET f == device.applied["freq"][2] + shown["vfoOffset"]
          IN  Within(f) /\ Tell(Told("freq", f)) /\ Begins

SetGr(GRdB, lna) == [GRdB |-> <<"GRdB", GRdB>>, lna |-> <<"lna", lna>>]
AgcControl(agc, setPoint, lna) ==
    [agc |-> <<"agc", agc>>, setPoint |-> setPoint, lna |-> <<"lna", lna>>]
SetPoint == <<"setPoint", 30>>
StreamInit(GRdB, lna, f) == [GRdB |-> <<"GRdB", GRdB>>, lna |-> <<"lna", lna>>, freq |-> <<"freq", f>>]

sdrplayRestart ==
    /\ Starting("sdrplay") /\ UNCHANGED shown
    /\ \/ Fails /\ UNCHANGED device
       \/ /\ Begins
          /\ device' \in {Accepted(device, StreamInit(shown["GRdB"], shown["lna"], shown["freq"]))}
                         \bullet Told("ppm", shown["ppm"])
                         \bullet If(shown["agc"] = 1, AgcControl(1, SetPoint, shown["lna"]))

Restart == \/ airspyRestart \/ hackrfRestart \/ limeRestart
           \/ plutoRestart \/ rtlsdrRestart \/ sdrplayRestart

Stop == /\ place = "running" /\ place' = "stopped"
        /\ UNCHANGED <<kind, stage, held, saved, remembered, shown, device>>

----------------------------------------------------------------------------
(* The user changes a setting. *)
Late == {p \in Kept[kind] \cup LeftAlone[kind] : shown[p] # Fits(p, Read(p), shown)}
Setting(k) ==
    /\ kind = k /\ place \in {"running", "stopped", "refused"} /\ UNCHANGED life
    /\ place = "refused" => Cardinality(Late) < MaxLate
Sets(k, p, v) == Setting(k) /\ v # shown[p] /\ Show(p, v)

set_sensitivity == \E v \in Positions :
    Sets("airspy", "sensitivity", v) /\ shown["tab"] = 0 /\ Tell(AllGains("sensitivity", v))
set_linearity == \E v \in Positions :
    Sets("airspy", "linearity", v) /\ shown["tab"] = 1 /\ Tell(AllGains("linearity", v))
set_gain == \E g \in Gains, v \in Positions :
    Sets("airspy", g, v) /\ shown["tab"] = 2 /\ Tell(Told(g, v))
show_tab == \E t \in 0..2 :
    /\ Setting("airspy") /\ t # shown["tab"]
    /\ shown' = [shown EXCEPT !["tab"] = t, !["currentTab"] = t]
    /\ device' \in TabGains({device}, t)
airspySwitch == \E p \in {"lna_agc", "mixer_agc", "rf_bias"} :
    Sets("airspy", p, 1 - shown[p]) /\ Tell(Told(p, 1 - shown[p]))
airspySettings ==
    set_sensitivity \/ set_linearity \/ set_gain \/ show_tab \/ airspySwitch

hackrfSets(p, v) == Sets("hackrf", p, v) /\ Tell(Told(p, v))
hackrfSettings == \/ \E p \in {"lna", "vga", "ppm"}, v \in Positions : hackrfSets(p, v)
                  \/ \E p \in {"antenna", "amp"}, v \in {0, 1} : hackrfSets(p, v)

limeSettings == \E p \in {"antenna", "gain"}, v \in Positions :
    Sets("lime", p, v) /\ Tell(Told(p, v))

(* With the agc on, manual control has to be accepted first.  The signal of
   the check box is cut off meanwhile. *)
set_gainControl == \E v \in Positions :
    /\ Setting("pluto") /\ shown["visible"] = 1 /\ v # shown["gain"]
    /\ \/ /\ shown["agc"] = 1
          /\ device' \in Refusals(device, Told("agc", 0)) /\ Show("gain", v)
       \/ /\ shown' = [shown EXCEPT !["gain"] = v, !["agc"] = 0]
          /\ \E d \in IF shown["agc"] = 1 THEN {Accepted(device, Told("agc", 0))} ELSE {device} :
                device' \in Answers(d, Told("gain", v))

set_agcControl == LET agc == 1 - shown["agc"] IN
    /\ Setting("pluto")
    /\ \/ device' \in Refusals(device, Told("agc", agc)) /\ Show("agc", agc)
       \/ /\ shown' = [shown EXCEPT !["agc"] = agc, !["visible"] = 1 - agc]
          /\ device' \in {Accepted(device, Told("agc", agc))}
                         \bullet If(agc = 0, Told("gain", shown["gain"]))
plutoSettings == set_gainControl \/ set_agcControl

(* The slider is an index into the table of gains, from its end; what is beyond
   the end of the table is anything.  The last gain is kept in a static. *)
set_gainSlider == Setting("dabstick") /\ \E v \in 0..shown["gainsCount"] :
    /\ v # shown["gain"]
    /\ \/ v \in {shown["oldGain"], shown["gainsCount"]} /\ Show("gain", v) /\ UNCHANGED device
       \/ /\ v \notin {shown["oldGain"], shown["gainsCount"]}
          /\ shown' = [shown EXCEPT !["gain"] = v, !["oldGain"] = v]
          /\ Tell(IF v = 0 THEN [gain |-> <<"anything", 0>>]
                  ELSE Told("gain", shown["gainsCount"] - v))
freqCorrection == \E v \in Positions : Sets("dabstick", "ppm", v) /\ Tell(Told("ppm", v))
setKhzOffset == \E k \in Positions :
    /\ Setting("dabstick") /\ k # shown["KhzOffset"] /\ UNCHANGED device
    /\ shown' = [shown EXCEPT !["KhzOffset"] = k, !["vfoOffset"] = (@ % Khz) + Khz * k]
setHzOffset == \E h \in 0..Khz - 1 :
    /\ Setting("dabstick") /\ h # shown["HzOffset"] /\ UNCHANGED device
    /\ shown["vfoOffset"] + h <= MaxOffset
    /\ shown' = [shown EXCEPT !["HzOffset"] = h, !["vfoOffset"] = @ + h]
set_Agc == \E v \in {0, 1} : Sets("dabstick", "agc", v) /\ Tell(Told("agc", v))
set_biasControl == \E v \in {0, 1} :
    Sets("dabstick", "bias", v) /\ Tell(If(shown["biasTee"] = 1, Told("bias", v)))
rtlsdrSettings == \/ set_gainSlider \/ freqCorrection \/ setKhzOffset \/ setHzOffset
                  \/ set_Agc \/ set_biasControl

(* Gains and ppm of a device that is not running are left for its start. *)
WhenRunning(call) == If(place = "running", call)

set_ifgainReduction == \E v \in Positions :
    Sets("sdrplay", "GRdB", v) /\ shown["agc"] = 0 /\ Tell(WhenRunning(SetGr(v, shown["lna"])))
set_lnagainReduction == \E v \in LnaStates :
    /\ Sets("sdrplay", "lna", v) /\ v <= LnaRange(shown["hwVersion"])
    /\ Tell(WhenRunning(IF shown["agc"] = 0 THEN SetGr(shown["GRdB"], v)
                        ELSE AgcControl(1, SetPoint, v)))
agcControl_toggled == \E agc \in {0, 1} :
    /\ Sets("sdrplay", "agc", agc)
    /\ device' \in {device} \bullet AgcControl(agc, <<"GRdB", shown["GRdB"]>>, shown["lna"])
                   \bullet WhenRunning(If(agc = 0, SetGr(shown["GRdB"], shown["lna"])))
set_ppmControl == \E v \in Positions :
    /\ Sets("sdrplay", "ppm", v)
    /\ device' \in {device} \bullet WhenRunning(Told("ppm", v))
                   \bullet WhenRunning(Told("freq", shown["freq"]))
set_antennaSelect == \E v \in {0, 1} :
    Sets("sdrplay", "antenna", v) /\ shown["hwVersion"] \in {2, 3} /\ Tell(Told("antenna", v))
biasT_selectorHandler == \E v \in {0, 1} :
    Sets("sdrplay", "bias", v) /\ Tell(If(shown["hwVersion"] # 1, Told("bias", v)))
sdrplaySettings == \/ set_ifgainReduction \/ set_lnagainReduction \/ agcControl_toggled
                   \/ set_ppmControl \/ set_antennaSelect \/ biasT_selectorHandler

Set == \/ airspySettings \/ hackrfSettings \/ limeSettings
       \/ plutoSettings \/ rtlsdrSettings \/ sdrplaySettings

----------------------------------------------------------------------------
(* TerminateProcess.  Without a processor it is exit; otherwise the device is
   stopped and its handler deleted. *)
Exit == /\ place = "refused" /\ place' = "exited" /\ held' = {} /\ shown' = <<>>
        /\ UNCHANGED <<kind, stage, device, saved, remembered>>

Deletes(k, keeps) ==
    /\ kind = k /\ place \in {"running", "stopped"} /\ place' = "over"
    /\ held' = keeps /\ shown' = <<>> /\ UNCHANGED <<kind, stage>>
Writes(ps) == /\ saved' = [p \in ps |-> shown[p]]
              /\ remembered' = [p \in Kept[kind] |-> shown[p]]

(* Mutant: the bias is left on. *)
deleteAirspyPowered ==
    Deletes("airspy", {}) /\ Writes(Gains \cup {"linearity", "sensitivity"}) /\ UNCHANGED device

deleteAirspy ==
    /\ Deletes("airspy", {}) /\ Writes(Gains \cup {"linearity", "sensitivity"})
    /\ Tell(If(shown["rf_bias"] = 1, Told("rf_bias", 0)))

(* The widgets are asked after they were deleted; what that gives is in the file,
   or the program has crashed. *)
deleteHackrf ==
    /\ kind = "hackrf" /\ place \in {"running", "stopped"} /\ held' = {} /\ shown' = <<>>
    /\ remembered' = <<>> /\ UNCHANGED <<kind, stage, device>>
    /\ place' \in {"over", "ended"}
    /\ saved' \in {s \in [{"lna", "vga", "antenna", "amp", "ppm"} -> Positions] :
                     s["antenna"] <= 1 /\ s["amp"] <= 1}

deleteLime   == Deletes("lime", {}) /\ Writes({"antenna", "gain"}) /\ UNCHANGED device
deletePluto  == Deletes("pluto", {}) /\ Writes({"gain"}) /\ UNCHANGED device
(* Mutant: the second offset is forgotten. *)
deleteRtlsdrKhz == /\ Deletes("dabstick", {}) /\ UNCHANGED device
                   /\ Writes({"gain", "ppm", "KhzOffset"})
deleteRtlsdr == /\ Deletes("dabstick", {}) /\ UNCHANGED device
                /\ Writes({"gain", "ppm", "KhzOffset", "HzOffset"})
deleteSdrplay == /\ Deletes("sdrplay", {}) /\ UNCHANGED device
                 /\ Writes({"ppm", "GRdB", "lna", "agc"})

Delete == \/ deleteAirspy \/ deleteHackrf \/ deleteLime \/ deletePluto
          \/ deleteRtlsdr \/ deleteSdrplay

Next == \/ Choose \/ Quit \/ StepDone \/ StepFails \/ Construct \/ SetVFO \/ Restart
        \/ Stop \/ Set \/ Exit \/ Delete \/ NextProgram
Spec == Init /\ [][Next]_vars

----------------------------------------------------------------------------
TypeOK ==
    /\ kind \in Kinds /\ stage \in 1..6 /\ held \subseteq {"api", "device", "buffer"}
    /\ place \in {"asking", "setup", "constructed", "tuned", "running", "stopped", "refused",
                  "over", "ended", "exited"}
    /\ device.refused \subseteq Params[kind] /\ DOMAIN device.applied = Params[kind]
    /\ place \in {"running", "stopped"} => "device" \in held
    /\ remembered # <<>> => DOMAIN remembered = Kept[kind]

(* What is shown was told and accepted; or the last that was told was refused;
   or it is shown to be off, and the device left as it was when it was opened. *)
Effective(p) == \/ p \in device.refused \/ device.applied[p] = <<p, shown[p]>>
                \/ p \in LeftAlone[kind] /\ device.applied[p] = Untouched /\ shown[p] = 0

(* Where airspy's gains come from: the first tab, or the one shown. *)
Sensitivity  == <<"sensitivity", shown["sensitivity"]>>
OfTheTab(g) == CASE shown["tab"] = 0 -> Sensitivity
                 [] shown["tab"] = 1 -> <<"linearity", shown["linearity"]>>
                 [] shown["tab"] = 2 -> <<g, shown[g]>>

(* The settings of each device that are in effect while it runs, with the
   exceptions its handler is known to make (README): the gains of airspy may be
   those of the first tab, of rtlsdr the ends of the slider are nothing, a bias
   the library or the version has not got is only shown, and the set point of
   sdrplay's agc is the fixed one after a start. *)
InEffect == place = "running" =>
    /\ kind = "airspy" =>
          /\ \A p \in Params[kind] \ Gains : Effective(p)
          /\ \A g \in Gains \ device.refused : device.applied[g] \in {Sensitivity, OfTheTab(g)}
    /\ kind \in {"hackrf", "lime"} => \A p \in Params[kind] : Effective(p)
    /\ kind = "pluto" =>
          /\ Effective("agc") /\ Effective("freq")
          /\ shown["agc"] = 1 \/ "agc" \in device.refused \/ Effective("gain")
    /\ kind = "dabstick" =>
          /\ Effective("agc") /\ Effective("ppm") /\ (shown["biasTee"] = 1 => Effective("bias"))
          /\ \/ shown["gain"] \in {0, shown["gainsCount"]} \/ "gain" \in device.refused
             \/ device.applied["gain"] = <<"gain", shown["gainsCount"] - shown["gain"]>>
    /\ kind = "sdrplay" =>
          /\ \A p \in {"lna", "ppm", "freq", "agc"} : Effective(p)
          /\ shown["hwVersion"] # 1 => Effective("bias")
          /\ shown["hwVersion"] \in {2, 3} => Effective("antenna")
          /\ IF shown["agc"] = 0 THEN Effective("GRdB")
             ELSE \/ "setPoint" \in device.refused
                  \/ device.applied["setPoint"] \in {SetPoint, <<"GRdB", shown["GRdB"]>>}

(* What was shown when a program last ended by deleting the handler is shown
   when one is started again, of the settings that are kept and as far as the
   widgets of the device that is found go; also if there were others in between
   that could not start their device, whose changes exit does not keep. *)
SettingsSurvive ==
    place = "constructed" => \A p \in DOMAIN remembered : shown[p] = Fits(p, remembered[p], shown)

(* The power supply of airspy's antenna is off when the program is over or was
   ended, unless the device refused that, or the program is one that could not
   start its device, where it is left on if the user switches it on (README). *)
BiasOff ==
    place \in {"over", "ended"} /\ kind = "airspy" /\ "rf_bias" \notin device.refused =>
       device.applied["rf_bias"] \in {Untouched, <<"rf_bias", 0>>}
=============================================================================
