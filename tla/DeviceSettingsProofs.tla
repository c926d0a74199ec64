------------------------- MODULE DeviceSettingsProofs -------------------------
(***************************************************************************)
(* What DeviceSettings promises, for every set of handlers, positions and  *)
(* frequencies and for any number of refused calls.                        *)
(*                                                                         *)
(* What is in effect while a device runs is told to it at different times: *)
(* when its handler is constructed, when it is tuned, started or changed.  *)
(* DeviceInv therefore says for each handler which settings are right from *)
(* when on, also while the device is stopped, and what the members that    *)
(* nobody sees (a tab, an old gain, the kind of hardware) have to do with  *)
(* the device.  A setting is right if the device has accepted what is      *)
(* shown, or refused the last call about it; that each handler keeps its   *)
(* settings right is a lemma of its own.                                   *)
(***************************************************************************)
EXTENDS DeviceSettings, TLAPS

Constructed == {"constructed", "tuned", "running", "stopped", "refused"}

(* The widgets and members of each handler, and those that are 0 or 1 and
   are asked for it. *)
Widgets == [airspy   |-> Gains \cup {"linearity", "sensitivity", "freq", "lna_agc",
                                     "mixer_agc", "rf_bias", "tab", "currentTab"},
            hackrf   |-> {"lna", "vga", "antenna", "amp", "ppm", "freq"},
            lime     |-> {"antenna", "gain", "freq"},
            pluto    |-> {"gain", "freq", "agc", "visible"},
            dabstick |-> {"gain", "ppm", "KhzOffset", "HzOffset", "freq", "agc", "bias",
                          "biasTee", "gainsCount", "vfoOffset", "oldGain"},
            sdrplay  |-> {"GRdB", "lna", "agc", "ppm", "freq", "bias", "antenna", "hwVersion"}]
Switches == [airspy |-> {"rf_bias"}, hackrf |-> {"amp"}, lime |-> {}, pluto |-> {"agc"},
             dabstick |-> {"biasTee"}, sdrplay |-> {"agc"}]

----------------------------------------------------------------------------
(* What calls do to a set of devices: d has for p one of the values V, or has
   refused the last that it was told. *)
Has(d, p, V) == p \in d.refused \/ d.applied[p] \in V

Typed(ds) == \A d \in ds : d.refused \subseteq Params[kind] /\ DOMAIN d.applied = Params[kind]
All(ds, S, V) == \A d \in ds, p \in S : Has(d, p, V[p])

LEMMA Answering ==
    ASSUME NEW d, d.refused \subseteq Params[kind], DOMAIN d.applied = Params[kind],
           NEW call, DOMAIN call \subseteq Params[kind],
           NEW r \in {Accepted(d, call), Denied(d, call)}
    PROVE  /\ r.refused \subseteq Params[kind] /\ DOMAIN r.applied = Params[kind]
           /\ \A p \in Params[kind] : \A V :
                 (IF p \in DOMAIN call THEN call[p] \in V ELSE Has(d, p, V)) => Has(r, p, V)
<1>1. CASE r = Denied(d, call)
  <2>1. r.applied = d.applied /\ r.refused = d.refused \cup DOMAIN call BY <1>1 DEF Denied
  <2>2. QED BY <2>1 DEF Has
<1>2. CASE r = Accepted(d, call)
  <2>1. r.refused = d.refused \ DOMAIN call BY <1>2 DEF Accepted
  <2>2. /\ DOMAIN r.applied = Params[kind]
        /\ \A p \in Params[kind] :
              r.applied[p] = IF p \in DOMAIN call THEN call[p] ELSE d.applied[p]
    BY <1>2 DEF Accepted
  <2>3. QED BY <2>1, <2>2 DEF Has
<1>3. QED BY <1>1, <1>2

LEMMA AnswersAre ==
    ASSUME NEW d, NEW call
    PROVE  /\ Refusals(d, call) \subseteq {Denied(d, call)}
           /\ Answers(d, call) \subseteq {Accepted(d, call), Denied(d, call)}
  BY DEF Refusals, Answers

LEMMA Telling ==
    ASSUME NEW ds, Typed(ds), NEW call, DOMAIN call \subseteq Params[kind],
           NEW S, NEW V, All(ds, S, V), NEW T \in SUBSET Params[kind],
           \A p \in T : IF p \in DOMAIN call THEN call[p] \in V[p] ELSE p \in S
    PROVE  Typed(ds \bullet call) /\ All(ds \bullet call, T, V)
<1>1. ASSUME NEW r \in ds \bullet call
      PROVE  /\ r.refused \subseteq Params[kind] /\ DOMAIN r.applied = Params[kind]
             /\ \A p \in T : Has(r, p, V[p])
  <2>1. PICK d \in ds : r \in Answers(d, call) BY DEF \bullet
  <2>2. r \in {Accepted(d, call), Denied(d, call)} BY <2>1, AnswersAre
  <2>3. d.refused \subseteq Params[kind] /\ DOMAIN d.applied = Params[kind] BY DEF Typed
  <2>4. \A p \in S : Has(d, p, V[p]) BY DEF All
  <2>5. /\ r.refused \subseteq Params[kind] /\ DOMAIN r.applied = Params[kind]
        /\ \A p \in Params[kind] : \A W :
              (IF p \in DOMAIN call THEN call[p] \in W ELSE Has(d, p, W)) => Has(r, p, W)
    BY <2>2, <2>3, Answering
  <2>6. QED BY <2>4, <2>5
<1>2. QED BY <1>1 DEF Typed, All

(* The same for a call of which it is known how the device answered. *)
LEMMA Answered ==
    ASSUME NEW d, Typed({d}), NEW call, DOMAIN call \subseteq Params[kind],
           NEW S, NEW V, All({d}, S, V), NEW T \in SUBSET Params[kind],
           \A p \in T : IF p \in DOMAIN call THEN call[p] \in V[p] ELSE p \in S,
           NEW r \in {Accepted(d, call), Denied(d, call)}
    PROVE  Typed({r}) /\ All({r}, T, V)
<1>1. d.refused \subseteq Params[kind] /\ DOMAIN d.applied = Params[kind] BY DEF Typed
<1>2. \A p \in S : Has(d, p, V[p]) BY DEF All
<1>3. /\ r.refused \subseteq Params[kind] /\ DOMAIN r.applied = Params[kind]
      /\ \A p \in Params[kind] : \A W :
            (IF p \in DOMAIN call THEN call[p] \in W ELSE Has(d, p, W)) => Has(r, p, W)
  BY <1>1, Answering
<1>4. \A p \in T : Has(r, p, V[p]) BY <1>2, <1>3
<1>5. QED BY <1>3, <1>4 DEF Typed, All

(* In a denied call what it names is refused. *)
LEMMA DeniedIs ==
    ASSUME NEW d, NEW call, NEW p \in DOMAIN call
    PROVE  p \in Denied(d, call).refused
  BY DEF Denied

LEMMA ToldIs ==
    ASSUME NEW p, NEW v
    PROVE  DOMAIN Told(p, v) = {p} /\ Told(p, v)[p] = <<p, v>>
  BY DEF Told

LEMMA IfIs ==
    ASSUME NEW call, NEW condition \in BOOLEAN
    PROVE  /\ condition => If(condition, call) = call
           /\ ~condition => DOMAIN If(condition, call) = {}
           /\ DOMAIN If(condition, call) \subseteq DOMAIN call
<1>1. DOMAIN <<>> = {} OBVIOUS
<1>2. QED BY <1>1 DEF If

----------------------------------------------------------------------------
(* The inductive invariant.  Life and memory: *)
LifeTypes ==
    /\ kind \in Kinds /\ stage \in 1..6 /\ held \subseteq {"api", "device", "buffer"}
    /\ place \in {"asking", "setup", "constructed", "tuned", "running", "stopped", "refused",
                  "over", "ended", "exited"}
    /\ place \in {"running", "stopped"} => "device" \in held

DeviceTypes == device.refused \subseteq Params[kind] /\ DOMAIN device.applied = Params[kind]

(* what is remembered is what the file has, *)
Remembers ==
    /\ remembered = <<>> \/ DOMAIN remembered = Kept[kind]
    /\ \A p \in DOMAIN remembered : p \in DOMAIN saved /\ saved[p] = remembered[p]

SavedRanges ==
    /\ \A p \in Switches[kind] \cap DOMAIN saved : saved[p] \in {0, 1}
    /\ kind = "dabstick" /\ "gain" \in DOMAIN saved => saved["gain"] \in Nat

WidgetTypes == place \in Constructed =>
    /\ DOMAIN shown = Widgets[kind]
    /\ \A p \in Switches[kind] : shown[p] \in {0, 1}

(* and what is to be in effect, from when on. *)
Right(p) == {<<p, shown[p]>>} \cup IF p \in LeftAlone[kind] /\ shown[p] = 0 THEN {Untouched} ELSE {}
Sees(p)  == Has(device, p, Right(p))

(* airspy: its gains are those of the tab shown, or of the first, *)
AirspyConcerned == Gains \cup {"lna_agc", "mixer_agc", "rf_bias"}
                         \cup IF place # "constructed" THEN {"freq"} ELSE {}
AirspyWants(p) == IF p \in Gains THEN {Sensitivity, OfTheTab(p)} ELSE Right(p)
AirspyInv == kind = "airspy" /\ place \in Constructed =>
    /\ \A p \in AirspyConcerned : Has(device, p, AirspyWants(p))
    /\ shown["tab"] \in 0..2 /\ shown["currentTab"] \in {0, shown["tab"]}
HackrfInv == kind = "hackrf" /\ place \in Constructed =>
    /\ \A p \in {"lna", "vga", "antenna", "amp", "ppm"} : Sees(p)
    /\ place # "constructed" => Sees("freq")
LimeInv == kind = "lime" /\ place \in Constructed =>
    /\ Sees("antenna") /\ Sees("gain")
    /\ place # "constructed" => Sees("freq")
PlutoInv == kind = "pluto" /\ place \in Constructed =>
    /\ Sees("agc")
    /\ shown["agc"] = 1 \/ "agc" \in device.refused \/ Sees("gain")
    /\ place # "constructed" => Sees("freq")

(* rtlsdr: of the gain only what was set with the slider, and of a bias for
   which there is no function nothing; *)
RtlsdrConcerned == {"ppm", "agc", "bias"} \cup IF shown["oldGain"] # 0 THEN {"gain"} ELSE {}
RtlsdrWants(p) == IF p = "gain" THEN {<<"gain", shown["gainsCount"] - shown["oldGain"]>>}
                  ELSE IF p = "bias" /\ shown["biasTee"] = 0 THEN {Untouched} ELSE Right(p)
RtlsdrInv == kind = "dabstick" /\ place \in Constructed =>
    /\ \A p \in RtlsdrConcerned : Has(device, p, RtlsdrWants(p))
    /\ shown["gainsCount"] \in Nat /\ shown["gain"] \in 0..shown["gainsCount"]
    /\ shown["gain"] \in {0, shown["gainsCount"], shown["oldGain"]}

(* sdrplay: gains, ppm and frequency while it runs, and a set point only while
   there is an agc. *)
SdrplayConcerned == {"bias"}
    \cup (IF place = "running" \/ shown["agc"] = 0 THEN {"agc"} ELSE {})
    \cup (IF shown["hwVersion"] \in {2, 3} THEN {"antenna"} ELSE {})
    \cup (IF place = "running" THEN {"lna", "ppm", "freq"} ELSE {})
    \cup (IF place = "running" /\ shown["agc"] = 0 THEN {"GRdB"} ELSE {})
    \cup (IF place = "running" /\ shown["agc"] # 0 THEN {"setPoint"} ELSE {})
SdrplayWants(p) == IF p = "bias" /\ shown["hwVersion"] = 1 THEN {Untouched}
                   ELSE IF p = "setPoint" THEN {SetPoint, <<"GRdB", shown["GRdB"]>>} ELSE Right(p)
SdrplayInv == kind = "sdrplay" /\ place \in Constructed =>
    \A p \in SdrplayConcerned : Has(device, p, SdrplayWants(p))

(* A device is told nothing before it is set up. *)
Untold == place \in {"asking", "setup"} => device = Fresh

InHand == /\ DeviceTypes /\ WidgetTypes /\ Untold
          /\ AirspyInv /\ HackrfInv /\ LimeInv /\ PlutoInv /\ RtlsdrInv /\ SdrplayInv

(* With the tables of the handlers looked up. *)
LEMMA AirspyTables ==
    ASSUME kind = "airspy"
    PROVE  /\ Params[kind] = Gains \cup {"lna_agc", "mixer_agc", "rf_bias", "freq"}
           /\ LeftAlone[kind] = {"lna_agc", "mixer_agc", "rf_bias"}
           /\ Widgets[kind] = Gains \cup {"linearity", "sensitivity", "freq", "lna_agc",
                                     "mixer_agc", "rf_bias", "tab", "currentTab"}
           /\ Switches[kind] = {"rf_bias"} /\ Kept[kind] = Gains \cup {"linearity", "sensitivity"}
           /\ Gains \subseteq {"lna", "mixer", "vga"}
  BY SettingsAssumption DEF SettingsAssumption, Params, LeftAlone, Widgets, Switches, Kept
LEMMA HackrfTables ==
    ASSUME kind = "hackrf"
    PROVE  /\ Params[kind] = {"lna", "vga", "antenna", "amp", "ppm", "freq"}
           /\ LeftAlone[kind] = {} /\ Switches[kind] = {"amp"} /\ Kept[kind] = {}
           /\ Widgets[kind] = {"lna", "vga", "antenna", "amp", "ppm", "freq"}
  BY DEF Params, LeftAlone, Widgets, Switches, Kept
LEMMA LimeTables ==
    ASSUME kind = "lime"
    PROVE  /\ Params[kind] = {"antenna", "gain", "freq"}
           /\ LeftAlone[kind] = {} /\ Switches[kind] = {} /\ Kept[kind] = {"antenna", "gain"}
           /\ Widgets[kind] = {"antenna", "gain", "freq"}
  BY DEF Params, LeftAlone, Widgets, Switches, Kept
LEMMA PlutoTables ==
    ASSUME kind = "pluto"
    PROVE  /\ Params[kind] = {"agc", "gain", "freq"}
           /\ LeftAlone[kind] = {} /\ Switches[kind] = {"agc"} /\ Kept[kind] = {"gain"}
           /\ Widgets[kind] = {"gain", "freq", "agc", "visible"}
  BY DEF Params, LeftAlone, Widgets, Switches, Kept
LEMMA RtlsdrTables ==
    ASSUME kind = "dabstick"
    PROVE  /\ Params[kind] = {"gain", "ppm", "agc", "bias", "freq"}
           /\ LeftAlone[kind] = {"ppm", "agc", "bias"} /\ Switches[kind] = {"biasTee"}
           /\ Kept[kind] = {"gain", "ppm", "KhzOffset", "HzOffset"}
           /\ Widgets[kind] = {"gain", "ppm", "KhzOffset", "HzOffset", "freq", "agc", "bias",
                          "biasTee", "gainsCount", "vfoOffset", "oldGain"}
  BY DEF Params, LeftAlone, Widgets, Switches, Kept
LEMMA SdrplayTables ==
    ASSUME kind = "sdrplay"
    PROVE  /\ Params[kind] = {"GRdB", "lna", "agc", "setPoint", "ppm", "bias", "antenna", "freq"}
           /\ LeftAlone[kind] = {"agc", "bias"} /\ Switches[kind] = {"agc"}
           /\ Kept[kind] = {"GRdB", "lna", "ppm", "agc"}
           /\ Widgets[kind] = {"GRdB", "lna", "agc", "ppm", "freq", "bias", "antenna", "hwVersion"}
  BY DEF Params, LeftAlone, Widgets, Switches, Kept

(* What a handler sees after its calls: V says what is right then. *)
LEMMA Seen ==
    ASSUME kind' = kind, NEW ds, device' \in ds, Typed(ds),
           NEW S \in SUBSET Params[kind], All(ds, S, [p \in Params[kind] |-> Right(p)'])
    PROVE  DeviceTypes' /\ \A p \in S : Sees(p)'
<1>1. DeviceTypes' BY DEF DeviceTypes, Typed
<1>2. ASSUME NEW p \in S PROVE Sees(p)'
  <2>1. Has(device', p, Right(p)') BY DEF All
  <2>2. QED BY <2>1 DEF Sees, Has
<1>3. QED BY <1>1, <1>2

(* One call: what it tells is right after it, and what was right stays so. *)
LEMMA OneCall ==
    ASSUME DeviceTypes, kind' = kind, NEW call, DOMAIN call \subseteq Params[kind],
           \/ Tell(call)
           \/ device' \in Refusals(device, call)
           \/ device' = Accepted(device, call),
           NEW T \in SUBSET Params[kind],
           \A p \in T : IF p \in DOMAIN call THEN call[p] = <<p, shown'[p]>>
                                             ELSE Sees(p) /\ shown'[p] = shown[p]
    PROVE  DeviceTypes' /\ \A p \in T : Sees(p)'
<1>1. device' \in {Accepted(device, call), Denied(device, call)}
  <2>1. ASSUME Tell(call) PROVE device' \in Answers(device, call) BY <2>1 DEF Tell, \bullet
  <2>2. QED BY <2>1, AnswersAre
<1>2. /\ device'.refused \subseteq Params[kind] /\ DOMAIN device'.applied = Params[kind]
      /\ \A p \in Params[kind] : \A V :
            (IF p \in DOMAIN call THEN call[p] \in V ELSE Has(device, p, V)) => Has(device', p, V)
  BY <1>1, Answering DEF DeviceTypes
<1>3. DeviceTypes' BY <1>2 DEF DeviceTypes
<1>4. ASSUME NEW p \in T PROVE Sees(p)'
  <2>1. CASE p \in DOMAIN call
    <3>1. call[p] \in Right(p)' BY <2>1 DEF Right
    <3>2. Has(device', p, Right(p)') BY <1>2, <2>1, <3>1
    <3>3. QED BY <3>2 DEF Sees, Has
  <2>2. CASE p \notin DOMAIN call
    <3>1. Right(p)' = Right(p) BY <2>2 DEF Right
    <3>2. Has(device, p, Right(p)') BY <2>2, <3>1 DEF Sees
    <3>3. Has(device', p, Right(p)') BY <1>2, <2>2, <3>2
    <3>4. QED BY <3>3 DEF Sees, Has
  <2>3. QED BY <2>1, <2>2
<1>5. QED BY <1>3, <1>4

(* For anything that may be wanted of a setting. *)
LEMMA OneAnswer ==
    ASSUME DeviceTypes, kind' = kind, NEW call, DOMAIN call \subseteq Params[kind], Tell(call)
    PROVE  /\ DeviceTypes'
           /\ \A p \in Params[kind] : \A X :
                 (IF p \in DOMAIN call THEN call[p] \in X ELSE Has(device, p, X))
                 => Has(device', p, X)
<1>1. device' \in {Accepted(device, call), Denied(device, call)}
  <2>1. device' \in Answers(device, call) BY DEF Tell, \bullet
  <2>2. QED BY <2>1, AnswersAre
<1>2. /\ device'.refused \subseteq Params[kind] /\ DOMAIN device'.applied = Params[kind]
      /\ \A p \in Params[kind] : \A X :
            (IF p \in DOMAIN call THEN call[p] \in X ELSE Has(device, p, X)) => Has(device', p, X)
  BY <1>1, Answering DEF DeviceTypes
<1>3. QED BY <1>2 DEF DeviceTypes

LEMMA Reached ==
    ASSUME kind' = kind, NEW ds, device' \in ds, Typed(ds), NEW S, NEW V, All(ds, S, V)
    PROVE  DeviceTypes' /\ \A p \in S : Has(device', p, V[p])
  BY DEF Typed, All, DeviceTypes

(* A call about something else. *)
LEMMA TellingOther ==
    ASSUME NEW ds, NEW S \in SUBSET Params[kind], NEW V, Typed(ds), All(ds, S, V),
           NEW call, DOMAIN call \subseteq Params[kind] \ S
    PROVE  Typed(ds \bullet call) /\ All(ds \bullet call, S, V)
<1>1. \A p \in S : IF p \in DOMAIN call THEN call[p] \in V[p] ELSE p \in S OBVIOUS
<1>2. QED BY <1>1, Telling

LEMMA NothingSeen ==
    ASSUME DeviceTypes, NEW V
    PROVE  Typed({device}) /\ All({device}, {}, V)
  BY DEF DeviceTypes, Typed, All

(* The same for one setting. *)
LEMMA TellingOne ==
    ASSUME NEW ds, NEW S \in SUBSET Params[kind], NEW V, Typed(ds), All(ds, S, V),
           NEW p \in Params[kind], NEW v, <<p, v>> \in V[p]
    PROVE  Typed(ds \bullet Told(p, v)) /\ All(ds \bullet Told(p, v), S \cup {p}, V)
<1> DEFINE call == Told(p, v)
           T == S \cup {p}
<1>1. DOMAIN call = {p} /\ call[p] = <<p, v>> BY ToldIs
<1> HIDE DEF call
<1>2. DOMAIN call \subseteq Params[kind] /\ T \in SUBSET Params[kind] BY <1>1
<1>3. \A q \in T : IF q \in DOMAIN call THEN call[q] \in V[q] ELSE q \in S BY <1>1
<1>4. Typed(ds \bullet call) /\ All(ds \bullet call, T, V) BY <1>2, <1>3, Telling
<1>5. QED BY <1>4 DEF call

LEMMA OneTold ==
    ASSUME DeviceTypes, kind' = kind, NEW p \in Params[kind], NEW v, Tell(Told(p, v)), shown'[p] = v,
           NEW T \in SUBSET Params[kind],
           \A q \in T \ {p} : Sees(q) /\ shown'[q] = shown[q]
    PROVE  DeviceTypes' /\ \A q \in T : Sees(q)'
<1> DEFINE call == Told(p, v)
<1>1. DOMAIN call = {p} /\ call[p] = <<p, v>> BY ToldIs
<1>2. Tell(call) OBVIOUS
<1> HIDE DEF call
<1>3. DOMAIN call \subseteq Params[kind] BY <1>1
<1>4. \A q \in T : IF q \in DOMAIN call THEN call[q] = <<q, shown'[q]>>
                                        ELSE Sees(q) /\ shown'[q] = shown[q]
  BY <1>1
<1>5. QED BY <1>2, <1>3, <1>4, OneCall

LEMMA TellingIf ==
    ASSUME NEW ds, NEW S \in SUBSET Params[kind], NEW V, Typed(ds), All(ds, S, V),
           NEW p \in Params[kind], NEW v, NEW condition \in BOOLEAN,
           condition => <<p, v>> \in V[p]
    PROVE  /\ Typed(ds \bullet If(condition, Told(p, v)))
           /\ All(ds \bullet If(condition, Told(p, v)), IF condition THEN S \cup {p} ELSE S, V)
<1>1. CASE condition BY <1>1, TellingOne DEF If
<1>2. CASE ~condition
  <2> DEFINE none == If(condition, Told(p, v))
  <2>1. DOMAIN none = {} BY <1>2, IfIs
  <2> HIDE DEF none
  <2>2. /\ DOMAIN none \subseteq Params[kind]
        /\ \A q \in S : IF q \in DOMAIN none THEN none[q] \in V[q] ELSE q \in S
    BY <2>1
  <2>3. Typed(ds \bullet none) /\ All(ds \bullet none, S, V) BY <2>2, Telling
  <2>4. QED BY <1>2, <2>3 DEF none
<1>3. QED BY <1>1, <1>2

LEMMA AnsweredOne ==
    ASSUME NEW d, NEW S \in SUBSET Params[kind], NEW V, Typed({d}), All({d}, S, V),
           NEW p \in Params[kind], NEW v, <<p, v>> \in V[p],
           NEW r \in {Accepted(d, Told(p, v)), Denied(d, Told(p, v))}
    PROVE  Typed({r}) /\ All({r}, S \cup {p}, V)
<1> DEFINE call == Told(p, v)
           T == S \cup {p}
<1>1. DOMAIN call = {p} /\ call[p] = <<p, v>> BY ToldIs
<1>2. r \in {Accepted(d, call), Denied(d, call)} OBVIOUS
<1> HIDE DEF call
<1>3. DOMAIN call \subseteq Params[kind] /\ T \in SUBSET Params[kind] BY <1>1
<1>4. \A q \in T : IF q \in DOMAIN call THEN call[q] \in V[q] ELSE q \in S BY <1>1
<1>5. QED BY <1>2, <1>3, <1>4, Answered

(* One of several devices. *)
LEMMA OneOf ==
    ASSUME NEW ds, NEW d \in ds, NEW S, NEW V, Typed(ds), All(ds, S, V)
    PROVE  Typed({d}) /\ All({d}, S, V)
  BY DEF Typed, All

----------------------------------------------------------------------------
(* Lime: each setting is told as it changes, the frequency from the first
   tuning on. *)
LEMMA LimeKept ==
    ASSUME DeviceTypes, WidgetTypes, LimeInv, kind = "lime",
           limeHandler \/ limeSetVFO \/ limeRestart \/ limeSettings \/ deleteLime
    PROVE  DeviceTypes' /\ WidgetTypes' /\ LimeInv'
<1> USE LimeTables
<1>1. CASE limeHandler
  <2> DEFINE V == [p \in Params[kind] |-> Right(p)']
             ds1 == {device} \bullet Told("antenna", Read("antenna"))
             ds2 == ds1 \bullet Told("gain", Read("gain"))
  <2>1. /\ kind' = kind /\ place' = "constructed" /\ DOMAIN shown' = {"antenna", "gain", "freq"}
        /\ shown'["antenna"] = Read("antenna") /\ shown'["gain"] = Read("gain")
    <3> DEFINE others == [freq |-> 0]
    <3>1. DOMAIN others = {"freq"} OBVIOUS
    <3>2. Constructs("lime", {"antenna", "gain"}, others) BY <1>1 DEF limeHandler
    <3>3. /\ kind' = kind /\ place' = "constructed"
          /\ shown' = [p \in {"antenna", "gain"} \cup DOMAIN others |->
                         IF p \in {"antenna", "gain"} THEN Fits(p, Read(p), others) ELSE others[p]]
      BY <3>2 DEF Constructs
    <3> HIDE DEF others
    <3>4. \A p : Fits(p, Read(p), others) = Read(p) BY DEF Fits
    <3>5. QED BY <3>1, <3>3, <3>4
  <2>2. device' \in ds2 BY <1>1 DEF limeHandler
  <2>3. \A p \in Params[kind] : <<p, shown'[p]>> \in V[p] BY DEF Right
  <2> HIDE DEF V
  <2>4. Typed({device}) /\ All({device}, {}, V) BY NothingSeen
  <2>5. Typed(ds1) /\ All(ds1, {} \cup {"antenna"}, V) BY <2>1, <2>3, <2>4, TellingOne
  <2> HIDE DEF ds1
  <2>6. Typed(ds2) /\ All(ds2, ({} \cup {"antenna"}) \cup {"gain"}, V) BY <2>1, <2>3, <2>5, TellingOne
  <2> HIDE DEF ds2
  <2>7. DeviceTypes' /\ \A p \in {"antenna", "gain"} : Sees(p)'
    <3> USE DEF V
    <3>1. QED BY <2>1, <2>2, <2>6, Seen
  <2>8. QED BY <2>1, <2>7 DEF WidgetTypes, LimeInv
<1>2. CASE limeSetVFO
  <2>1. PICK f \in Frequencies : Tuning("lime") /\ Show("freq", f) /\ Tell(Told("freq", f))
    BY <1>2 DEF limeSetVFO, tuneDirectly
  <2>2. kind' = kind /\ place \in Constructed /\ place' \in Constructed /\ DOMAIN shown = Widgets[kind]
    BY <2>1 DEF Tuning, Constructed, WidgetTypes
  <2>3. shown' = [shown EXCEPT !["freq"] = f] BY <2>1 DEF Show
  <2>4. DeviceTypes' /\ \A p \in {"antenna", "gain", "freq"} : Sees(p)'
    BY <2>1, <2>2, <2>3, OneTold DEF LimeInv
  <2>5. QED BY <2>2, <2>3, <2>4 DEF WidgetTypes, LimeInv
<1>3. CASE limeRestart
  <2>1. /\ kind' = kind /\ place \in Constructed /\ place' \in Constructed /\ place # "constructed"
        /\ shown' = shown /\ Tell(Told("freq", shown["freq"])) /\ DOMAIN shown = Widgets[kind]
    BY <1>3 DEF limeRestart, Starting, Begins, Fails, Constructed, WidgetTypes
  <2>2. DeviceTypes' /\ \A p \in {"antenna", "gain", "freq"} : Sees(p)'
    BY <2>1, OneTold DEF LimeInv
  <2>3. QED BY <2>1, <2>2 DEF WidgetTypes, LimeInv
<1>4. CASE limeSettings
  <2>1. PICK q \in {"antenna", "gain"}, v \in Positions : Sets("lime", q, v) /\ Tell(Told(q, v))
    BY <1>4 DEF limeSettings
  <2>2. /\ kind' = kind /\ place \in Constructed /\ place' = place /\ place # "constructed"
        /\ DOMAIN shown = Widgets[kind] /\ shown' = [shown EXCEPT ![q] = v]
    BY <2>1 DEF Sets, Setting, Show, Constructed, WidgetTypes, life
  <2>3. DeviceTypes' /\ \A p \in {"antenna", "gain", "freq"} : Sees(p)'
    BY <2>1, <2>2, OneTold DEF LimeInv
  <2>4. QED BY <2>2, <2>3 DEF WidgetTypes, LimeInv
<1>5. CASE deleteLime
  <2>1. kind' = kind /\ place' \notin Constructed /\ device' = device
    BY <1>5 DEF deleteLime, Deletes, Constructed
  <2>2. QED BY <2>1 DEF WidgetTypes, LimeInv, DeviceTypes
<1>6. QED BY <1>1, <1>2, <1>3, <1>4, <1>5

(* Hackrf: the amplifier is told again after each tuning. *)
LEMMA HackrfKept ==
    ASSUME DeviceTypes, WidgetTypes, SavedRanges, HackrfInv, kind = "hackrf",
           hackrfHandler \/ hackrfSetVFO \/ hackrfRestart \/ hackrfSettings \/ deleteHackrf
    PROVE  DeviceTypes' /\ WidgetTypes' /\ HackrfInv'
<1> USE HackrfTables
<1> DEFINE Widget == {"lna", "vga", "antenna", "amp", "ppm"}
<1>1. CASE hackrfHandler
  <2> DEFINE V == [p \in Params[kind] |-> Right(p)']
             ds1 == {device} \bullet Told("lna", Read("lna"))
             ds2 == ds1 \bullet Told("vga", Read("vga"))
             ds3 == ds2 \bullet Told("antenna", Read("antenna"))
             ds4 == ds3 \bullet Told("amp", Read("amp"))
             ds5 == ds4 \bullet Told("ppm", Read("ppm"))
  <2>1. /\ kind' = kind /\ place' = "constructed" /\ DOMAIN shown' = Widgets[kind]
        /\ \A p \in Widget : shown'[p] = Read(p)
    <3> DEFINE others == [freq |-> 0]
    <3>1. DOMAIN others = {"freq"} OBVIOUS
    <3>2. Constructs("hackrf", Widget, others) BY <1>1 DEF hackrfHandler
    <3>3. /\ kind' = kind /\ place' = "constructed"
          /\ shown' = [p \in Widget \cup DOMAIN others |->
                         IF p \in Widget THEN Fits(p, Read(p), others) ELSE others[p]]
      BY <3>2 DEF Constructs
    <3> HIDE DEF others
    <3>4. \A p : Fits(p, Read(p), others) = Read(p) BY DEF Fits
    <3>5. QED BY <3>1, <3>3, <3>4
  <2>2. device' \in ds5 BY <1>1 DEF hackrfHandler
  <2>3. \A p \in Params[kind] : <<p, shown'[p]>> \in V[p] BY DEF Right
  <2> HIDE DEF V
  <2>4. \A p \in Widget : <<p, Read(p)>> \in V[p] BY <2>1, <2>3
  <2> DEFINE S1 == {} \cup {"lna"}   S2 == S1 \cup {"vga"}   S3 == S2 \cup {"antenna"}
             S4 == S3 \cup {"amp"}   S5 == S4 \cup {"ppm"}
  <2>5. Typed({device}) /\ All({device}, {}, V) BY NothingSeen
  <2>6. Typed(ds1) /\ All(ds1, S1, V) BY <2>4, <2>5, TellingOne
  <2> HIDE DEF ds1
  <2>7. Typed(ds2) /\ All(ds2, S2, V) BY <2>4, <2>6, TellingOne
  <2> HIDE DEF ds2
  <2>8. Typed(ds3) /\ All(ds3, S3, V) BY <2>4, <2>7, TellingOne
  <2> HIDE DEF ds3
  <2>9. Typed(ds4) /\ All(ds4, S4, V) BY <2>4, <2>8, TellingOne
  <2> HIDE DEF ds4
  <2>10. Typed(ds5) /\ All(ds5, S5, V) BY <2>4, <2>9, TellingOne
  <2> HIDE DEF ds5
  <2>11. S5 = Widget OBVIOUS
  <2>12. DeviceTypes' /\ \A p \in S5 : Sees(p)'
    <3> USE DEF V
    <3>1. QED BY <2>1, <2>2, <2>10, Seen
  <2>13. Read("amp") \in {0, 1} BY DEF Read, Default, SavedRanges
  <2>14. QED BY <2>1, <2>11, <2>12, <2>13 DEF WidgetTypes, HackrfInv
<1>2. CASE hackrfSetVFO
  <2>1. PICK f \in Frequencies :
           /\ Tuning("hackrf")
           /\ \/ device' \in Refusals(device, Told("freq", f)) /\ UNCHANGED shown
              \/ /\ Show("freq", f)
                 /\ device' \in {Accepted(device, Tuned(f))}
                                   \bullet If(shown["amp"] = 1, Told("amp", 1))
    BY <1>2 DEF hackrfSetVFO
  <2>2. /\ kind' = kind /\ place \in Constructed /\ place' \in Constructed
        /\ DOMAIN shown = Widgets[kind] /\ shown["amp"] \in {0, 1}
    BY <2>1 DEF Tuning, Constructed, WidgetTypes
  <2>3. CASE device' \in Refusals(device, Told("freq", f)) /\ UNCHANGED shown
    <3> DEFINE call == Told("freq", f)
    <3>1. DOMAIN call = {"freq"} BY ToldIs
    <3>2. device' \in Refusals(device, call) BY <2>3
    <3> HIDE DEF call
    <3>3. DOMAIN call \subseteq Params[kind] BY <3>1
    <3>4. \A p \in Widget : IF p \in DOMAIN call THEN call[p] = <<p, shown'[p]>>
                                                 ELSE Sees(p) /\ shown'[p] = shown[p]
      BY <2>2, <2>3, <3>1 DEF HackrfInv
    <3>5. DeviceTypes' /\ \A p \in Widget : Sees(p)' BY <2>2, <3>2, <3>3, <3>4, OneCall
    <3>6. Sees("freq")'
      <4>1. device' = Denied(device, call) BY <3>2, AnswersAre
      <4>2. "freq" \in device'.refused BY <3>1, <4>1, DeniedIs
      <4>3. QED BY <4>2 DEF Sees, Has
    <3>7. QED BY <2>2, <2>3, <3>5, <3>6 DEF WidgetTypes, HackrfInv
  <2>4. CASE /\ Show("freq", f)
             /\ device' \in {Accepted(device, Tuned(f))} \bullet If(shown["amp"] = 1, Told("amp", 1))
    <3> DEFINE V == [p \in Params[kind] |-> Right(p)']
               S == Widget \ {"amp"}
               call == Tuned(f)
               dev == Accepted(device, call)
    <3>1. shown' = [shown EXCEPT !["freq"] = f] BY <2>4 DEF Show
    <3>2. /\ DOMAIN call = {"freq", "amp"} /\ call["freq"] = <<"freq", f>>
          /\ call["amp"] = <<"amp", 0>>
      BY DEF Tuned
    <3> HIDE DEF call
    <3>3. \A p \in Params[kind] : <<p, shown'[p]>> \in V[p] BY DEF Right
    <3>4. \A p \in S : Has(device, p, V[p])
      <4>1. \A p \in S : Right(p)' = Right(p) BY <2>2, <3>1 DEF Right
      <4>2. \A p \in S : Sees(p) BY <2>2 DEF HackrfInv
      <4>3. QED BY <4>1, <4>2 DEF Sees
    <3> HIDE DEF V
    <3>5. Typed({device}) /\ All({device}, S, V) BY <3>4, NothingSeen DEF All
    <3> DEFINE on == shown["amp"] = 1
               ds == {dev} \bullet If(on, Told("amp", 1))
               T == IF on THEN S \cup {"freq"} ELSE Params[kind]
               U == IF on THEN T \cup {"amp"} ELSE T
    <3>6. device' \in ds /\ on \in BOOLEAN BY <2>4 DEF call
    <3>7. \A p \in T : IF p \in DOMAIN call THEN call[p] \in V[p] ELSE p \in S
      <4>1. call["freq"] \in V["freq"] BY <2>2, <3>1, <3>2, <3>3
      <4>2. ~on => call["amp"] \in V["amp"]
        <5>1. ~on => shown'["amp"] = 0 BY <2>2, <3>1
        <5>2. QED BY <3>2, <3>3, <5>1
      <4>3. QED BY <3>2, <4>1, <4>2
    <3>8. DOMAIN call \subseteq Params[kind] /\ T \in SUBSET Params[kind] BY <3>2
    <3>9. Typed({dev}) /\ All({dev}, T, V)
      <4> HIDE DEF T, S
      <4>1. QED BY <3>5, <3>7, <3>8, Answered
    <3>10. on => <<"amp", 1>> \in V["amp"] BY <2>2, <3>1, <3>3
    <3>11. Typed(ds) /\ All(ds, U, V)
      <4> HIDE DEF T, dev, on
      <4>1. QED BY <3>6, <3>8, <3>9, <3>10, TellingIf
    <3>12. U = Params[kind] OBVIOUS
    <3> HIDE DEF ds, U
    <3>13. DeviceTypes' /\ \A p \in Params[kind] : Sees(p)'
      <4> USE DEF V
      <4>1. QED BY <2>2, <3>6, <3>11, <3>12, Seen
    <3>14. QED BY <2>2, <3>1, <3>13 DEF WidgetTypes, HackrfInv
  <2>5. QED BY <2>1, <2>3, <2>4
<1>3. CASE hackrfRestart
  <2>1. /\ kind' = kind /\ place \in Constructed /\ place' \in Constructed /\ place # "constructed"
        /\ shown' = shown /\ device' = device
    BY <1>3 DEF hackrfRestart, Starting, Begins, Fails, Constructed
  <2>2. \A p \in Params[kind] : Sees(p) => Sees(p)' BY <2>1 DEF Sees, Has, Right
  <2>3. QED BY <2>1, <2>2 DEF WidgetTypes, HackrfInv, DeviceTypes
<1>4. CASE hackrfSettings
  <2>1. PICK q \in Widget, v \in Positions \cup {0, 1} :
           /\ q \in {"antenna", "amp"} => v \in {0, 1}
           /\ Sets("hackrf", q, v) /\ Tell(Told(q, v))
    BY <1>4 DEF hackrfSettings, hackrfSets
  <2>2. /\ kind' = kind /\ place \in Constructed /\ place' = place /\ place # "constructed"
        /\ DOMAIN shown = Widgets[kind] /\ shown' = [shown EXCEPT ![q] = v]
    BY <2>1 DEF Sets, Setting, Show, Constructed, WidgetTypes, life
  <2>3. DeviceTypes' /\ \A p \in Params[kind] : Sees(p)'
    BY <2>1, <2>2, OneTold DEF HackrfInv
  <2>4. shown'["amp"] \in {0, 1} BY <2>1, <2>2 DEF WidgetTypes
  <2>5. QED BY <2>2, <2>3, <2>4 DEF WidgetTypes, HackrfInv
<1>5. CASE deleteHackrf
  <2>1. kind' = kind /\ place' \notin Constructed /\ device' = device
    BY <1>5 DEF deleteHackrf, Constructed
  <2>2. QED BY <2>1 DEF WidgetTypes, HackrfInv, DeviceTypes
<1>6. QED BY <1>1, <1>2, <1>3, <1>4, <1>5

(* Pluto: whenever the agc is switched off the gain is told, unless that it is
   off was refused. *)
LEMMA PlutoKept ==
    ASSUME DeviceTypes, WidgetTypes, PlutoInv, kind = "pluto",
           plutoHandler \/ plutoSetVFO \/ plutoRestart \/ plutoSettings \/ deletePluto
    PROVE  DeviceTypes' /\ WidgetTypes' /\ PlutoInv'
<1> USE PlutoTables
<1> DEFINE V == [p \in Params[kind] |-> Right(p)']
<1>0. \A p \in Params[kind] : <<p, shown'[p]>> \in V[p] BY DEF Right
<1>1. CASE plutoHandler
  <2> DEFINE ds1 == {device} \bullet Told("agc", 0)
             ds2 == ds1 \bullet Told("gain", Read("gain"))
  <2>1. /\ kind' = kind /\ place' = "constructed" /\ DOMAIN shown' = Widgets[kind]
        /\ shown'["gain"] = Read("gain") /\ shown'["agc"] = 0
    <3> DEFINE others == [freq |-> 0, agc |-> 0, visible |-> 1]
    <3>1. DOMAIN others = {"freq", "agc", "visible"} /\ others["agc"] = 0 OBVIOUS
    <3>2. Constructs("pluto", {"gain"}, others) BY <1>1 DEF plutoHandler
    <3>3. /\ kind' = kind /\ place' = "constructed"
          /\ shown' = [p \in {"gain"} \cup DOMAIN others |->
                         IF p \in {"gain"} THEN Fits(p, Read(p), others) ELSE others[p]]
      BY <3>2 DEF Constructs
    <3> HIDE DEF others
    <3>4. \A p : Fits(p, Read(p), others) = Read(p) BY DEF Fits
    <3>5. QED BY <3>1, <3>3, <3>4
  <2>2. device' \in ds2 BY <1>1 DEF plutoHandler
  <2> HIDE DEF V
  <2> DEFINE S1 == {} \cup {"agc"}   S2 == S1 \cup {"gain"}
  <2>3. Typed({device}) /\ All({device}, {}, V) BY NothingSeen
  <2>4. Typed(ds1) /\ All(ds1, S1, V) BY <1>0, <2>1, <2>3, TellingOne
  <2> HIDE DEF ds1
  <2>5. Typed(ds2) /\ All(ds2, S2, V) BY <1>0, <2>1, <2>4, TellingOne
  <2> HIDE DEF ds2
  <2>6. DeviceTypes' /\ \A p \in S2 : Sees(p)'
    <3> USE DEF V
    <3>1. QED BY <2>1, <2>2, <2>5, Seen
  <2>7. QED BY <2>1, <2>6 DEF WidgetTypes, PlutoInv
<1>2. CASE plutoSetVFO
  <2>1. PICK f \in Frequencies : Tuning("pluto") /\ Show("freq", f) /\ Tell(Told("freq", f))
    BY <1>2 DEF plutoSetVFO, tuneDirectly
  <2>2. /\ kind' = kind /\ place \in Constructed /\ place' \in Constructed
        /\ DOMAIN shown = Widgets[kind] /\ shown["agc"] \in {0, 1}
    BY <2>1 DEF Tuning, Constructed, WidgetTypes
  <2>3. shown' = [shown EXCEPT !["freq"] = f] BY <2>1 DEF Show
  <2> DEFINE T == {"agc", "freq"}
  <2>8. T \in SUBSET Params[kind] /\ \A p \in T \ {"freq"} : Sees(p) /\ shown'[p] = shown[p]
    BY <2>2, <2>3 DEF PlutoInv
  <2>9. DeviceTypes' /\ \A p \in T : Sees(p)'
    <3> HIDE DEF T
    <3>1. QED BY <2>1, <2>2, <2>3, <2>8, OneTold
  <2>4. CASE "agc" \in device.refused
    <3>1. "agc" \in device'.refused
      <4> DEFINE call == Told("freq", f)
      <4>1. DOMAIN call = {"freq"} /\ Tell(call) BY <2>1, ToldIs
      <4> HIDE DEF call
      <4>2. device' \in {Accepted(device, call), Denied(device, call)}
        BY <4>1, AnswersAre DEF Tell, \bullet
      <4>3. QED BY <2>4, <4>1, <4>2 DEF Accepted, Denied
    <3>2. QED BY <2>2, <2>3, <2>9, <3>1 DEF WidgetTypes, PlutoInv
  <2>5. CASE shown["agc"] = 1
    BY <2>2, <2>3, <2>5, <2>9 DEF WidgetTypes, PlutoInv
  <2>6. CASE Sees("gain")
    <3>1. DeviceTypes' /\ \A p \in {"agc", "gain", "freq"} : Sees(p)'
      BY <2>1, <2>2, <2>3, <2>6, OneTold DEF PlutoInv
    <3>2. QED BY <2>2, <2>3, <3>1 DEF WidgetTypes, PlutoInv
  <2>7. QED BY <2>2, <2>4, <2>5, <2>6 DEF PlutoInv
<1>3. CASE plutoRestart
  <2> DEFINE manual == shown["agc"] = 0
             ds1 == {device} \bullet Told("agc", shown["agc"])
             ds2 == ds1 \bullet If(manual, Told("gain", shown["gain"]))
             S1 == {} \cup {"agc"}
             S2 == IF manual THEN S1 \cup {"gain"} ELSE S1
             S3 == S2 \cup {"freq"}
  <2>1. /\ kind' = kind /\ place \in Constructed /\ place' \in Constructed
        /\ shown' = [shown EXCEPT !["visible"] = 1 - shown["agc"]]
        /\ DOMAIN shown = Widgets[kind] /\ shown["agc"] \in {0, 1}
    BY <1>3 DEF plutoRestart, Starting, Begins, Fails, Constructed, Show, WidgetTypes
  <2>2. PICK d \in ds2 : device' \in {Accepted(d, Told("freq", shown["freq"])),
                                      Denied(d, Told("freq", shown["freq"]))}
    BY <1>3, AnswersAre DEF plutoRestart
  <2>3. \A p \in Params[kind] : <<p, shown[p]>> \in V[p] BY <1>0, <2>1
  <2> HIDE DEF V
  <2>4. Typed({device}) /\ All({device}, {}, V) BY NothingSeen
  <2>5. Typed(ds1) /\ All(ds1, S1, V) BY <2>3, <2>4, TellingOne
  <2> HIDE DEF ds1
  <2>6. S1 \in SUBSET Params[kind] /\ manual \in BOOLEAN
        /\ (manual => <<"gain", shown["gain"]>> \in V["gain"])
    BY <2>3
  <2>7. Typed(ds2) /\ All(ds2, S2, V)
    <3> HIDE DEF S1, manual
    <3>1. QED BY <2>5, <2>6, TellingIf
  <2>8. S2 \in SUBSET Params[kind] OBVIOUS
  <2> HIDE DEF ds2
  <2>9. Typed({d}) /\ All({d}, S2, V)
    <3> HIDE DEF S2
    <3>1. QED BY <2>7, OneOf
  <2>10. Typed({device'}) /\ All({device'}, S3, V)
    <3> HIDE DEF S2
    <3> DEFINE f == shown["freq"]
    <3>1. "freq" \in Params[kind] /\ <<"freq", f>> \in V["freq"] BY <2>3
    <3>2. device' \in {Accepted(d, Told("freq", f)), Denied(d, Told("freq", f))} BY <2>2
    <3> HIDE DEF f
    <3> HIDE PlutoTables
    <3>3. QED BY <2>8, <2>9, <3>1, <3>2, AnsweredOne
  <2>11. S3 \in SUBSET Params[kind] BY <2>8
  <2>12. DeviceTypes' /\ \A p \in S3 : Sees(p)'
    <3> USE DEF V
    <3> HIDE DEF S3
    <3>1. device' \in {device'} OBVIOUS
    <3>2. QED BY <2>1, <2>10, <2>11, <3>1, Seen
  <2>13. QED BY <2>1, <2>12 DEF WidgetTypes, PlutoInv
<1>4. CASE plutoSettings
  <2>1. CASE set_gainControl
    <3>1. PICK v \in Positions :
             /\ Setting("pluto")
             /\ \/ /\ shown["agc"] = 1
                   /\ device' \in Refusals(device, Told("agc", 0)) /\ Show("gain", v)
                \/ /\ shown' = [shown EXCEPT !["gain"] = v, !["agc"] = 0]
                   /\ \E d \in IF shown["agc"] = 1 THEN {Accepted(device, Told("agc", 0))}
                                                   ELSE {device} :
                         device' \in Answers(d, Told("gain", v))
      BY <2>1 DEF set_gainControl
    <3>2. /\ kind' = kind /\ place \in Constructed /\ place' = place /\ place # "constructed"
          /\ DOMAIN shown = Widgets[kind] /\ shown["agc"] \in {0, 1}
      BY <3>1 DEF Setting, Constructed, WidgetTypes, life
    <3>3. CASE shown["agc"] = 1 /\ device' \in Refusals(device, Told("agc", 0)) /\ Show("gain", v)
      <4> DEFINE call == Told("agc", 0)
      <4>1. DOMAIN call = {"agc"} BY ToldIs
      <4>2. device' \in Refusals(device, call) /\ shown' = [shown EXCEPT !["gain"] = v]
        BY <3>3 DEF Show
      <4> HIDE DEF call
      <4>3. DOMAIN call \subseteq Params[kind]
            /\ \A p \in {"freq"} : IF p \in DOMAIN call THEN call[p] = <<p, shown'[p]>>
                                                        ELSE Sees(p) /\ shown'[p] = shown[p]
        BY <3>2, <4>1, <4>2 DEF PlutoInv
      <4>4. DeviceTypes' /\ \A p \in {"freq"} : Sees(p)' BY <3>2, <4>2, <4>3, OneCall
      <4>5. "agc" \in device'.refused BY <4>1, <4>2, AnswersAre, DeniedIs
      <4>6. Sees("agc")' BY <4>5 DEF Sees, Has
      <4>7. QED BY <3>2, <4>2, <4>4, <4>5, <4>6 DEF WidgetTypes, PlutoInv
    <3>4. CASE /\ shown' = [shown EXCEPT !["gain"] = v, !["agc"] = 0]
               /\ \E d \in IF shown["agc"] = 1 THEN {Accepted(device, Told("agc", 0))}
                                               ELSE {device} :
                     device' \in Answers(d, Told("gain", v))
      <4>1. PICK d : /\ d = IF shown["agc"] = 1 THEN Accepted(device, Told("agc", 0)) ELSE device
                     /\ device' \in {Accepted(d, Told("gain", v)), Denied(d, Told("gain", v))}
        BY <3>4, AnswersAre
      <4>2. /\ shown'["agc"] = 0 /\ shown'["gain"] = v /\ shown'["freq"] = shown["freq"]
            /\ DOMAIN shown' = Widgets[kind]
        BY <3>2, <3>4
      <4> DEFINE S == {"freq"}   T == S \cup {"agc"}
      <4>3. Right("freq")' = Right("freq") BY <3>2, <4>2 DEF Right
      <4>4. Has(device, "freq", V["freq"]) BY <3>2, <4>3 DEF PlutoInv, Sees
      <4>5. Typed({device}) /\ All({device}, S, V)
        <5> HIDE DEF V
        <5>1. QED BY <4>4, NothingSeen DEF All
      <4>6. <<"agc", 0>> \in V["agc"] /\ <<"gain", v>> \in V["gain"] BY <1>0, <4>2
      <4>7. Typed({d}) /\ All({d}, T, V)
        <5>1. CASE shown["agc"] = 1
          <6>1. d \in {Accepted(device, Told("agc", 0)), Denied(device, Told("agc", 0))}
            BY <4>1, <5>1
          <6> HIDE DEF V
          <6>2. S \in SUBSET Params[kind] /\ "agc" \in Params[kind] OBVIOUS
          <6> HIDE DEF S
          <6> HIDE PlutoTables
          <6>3. QED BY <4>5, <4>6, <6>1, <6>2, AnsweredOne
        <5>2. CASE shown["agc"] = 0
          <6>1. Right("agc")' = Right("agc") BY <3>2, <4>2, <5>2 DEF Right
          <6>2. Has(device, "agc", V["agc"]) BY <3>2, <6>1 DEF PlutoInv, Sees
          <6>3. d = device BY <4>1, <5>2
          <6> HIDE DEF V
          <6>4. QED BY <4>5, <6>2, <6>3 DEF All
        <5>3. QED BY <3>2, <5>1, <5>2
      <4>8. Typed({device'}) /\ All({device'}, T \cup {"gain"}, V)
        <5> HIDE DEF V
        <5>1. T \in SUBSET Params[kind] /\ "gain" \in Params[kind] OBVIOUS
        <5>2. device' \in {Accepted(d, Told("gain", v)), Denied(d, Told("gain", v))} BY <4>1
        <5> HIDE DEF T
        <5> HIDE PlutoTables
        <5>3. QED BY <4>6, <4>7, <5>1, <5>2, AnsweredOne
      <4>9. DeviceTypes' /\ \A p \in T \cup {"gain"} : Sees(p)'
        <5>1. device' \in {device'} OBVIOUS
        <5>2. QED BY <3>2, <4>8, <5>1, Seen
      <4>10. QED BY <3>2, <4>2, <4>9 DEF WidgetTypes, PlutoInv
    <3>5. QED BY <3>1, <3>3, <3>4
  <2>2. CASE set_agcControl
    <3> DEFINE agc == 1 - shown["agc"]
               call == Told("agc", agc)
               dev == Accepted(device, call)
    <3>1. /\ Setting("pluto")
          /\ \/ device' \in Refusals(device, call) /\ Show("agc", agc)
             \/ /\ shown' = [shown EXCEPT !["agc"] = agc, !["visible"] = 1 - agc]
                /\ device' \in {dev} \bullet If(agc = 0, Told("gain", shown["gain"]))
      BY <2>2 DEF set_agcControl
    <3>2. /\ kind' = kind /\ place \in Constructed /\ place' = place /\ place # "constructed"
          /\ DOMAIN shown = Widgets[kind] /\ shown["agc"] \in {0, 1} /\ agc \in {0, 1}
      BY <3>1 DEF Setting, Constructed, WidgetTypes, life
    <3>3. shown'["freq"] = shown["freq"] /\ shown'["gain"] = shown["gain"] /\ shown'["agc"] = agc
          /\ DOMAIN shown' = Widgets[kind]
      BY <3>1, <3>2 DEF Show
    <3> HIDE DEF agc
    <3>4. CASE device' \in Refusals(device, call)
      <4>1. DOMAIN call = {"agc"} BY ToldIs
      <4>2. DOMAIN call \subseteq Params[kind]
            /\ \A p \in {"freq"} : IF p \in DOMAIN call THEN call[p] = <<p, shown'[p]>>
                                                        ELSE Sees(p) /\ shown'[p] = shown[p]
        BY <3>2, <3>3, <4>1 DEF PlutoInv
      <4> HIDE DEF call
      <4>3. DeviceTypes' /\ \A p \in {"freq"} : Sees(p)' BY <3>2, <3>4, <4>2, OneCall
      <4>4. "agc" \in device'.refused BY <3>4, <4>1, AnswersAre, DeniedIs
      <4>5. Sees("agc")' BY <4>4 DEF Sees, Has
      <4>6. QED BY <3>2, <3>3, <4>3, <4>4, <4>5 DEF WidgetTypes, PlutoInv
    <3>5. CASE device' \in {dev} \bullet If(agc = 0, Told("gain", shown["gain"]))
      <4> DEFINE S == {"freq"}   T == S \cup {"agc"}   manual == agc = 0
                 U == IF manual THEN T \cup {"gain"} ELSE T
                 ds == {dev} \bullet If(manual, Told("gain", shown["gain"]))
      <4>1. Right("freq")' = Right("freq") BY <3>2, <3>3 DEF Right
      <4>2. Has(device, "freq", V["freq"]) BY <3>2, <4>1 DEF PlutoInv, Sees
      <4>3. <<"agc", agc>> \in V["agc"] /\ <<"gain", shown["gain"]>> \in V["gain"] BY <1>0, <3>3
      <4> HIDE DEF V
      <4>4. Typed({device}) /\ All({device}, S, V) BY <4>2, NothingSeen DEF All
      <4>5. dev \in {Accepted(device, call), Denied(device, call)} OBVIOUS
      <4>6. Typed({dev}) /\ All({dev}, T, V)
        <5>1. S \in SUBSET Params[kind] /\ "agc" \in Params[kind] OBVIOUS
        <5> HIDE DEF dev, S
        <5> HIDE PlutoTables
        <5>2. QED BY <4>3, <4>4, <4>5, <5>1, AnsweredOne
      <4> HIDE DEF dev
      <4>7. manual \in BOOLEAN /\ T \in SUBSET Params[kind] OBVIOUS
      <4>8. Typed(ds) /\ All(ds, U, V)
        <5> HIDE DEF manual, T
        <5>1. QED BY <4>3, <4>6, <4>7, TellingIf
      <4>9. device' \in ds /\ U \in SUBSET Params[kind] BY <3>5
      <4>10. DeviceTypes' /\ \A p \in U : Sees(p)'
        <5> HIDE DEF ds, U
        <5> USE DEF V
        <5>1. QED BY <3>2, <4>8, <4>9, Seen
      <4>11. QED BY <3>2, <3>3, <4>10 DEF WidgetTypes, PlutoInv
    <3>6. QED BY <3>1, <3>4, <3>5
  <2>3. QED BY <1>4, <2>1, <2>2 DEF plutoSettings
<1>5. CASE deletePluto
  <2>1. kind' = kind /\ place' \notin Constructed /\ device' = device
    BY <1>5 DEF deletePluto, Deletes, Constructed
  <2>2. QED BY <2>1 DEF WidgetTypes, PlutoInv, DeviceTypes
<1>6. QED BY <1>1, <1>2, <1>3, <1>4, <1>5

(* rtlsdr *)
LEMMA RtlsdrKept ==
    ASSUME DeviceTypes, WidgetTypes, SavedRanges, Untold, RtlsdrInv,
           kind = "dabstick",
           \/ rtlsdrHandler \/ rtlsdrSetVFO \/ rtlsdrRestart \/ rtlsdrSettings \/ deleteRtlsdr
    PROVE  DeviceTypes' /\ WidgetTypes' /\ RtlsdrInv'
<1> DEFINE P == Params[kind]
           W == [p \in P |-> RtlsdrWants(p)]
           V == [p \in P |-> RtlsdrWants(p)']
           S == RtlsdrConcerned
           T == RtlsdrConcerned'
<1>0. P = {"gain", "ppm", "agc", "bias", "freq"} BY RtlsdrTables
<1>1. LeftAlone[kind] = {"ppm", "agc", "bias"} /\ Switches[kind] = {"biasTee"} BY RtlsdrTables
<1>2. Widgets[kind] = {"gain", "ppm", "KhzOffset", "HzOffset", "freq", "agc", "bias",
                       "biasTee", "gainsCount", "vfoOffset", "oldGain"}
  BY RtlsdrTables
<1>3. S \in SUBSET P /\ T \in SUBSET P BY <1>0 DEF RtlsdrConcerned
<1>4. /\ \A p \in P : <<p, shown[p]>> \in Right(p) /\ <<p, shown'[p]>> \in Right(p)'
      /\ kind' = kind => \A p \in {"ppm", "agc", "bias"} :
                             shown'[p] = 0 => Untouched \in Right(p)'
  BY <1>1 DEF Right
<1>a. ASSUME kind' = kind, DeviceTypes', \A p \in T : Has(device', p, V[p]),
             DOMAIN shown' = Widgets[kind], shown'["biasTee"] \in {0, 1},
             shown'["gainsCount"] \in Nat, shown'["gain"] \in 0..shown'["gainsCount"],
             shown'["gain"] \in {0, shown'["gainsCount"], shown'["oldGain"]}
      PROVE  DeviceTypes' /\ WidgetTypes' /\ RtlsdrInv'
  <2>1. \A p \in T : Has(device', p, RtlsdrWants(p)') BY <1>3, <1>a
  <2>2. (\A p \in RtlsdrConcerned : Has(device, p, RtlsdrWants(p)))' BY <2>1 DEF Has
  <2>3. RtlsdrInv' BY <1>a, <2>2 DEF RtlsdrInv
  <2>4. WidgetTypes' BY <1>1, <1>a DEF WidgetTypes
  <2>5. QED BY <1>a, <2>3, <2>4
<1>5. CASE rtlsdrHandler
  <2>0. PICK biasTee \in {0, 1}, gainsCount \in GainsCounts :
           LET gain  == Cut(Read("gain"), gainsCount)
               takes == gain \in 1..gainsCount - 1
           IN  /\ Constructs("dabstick", {"gain", "ppm", "KhzOffset", "HzOffset"},
                     [freq |-> 0, agc |-> 0, bias |-> 0, biasTee |-> biasTee,
                      gainsCount |-> gainsCount,
                      vfoOffset |-> Khz * Read("KhzOffset") + Read("HzOffset"),
                      oldGain |-> IF takes THEN gain ELSE 0])
               /\ device' \in {device} \bullet Told("gain", gainsCount \div 2)
                              \bullet If(takes, Told("gain", gainsCount - gain))
                              \bullet If(Read("ppm") # 0, Told("ppm", Read("ppm")))
    BY <1>5 DEF rtlsdrHandler
  <2> DEFINE gain  == Cut(Read("gain"), gainsCount)
             takes == gain \in 1..gainsCount - 1
             trims == Read("ppm") # 0
             ds1 == {device} \bullet Told("gain", gainsCount \div 2)
             ds2 == ds1 \bullet If(takes, Told("gain", gainsCount - gain))
             ds3 == ds2 \bullet If(trims, Told("ppm", Read("ppm")))
             S1 == {"agc", "bias"} \cup IF trims THEN {} ELSE {"ppm"}
             S2 == IF takes THEN S1 \cup {"gain"} ELSE S1
             S3 == IF trims THEN S2 \cup {"ppm"} ELSE S2
  <2>2. /\ kind' = kind /\ place' = "constructed" /\ place = "setup"
        /\ DOMAIN shown' = Widgets[kind] /\ shown'["biasTee"] \in {0, 1}
        /\ shown'["gain"] = gain /\ shown'["ppm"] = Read("ppm")
        /\ shown'["agc"] = 0 /\ shown'["bias"] = 0 /\ shown'["gainsCount"] = gainsCount
        /\ shown'["oldGain"] = IF takes THEN gain ELSE 0
    <3> DEFINE old == IF takes THEN gain ELSE 0
               off == Khz * Read("KhzOffset") + Read("HzOffset")
               others == [freq |-> 0, agc |-> 0, bias |-> 0, biasTee |-> biasTee,
                          gainsCount |-> gainsCount, vfoOffset |-> off, oldGain |-> old]
               own == {"gain", "ppm", "KhzOffset", "HzOffset"}
    <3>1. /\ kind' = kind /\ place' = "constructed" /\ place = "setup"
          /\ shown' = [p \in own \cup DOMAIN others |->
                          IF p \in own THEN Fits(p, Read(p), others) ELSE others[p]]
      BY <2>0 DEF Constructs
    <3> HIDE DEF old, off
    <3>2. /\ DOMAIN others = {"freq", "agc", "bias", "biasTee", "gainsCount", "vfoOffset", "oldGain"}
          /\ others["biasTee"] = biasTee /\ others["oldGain"] = old
          /\ others["agc"] = 0 /\ others["bias"] = 0 /\ others["gainsCount"] = gainsCount
      OBVIOUS
    <3> HIDE DEF others
    <3>3. DOMAIN shown' = Widgets[kind] BY <3>1, <3>2, <1>2
    <3>4. /\ shown'["biasTee"] = biasTee /\ shown'["oldGain"] = old
          /\ shown'["agc"] = 0 /\ shown'["bias"] = 0 /\ shown'["gainsCount"] = gainsCount
      BY <3>1, <3>2
    <3>5. /\ Fits("gain", Read("gain"), others) = gain
          /\ Fits("ppm", Read("ppm"), others) = Read("ppm")
      BY <3>2 DEF Fits
    <3>6. shown'["gain"] = gain /\ shown'["ppm"] = Read("ppm") BY <3>1, <3>5
    <3>7. QED BY <3>1, <3>3, <3>4, <3>6 DEF old
  <2>3. device' \in ds3 BY <2>0
  <2>4. device = Fresh BY <2>2 DEF Untold
  <2>5. gain \in 0..gainsCount /\ gainsCount \in Nat
    <3>1. Read("gain") \in Nat BY DEF Read, Default, SavedRanges
    <3>2. gainsCount \in Nat BY SettingsAssumption DEF SettingsAssumption
    <3>3. QED BY <3>1, <3>2 DEF Cut
  <2> HIDE DEF gain
  <2>6. \A p \in S1 : Has(device, p, V[p])
    <3>1. \A p \in S1 : device.applied[p] = Untouched BY <2>4, <1>0 DEF Fresh
    <3>2. \A p \in S1 : shown'[p] = 0 BY <2>2
    <3>3. \A p \in S1 : Untouched \in V[p] BY <1>0, <1>4, <2>2, <3>2 DEF RtlsdrWants
    <3>4. QED BY <3>1, <3>3 DEF Has
  <2>7. /\ takes => <<"gain", gainsCount - gain>> \in V["gain"]
        /\ <<"ppm", Read("ppm")>> \in V["ppm"]
    BY <1>0, <1>4, <2>2 DEF RtlsdrWants
  <2>8. T \subseteq S3
    <3>1. shown'["oldGain"] # 0 => takes BY <2>2
    <3>2. QED BY <3>1 DEF RtlsdrConcerned
  <2>9. S1 \in SUBSET P /\ S2 \in SUBSET P /\ S3 \in SUBSET P BY <1>0
  <2> HIDE DEF V
  <2>10. Typed({device}) /\ All({device}, S1, V) BY <2>6, NothingSeen DEF All
  <2>11. Typed(ds1) /\ All(ds1, S1, V)
    <3> DEFINE call == Told("gain", gainsCount \div 2)
    <3>1. DOMAIN call = {"gain"} BY ToldIs
    <3> HIDE DEF call
    <3>2. DOMAIN call \subseteq P \ S1 BY <1>0, <3>1
    <3> HIDE DEF S1
    <3>3. Typed({device} \bullet call) /\ All({device} \bullet call, S1, V)
      BY <2>9, <2>10, <3>2, TellingOther
    <3>4. QED BY <3>3 DEF call
  <2> HIDE DEF ds1
  <2>12. takes \in BOOLEAN /\ trims \in BOOLEAN /\ "gain" \in P /\ "ppm" \in P BY <1>0
  <2>13. Typed(ds2) /\ All(ds2, S2, V)
    <3> DEFINE rest == gainsCount - gain
    <3>1. takes => <<"gain", rest>> \in V["gain"] BY <2>7
    <3> HIDE DEF S1, takes, rest
    <3>2. Typed(ds1 \bullet If(takes, Told("gain", rest)))
          /\ All(ds1 \bullet If(takes, Told("gain", rest)), IF takes THEN S1 \cup {"gain"} ELSE S1, V)
      BY <2>9, <2>11, <2>12, <3>1, TellingIf
    <3>3. QED BY <3>2 DEF rest
  <2> HIDE DEF ds2
  <2>14. Typed(ds3) /\ All(ds3, S3, V)
    <3> HIDE DEF S2, trims
    <3>1. QED BY <2>7, <2>9, <2>12, <2>13, TellingIf
  <2> HIDE DEF ds3
  <2>15. DeviceTypes' /\ \A p \in S3 : Has(device', p, V[p])
    <3> HIDE DEF S3
    <3>1. QED BY <2>2, <2>3, <2>14, Reached
  <2>16. \A p \in T : Has(device', p, V[p]) BY <2>8, <2>15
  <2>17. /\ shown'["gainsCount"] \in Nat /\ shown'["gain"] \in 0..shown'["gainsCount"]
         /\ shown'["gain"] \in {0, shown'["gainsCount"], shown'["oldGain"]}
    BY <2>2, <2>5
  <2>18. QED BY <1>a, <2>2, <2>15, <2>16, <2>17
<1>b. ASSUME place \in Constructed
      PROVE  /\ \A p \in S : Has(device, p, W[p])
             /\ DOMAIN shown = Widgets[kind] /\ shown["biasTee"] \in {0, 1}
             /\ shown["gainsCount"] \in Nat /\ shown["gain"] \in 0..shown["gainsCount"]
             /\ shown["gain"] \in {0, shown["gainsCount"], shown["oldGain"]}
  BY <1>1, <1>3, <1>b DEF RtlsdrInv, WidgetTypes
<1>c. ASSUME kind' = kind, place \in Constructed, NEW call, DOMAIN call \subseteq P, Tell(call),
             \A p \in T : IF p \in DOMAIN call THEN call[p] \in V[p] ELSE p \in S /\ W[p] = V[p]
      PROVE  DeviceTypes' /\ \A p \in T : Has(device', p, V[p])
  <2>1. \A p \in S : Has(device, p, W[p]) BY <1>b, <1>c
  <2>2. T \in SUBSET Params[kind] /\ DOMAIN call \subseteq Params[kind] BY <1>3, <1>c
  <2>3. \A p \in T : IF p \in DOMAIN call THEN call[p] \in V[p] ELSE p \in S /\ W[p] = V[p]
    BY <1>c
  <2>4. kind' = kind /\ Tell(call) BY <1>c
  <2>5. /\ DeviceTypes'
        /\ \A p \in Params[kind] : \A X :
              (IF p \in DOMAIN call THEN call[p] \in X ELSE Has(device, p, X)) => Has(device', p, X)
    BY <2>2, <2>4, OneAnswer
  <2>6. ASSUME NEW p \in T PROVE Has(device', p, V[p])
    <3> HIDE DEF P, S, T, V, W
    <3>1. IF p \in DOMAIN call THEN call[p] \in V[p] ELSE Has(device, p, V[p]) BY <2>1, <2>3, <2>6
    <3>2. p \in Params[kind] BY <2>2, <2>6
    <3>3. QED BY <2>5, <3>1, <3>2
  <2>7. QED BY <2>5, <2>6
<1>d. ASSUME kind' = kind, place \in Constructed, device' = device,
             \A p \in T : p \in S /\ W[p] = V[p]
      PROVE  DeviceTypes' /\ \A p \in T : Has(device', p, V[p])
  <2>1. \A p \in S : Has(device, p, W[p]) BY <1>b, <1>d
  <2>2. QED BY <1>d, <2>1 DEF DeviceTypes
<1>e. ASSUME kind' = kind, shown' = shown
      PROVE  T = S /\ V = W
  BY <1>e DEF RtlsdrConcerned, RtlsdrWants, Right
<1>6. CASE rtlsdrSetVFO
  <2>1. PICK f \in Frequencies : /\ Tuning("dabstick") /\ UNCHANGED shown
                                 /\ Tell(Told("freq", f + shown["vfoOffset"]))
    BY <1>6 DEF rtlsdrSetVFO
  <2>2. kind' = kind /\ place \in Constructed /\ shown' = shown
    BY <2>1 DEF Tuning, Constructed
  <2> DEFINE call == Told("freq", f + shown["vfoOffset"])
  <2>3. DOMAIN call = {"freq"} /\ Tell(call) BY <2>1, ToldIs
  <2> HIDE DEF call
  <2>4. "freq" \notin T BY DEF RtlsdrConcerned
  <2>5. DOMAIN call \subseteq P
        /\ \A p \in T : IF p \in DOMAIN call THEN call[p] \in V[p] ELSE p \in S /\ W[p] = V[p]
    <3> HIDE DEF S, T, V, W
    <3>1. QED BY <1>0, <1>e, <2>2, <2>3, <2>4
  <2>6. DeviceTypes' /\ \A p \in T : Has(device', p, V[p]) BY <1>c, <2>2, <2>3, <2>5
  <2>7. QED BY <1>a, <1>b, <2>2, <2>6
<1>7. CASE rtlsdrRestart
  <2>1. kind' = kind /\ place \in Constructed /\ shown' = shown
    BY <1>7 DEF rtlsdrRestart, Starting, Constructed
  <2>2. CASE device' = device
    <3>1. DeviceTypes' /\ \A p \in T : Has(device', p, V[p])
      <4> HIDE DEF S, T, V, W
      <4>1. QED BY <1>d, <1>e, <2>1, <2>2
    <3>2. QED BY <1>a, <1>b, <2>1, <3>1
  <2>3. CASE device' # device
    <3> DEFINE call == Told("freq", device.applied["freq"][2] + shown["vfoOffset"])
    <3>1. DOMAIN call = {"freq"} /\ Tell(call) BY <1>7, <2>3, ToldIs DEF rtlsdrRestart
    <3> HIDE DEF call
    <3>2. "freq" \notin T BY DEF RtlsdrConcerned
    <3>3. DOMAIN call \subseteq P
          /\ \A p \in T : IF p \in DOMAIN call THEN call[p] \in V[p] ELSE p \in S /\ W[p] = V[p]
      <4> HIDE DEF S, T, V, W
      <4>1. QED BY <1>0, <1>e, <2>1, <3>1, <3>2
    <3>4. DeviceTypes' /\ \A p \in T : Has(device', p, V[p]) BY <1>c, <2>1, <3>1, <3>3
    <3>5. QED BY <1>a, <1>b, <2>1, <3>4
  <2>4. QED BY <2>2, <2>3
<1>8. CASE rtlsdrSettings
  <2>1. kind' = kind /\ place \in Constructed
    BY <1>8 DEF rtlsdrSettings, set_gainSlider, freqCorrection, setKhzOffset, setHzOffset, set_Agc,
                set_biasControl, Sets, Setting, Constructed, life
  <2>2. CASE set_gainSlider
    <3> DEFINE count == shown["gainsCount"]
    <3>1. PICK v \in 0..count :
             /\ v # shown["gain"]
             /\ \/ v \in {shown["oldGain"], count} /\ Show("gain", v) /\ UNCHANGED device
                \/ /\ v \notin {shown["oldGain"], count}
                   /\ shown' = [shown EXCEPT !["gain"] = v, !["oldGain"] = v]
                   /\ Tell(IF v = 0 THEN [gain |-> <<"anything", 0>>]
                                    ELSE Told("gain", count - v))
      BY <2>2 DEF set_gainSlider
    <3>2. CASE v \in {shown["oldGain"], count} /\ Show("gain", v) /\ UNCHANGED device
      <4>1. shown' = [shown EXCEPT !["gain"] = v] /\ device' = device BY <3>2 DEF Show
      <4>2. DOMAIN shown = Widgets[kind] /\ shown["biasTee"] \in {0, 1}
            /\ count \in Nat
        BY <1>b, <2>1
      <4>3. \A q \in Widgets[kind] \ {"gain"} : shown'[q] = shown[q] BY <4>1, <4>2
      <4>4. shown'["oldGain"] = shown["oldGain"] /\ shown'["biasTee"] = shown["biasTee"]
            /\ shown'["gain"] = v /\ shown'["gainsCount"] = count
        BY <1>2, <4>1, <4>2
      <4>5. \A p \in T : p \in S /\ W[p] = V[p]
        <5>1. T = S BY <4>4 DEF RtlsdrConcerned
        <5>2. \A p \in {"ppm", "agc", "bias"} : Right(p)' = Right(p)
          BY <1>2, <2>1, <4>3 DEF Right
        <5>3. \A p \in {"ppm", "agc", "bias", "gain"} : RtlsdrWants(p)' = RtlsdrWants(p)
          BY <4>4, <5>2 DEF RtlsdrWants
        <5>4. T \subseteq {"ppm", "agc", "bias", "gain"} BY DEF RtlsdrConcerned
        <5>5. QED BY <1>0, <5>1, <5>3, <5>4
      <4>6. DeviceTypes' /\ \A p \in T : Has(device', p, V[p]) BY <1>d, <2>1, <4>1, <4>5
      <4>7. DOMAIN shown' = Widgets[kind] BY <4>1, <4>2
      <4>8. v \in 0..count /\ v \in {0, count, shown["oldGain"]} BY <3>2
      <4>9. QED BY <1>a, <2>1, <4>2, <4>4, <4>6, <4>7, <4>8
    <3>3. CASE /\ v \notin {shown["oldGain"], count}
               /\ shown' = [shown EXCEPT !["gain"] = v, !["oldGain"] = v]
               /\ Tell(IF v = 0 THEN [gain |-> <<"anything", 0>>] ELSE Told("gain", count - v))
      <4> DEFINE call == IF v = 0 THEN [gain |-> <<"anything", 0>>] ELSE Told("gain", count - v)
      <4>1. Tell(call) BY <3>3
      <4>2. DOMAIN call = {"gain"} /\ (v # 0 => call["gain"] = <<"gain", count - v>>)
        BY ToldIs
      <4> HIDE DEF call
      <4>3. DOMAIN shown = Widgets[kind] /\ shown["biasTee"] \in {0, 1}
            /\ count \in Nat
        BY <1>b, <2>1
      <4>4. /\ shown'["oldGain"] = v /\ shown'["gain"] = v /\ DOMAIN shown' = Widgets[kind]
            /\ shown'["gainsCount"] = count
            /\ \A q \in Widgets[kind] \ {"gain", "oldGain"} : shown'[q] = shown[q]
        BY <1>2, <3>3, <4>3
      <4>5. \A p \in {"ppm", "agc", "bias"} : RtlsdrWants(p)' = RtlsdrWants(p)
        <5>1. \A p \in {"ppm", "agc", "bias"} : Right(p)' = Right(p) BY <1>2, <2>1, <4>4 DEF Right
        <5>2. shown'["biasTee"] = shown["biasTee"] BY <1>2, <4>4
        <5>3. QED BY <5>1, <5>2 DEF RtlsdrWants
      <4>6. \A p \in T : IF p \in DOMAIN call THEN call[p] \in V[p] ELSE p \in S /\ W[p] = V[p]
        <5>1. \A p \in {"ppm", "agc", "bias"} : p \in S /\ W[p] = V[p]
          BY <1>0, <4>5 DEF RtlsdrConcerned
        <5>2. v # 0 => call["gain"] \in V["gain"] BY <1>0, <4>2, <4>4 DEF RtlsdrWants
        <5>3. T = {"ppm", "agc", "bias"} \cup IF v # 0 THEN {"gain"} ELSE {}
          BY <4>4 DEF RtlsdrConcerned
        <5> HIDE DEF S, T, V, W
        <5>4. QED BY <4>2, <5>1, <5>2, <5>3
      <4>7. DOMAIN call \subseteq P BY <1>0, <4>2
      <4>8. DeviceTypes' /\ \A p \in T : Has(device', p, V[p]) BY <1>c, <2>1, <4>1, <4>6, <4>7
      <4>9. shown'["biasTee"] \in {0, 1} BY <1>2, <4>3, <4>4
      <4>10. QED BY <1>a, <2>1, <4>3, <4>4, <4>8, <4>9
    <3>4. QED BY <3>1, <3>2, <3>3
  <2>3. ASSUME NEW q \in {"ppm", "agc"}, NEW v, Sets("dabstick", q, v), Tell(Told(q, v))
        PROVE  DeviceTypes' /\ WidgetTypes' /\ RtlsdrInv'
    <3> DEFINE call == Told(q, v)
    <3>1. DOMAIN call = {q} /\ call[q] = <<q, v>> /\ Tell(call) BY <2>3, ToldIs
    <3> HIDE DEF call
    <3>2. /\ DOMAIN shown = Widgets[kind] /\ shown["biasTee"] \in {0, 1}
          /\ shown["gainsCount"] \in Nat /\ shown["gain"] \in 0..shown["gainsCount"]
          /\ shown["gain"] \in {0, shown["gainsCount"], shown["oldGain"]}
      BY <1>b, <2>1
    <3>3. /\ shown'[q] = v /\ DOMAIN shown' = Widgets[kind]
          /\ \A p \in Widgets[kind] \ {q} : shown'[p] = shown[p]
      BY <1>2, <2>3, <3>2 DEF Sets, Show
    <3>4. shown'["oldGain"] = shown["oldGain"] /\ shown'["biasTee"] = shown["biasTee"]
          /\ shown'["gain"] = shown["gain"] /\ shown'["gainsCount"] = shown["gainsCount"]
      BY <1>2, <3>3
    <3>5. \A p \in {"ppm", "agc", "bias"} \ {q} : Right(p)' = Right(p)
      BY <1>2, <2>1, <3>3 DEF Right
    <3>6. \A p \in P \ {q, "freq"} : W[p] = V[p] BY <1>0, <3>4, <3>5 DEF RtlsdrWants
    <3>7. <<q, v>> \in V[q] BY <1>0, <1>4, <3>3 DEF RtlsdrWants
    <3>8. T = S /\ "freq" \notin T BY <3>4 DEF RtlsdrConcerned
    <3>9. DOMAIN call \subseteq P
          /\ \A p \in T : IF p \in DOMAIN call THEN call[p] \in V[p] ELSE p \in S /\ W[p] = V[p]
      <4>1. q \in P BY <1>0
      <4> HIDE DEF S, T, V, W
      <4>2. QED BY <1>3, <3>1, <3>6, <3>7, <3>8, <4>1
    <3>10. DeviceTypes' /\ \A p \in T : Has(device', p, V[p]) BY <1>c, <2>1, <3>1, <3>9
    <3>11. QED BY <1>a, <2>1, <3>2, <3>3, <3>4, <3>10
  <2>4. CASE freqCorrection BY <2>3, <2>4 DEF freqCorrection
  <2>5. CASE set_Agc BY <2>3, <2>5 DEF set_Agc
  <2>6. CASE setKhzOffset \/ setHzOffset
    <3>1. /\ DOMAIN shown = Widgets[kind] /\ shown["biasTee"] \in {0, 1}
          /\ shown["gainsCount"] \in Nat /\ shown["gain"] \in 0..shown["gainsCount"]
          /\ shown["gain"] \in {0, shown["gainsCount"], shown["oldGain"]}
      BY <1>b, <2>1
    <3>2. /\ device' = device /\ DOMAIN shown' = DOMAIN shown
          /\ \A p \in DOMAIN shown \ {"KhzOffset", "HzOffset", "vfoOffset"} : shown'[p] = shown[p]
      BY <2>6 DEF setKhzOffset, setHzOffset
    <3>3. \A p \in {"gain", "oldGain", "gainsCount", "biasTee", "ppm", "agc", "bias"} :
             shown'[p] = shown[p]
      BY <1>2, <3>1, <3>2
    <3>4. \A p \in {"ppm", "agc", "bias"} : Right(p)' = Right(p) BY <2>1, <3>3 DEF Right
    <3>5. \A p \in {"gain", "ppm", "agc", "bias"} : W[p] = V[p] BY <1>0, <3>3, <3>4 DEF RtlsdrWants
    <3>6. T = S /\ T \subseteq {"gain", "ppm", "agc", "bias"} BY <3>3 DEF RtlsdrConcerned
    <3>7. DeviceTypes' /\ \A p \in T : Has(device', p, V[p])
      <4> HIDE DEF S, T, V, W
      <4>1. QED BY <1>d, <2>1, <3>2, <3>5, <3>6
    <3>8. QED BY <1>a, <2>1, <3>1, <3>2, <3>3, <3>7
  <2>7. CASE set_biasControl
    <3>1. PICK v \in {0, 1} : /\ Sets("dabstick", "bias", v)
                              /\ Tell(If(shown["biasTee"] = 1, Told("bias", v)))
      BY <2>7 DEF set_biasControl
    <3> DEFINE call == If(shown["biasTee"] = 1, Told("bias", v))
    <3>2. /\ DOMAIN shown = Widgets[kind] /\ shown["biasTee"] \in {0, 1}
          /\ shown["gainsCount"] \in Nat /\ shown["gain"] \in 0..shown["gainsCount"]
          /\ shown["gain"] \in {0, shown["gainsCount"], shown["oldGain"]}
      BY <1>b, <2>1
    <3>3. /\ DOMAIN call = IF shown["biasTee"] = 1 THEN {"bias"} ELSE {}
          /\ shown["biasTee"] = 1 => call["bias"] = <<"bias", v>>
      <4>1. DOMAIN Told("bias", v) = {"bias"} /\ Told("bias", v)["bias"] = <<"bias", v>> BY ToldIs
      <4>2. QED BY <4>1, IfIs
    <3>4. Tell(call) BY <3>1
    <3> HIDE DEF call
    <3>5. /\ shown'["bias"] = v /\ DOMAIN shown' = Widgets[kind]
          /\ \A p \in Widgets[kind] \ {"bias"} : shown'[p] = shown[p]
      BY <1>2, <3>1, <3>2 DEF Sets, Show
    <3>6. shown'["oldGain"] = shown["oldGain"] /\ shown'["biasTee"] = shown["biasTee"]
          /\ shown'["gain"] = shown["gain"] /\ shown'["gainsCount"] = shown["gainsCount"]
      BY <1>2, <3>5
    <3>7. \A p \in {"ppm", "agc"} : Right(p)' = Right(p) BY <1>2, <2>1, <3>5 DEF Right
    <3>8. \A p \in {"gain", "ppm", "agc"} : W[p] = V[p] BY <1>0, <3>6, <3>7 DEF RtlsdrWants
    <3>9. /\ shown["biasTee"] = 1 => <<"bias", v>> \in V["bias"]
          /\ shown["biasTee"] = 0 => W["bias"] = V["bias"]
      BY <1>0, <1>4, <3>5, <3>6 DEF RtlsdrWants
    <3>10. T = S /\ T \subseteq {"gain", "ppm", "agc", "bias"} BY <3>6 DEF RtlsdrConcerned
    <3>11. DOMAIN call \subseteq P BY <1>0, <3>3
    <3>12. \A p \in T : IF p \in DOMAIN call THEN call[p] \in V[p] ELSE p \in S /\ W[p] = V[p]
      <4> HIDE DEF S, T, V, W
      <4>1. QED BY <3>2, <3>3, <3>8, <3>9, <3>10
    <3>13. DeviceTypes' /\ \A p \in T : Has(device', p, V[p]) BY <1>c, <2>1, <3>4, <3>11, <3>12
    <3>14. QED BY <1>a, <2>1, <3>2, <3>5, <3>6, <3>13
  <2>8. QED BY <1>8, <2>2, <2>4, <2>5, <2>6, <2>7 DEF rtlsdrSettings
<1>9. CASE deleteRtlsdr
  <2>1. kind' = kind /\ place' \notin Constructed /\ device' = device
    BY <1>9 DEF deleteRtlsdr, Deletes, Constructed
  <2>2. QED BY <2>1 DEF WidgetTypes, RtlsdrInv, DeviceTypes
<1>10. QED BY <1>5, <1>6, <1>7, <1>8, <1>9

(* sdrplay: what is left out while the device is stopped is told when it is
   started. *)
LEMMA SdrplayKept ==
    ASSUME DeviceTypes, WidgetTypes, SavedRanges, Untold, SdrplayInv,
           kind = "sdrplay",
           sdrplayHandler \/ sdrplaySetVFO \/ sdrplayRestart \/ sdrplaySettings \/ deleteSdrplay
    PROVE  DeviceTypes' /\ WidgetTypes' /\ SdrplayInv'
<1> DEFINE P == Params[kind]
           W == [p \in P |-> SdrplayWants(p)]
           V == [p \in P |-> SdrplayWants(p)']
           S == SdrplayConcerned
           T == SdrplayConcerned'
<1>0. P = {"GRdB", "lna", "agc", "setPoint", "ppm", "bias", "antenna", "freq"} BY SdrplayTables
<1>1. LeftAlone[kind] = {"agc", "bias"} /\ Switches[kind] = {"agc"} BY SdrplayTables
<1>2. Widgets[kind] = {"GRdB", "lna", "agc", "ppm", "freq", "bias", "antenna", "hwVersion"}
  BY SdrplayTables
<1>3. S \in SUBSET P /\ T \in SUBSET P BY <1>0 DEF SdrplayConcerned
<1>4. /\ \A p \in P : <<p, shown[p]>> \in Right(p) /\ <<p, shown'[p]>> \in Right(p)'
      /\ kind' = kind => \A p \in {"agc", "bias"} : shown'[p] = 0 => Untouched \in Right(p)'
  BY <1>1 DEF Right
<1>5. /\ \A p \in P \ {"bias", "setPoint"} : <<p, shown'[p]>> \in V[p]
      /\ SetPoint \in V["setPoint"] /\ <<"GRdB", shown'["GRdB"]>> \in V["setPoint"]
  BY <1>0, <1>4 DEF SdrplayWants, SetPoint
<1>a. ASSUME kind' = kind, DeviceTypes', \A p \in T : Has(device', p, V[p]),
             DOMAIN shown' = Widgets[kind], shown'["agc"] \in {0, 1}
      PROVE  DeviceTypes' /\ WidgetTypes' /\ SdrplayInv'
  <2>1. \A p \in T : Has(device', p, SdrplayWants(p)') BY <1>3, <1>a
  <2>2. (\A p \in SdrplayConcerned : Has(device, p, SdrplayWants(p)))' BY <2>1 DEF Has
  <2>3. SdrplayInv' BY <1>a, <2>2 DEF SdrplayInv
  <2>4. WidgetTypes' BY <1>1, <1>a DEF WidgetTypes
  <2>5. QED BY <1>a, <2>3, <2>4
<1>b. ASSUME place \in Constructed
      PROVE  /\ \A p \in S : Has(device, p, W[p])
             /\ DOMAIN shown = Widgets[kind] /\ shown["agc"] \in {0, 1}
  BY <1>1, <1>3, <1>b DEF SdrplayInv, WidgetTypes
<1>c. ASSUME kind' = kind, place \in Constructed, NEW call, DOMAIN call \subseteq P, Tell(call),
             \A p \in T : IF p \in DOMAIN call THEN call[p] \in V[p] ELSE p \in S /\ W[p] = V[p]
      PROVE  DeviceTypes' /\ \A p \in T : Has(device', p, V[p])
  <2>1. \A p \in S : Has(device, p, W[p]) BY <1>b, <1>c
  <2>2. T \in SUBSET Params[kind] /\ DOMAIN call \subseteq Params[kind] BY <1>3, <1>c
  <2>3. \A p \in T : IF p \in DOMAIN call THEN call[p] \in V[p] ELSE p \in S /\ W[p] = V[p]
    BY <1>c
  <2>4. kind' = kind /\ Tell(call) BY <1>c
  <2>5. /\ DeviceTypes'
        /\ \A p \in Params[kind] : \A X :
              (IF p \in DOMAIN call THEN call[p] \in X ELSE Has(device, p, X)) => Has(device', p, X)
    BY <2>2, <2>4, OneAnswer
  <2>6. ASSUME NEW p \in T PROVE Has(device', p, V[p])
    <3> HIDE DEF P, S, T, V, W
    <3>1. IF p \in DOMAIN call THEN call[p] \in V[p] ELSE Has(device, p, V[p]) BY <2>1, <2>3, <2>6
    <3>2. p \in Params[kind] BY <2>2, <2>6
    <3>3. QED BY <2>5, <3>1, <3>2
  <2>7. QED BY <2>5, <2>6
(* Starting from what is still right. *)
<1>d. ASSUME place \in Constructed, NEW U \in SUBSET S, \A p \in U : W[p] = V[p]
      PROVE  Typed({device}) /\ All({device}, U, V)
  <2>1. \A p \in U : Has(device, p, V[p]) BY <1>b, <1>d
  <2> HIDE DEF V
  <2>2. QED BY <2>1, NothingSeen DEF All
<1>6. CASE sdrplayHandler
  <2>1. PICK hwVersion \in Versions :
          /\ Constructs("sdrplay", {"GRdB", "lna", "agc", "ppm"},
                        [freq |-> 0, bias |-> 0, antenna |-> 0, hwVersion |-> hwVersion])
          /\ Tell(If(hwVersion \in {2, 3}, Told("antenna", 0)))
    BY <1>6 DEF sdrplayHandler
  <2>2. /\ kind' = kind /\ place' = "constructed" /\ place = "setup"
        /\ DOMAIN shown' = Widgets[kind] /\ shown'["agc"] = Read("agc")
        /\ shown'["antenna"] = 0 /\ shown'["bias"] = 0 /\ shown'["hwVersion"] = hwVersion
    <3> DEFINE others == [freq |-> 0, bias |-> 0, antenna |-> 0, hwVersion |-> hwVersion]
               own == {"GRdB", "lna", "agc", "ppm"}
    <3>1. /\ kind' = kind /\ place' = "constructed" /\ place = "setup"
          /\ shown' = [p \in own \cup DOMAIN others |->
                          IF p \in own THEN Fits(p, Read(p), others) ELSE others[p]]
      BY <2>1 DEF Constructs
    <3>2. DOMAIN others = {"freq", "bias", "antenna", "hwVersion"}
          /\ others["antenna"] = 0 /\ others["bias"] = 0 /\ others["hwVersion"] = hwVersion
      OBVIOUS
    <3> HIDE DEF others
    <3>3. DOMAIN shown' = Widgets[kind] BY <3>1, <3>2, <1>2
    <3>4. shown'["antenna"] = 0 /\ shown'["bias"] = 0 /\ shown'["hwVersion"] = hwVersion
      BY <3>1, <3>2
    <3>5. shown'["agc"] = Read("agc") BY <3>1 DEF Fits
    <3>6. QED BY <3>1, <3>3, <3>4, <3>5
  <2>3. Read("agc") \in {0, 1} BY <1>1 DEF Read, Default, SavedRanges
  <2> DEFINE call == If(hwVersion \in {2, 3}, Told("antenna", 0))
             B == {"bias"} \cup IF Read("agc") = 0 THEN {"agc"} ELSE {}
  <2>4. /\ DOMAIN call = IF hwVersion \in {2, 3} THEN {"antenna"} ELSE {}
        /\ hwVersion \in {2, 3} => call["antenna"] = <<"antenna", 0>>
    <3>1. DOMAIN Told("antenna", 0) = {"antenna"} /\ Told("antenna", 0)["antenna"] = <<"antenna", 0>>
      BY ToldIs
    <3>2. DOMAIN <<>> = {} OBVIOUS
    <3>3. CASE hwVersion \in {2, 3} BY <3>1, <3>3 DEF If
    <3>4. CASE hwVersion \notin {2, 3} BY <3>2, <3>4 DEF If
    <3>5. QED BY <3>3, <3>4
  <2>5. Tell(call) BY <2>1
  <2> HIDE DEF call
  <2>6. \A p \in B : Has(device, p, V[p])
    <3>1. device = Fresh BY <2>2 DEF Untold
    <3>2. \A p \in B : device.applied[p] = Untouched BY <3>1, <1>0 DEF Fresh
    <3>3. \A p \in B : shown'[p] = 0 BY <2>2
    <3>4. \A p \in B : Untouched \in V[p] BY <1>0, <1>4, <2>2, <3>3 DEF SdrplayWants
    <3>5. QED BY <3>2, <3>4 DEF Has
  <2>7. T = B \cup IF hwVersion \in {2, 3} THEN {"antenna"} ELSE {}
    BY <2>2 DEF SdrplayConcerned
  <2>8. hwVersion \in {2, 3} => call["antenna"] \in V["antenna"] 
    <3>1. <<"antenna", shown'["antenna"]>> \in V["antenna"] BY <1>0, <1>5
    <3>2. <<"antenna", 0>> \in V["antenna"] BY <2>2, <3>1
    <3>3. QED BY <2>4, <3>2
  <2>9. \A p \in T : IF p \in DOMAIN call THEN call[p] \in V[p] ELSE p \in B
    <3> HIDE DEF T, V
    <3>1. QED BY <2>4, <2>7, <2>8
  <2>10. DOMAIN call \subseteq P BY <1>0, <2>4
  <2>11. DeviceTypes' /\ \A p \in T : Has(device', p, V[p])
    <3>1. kind' = kind /\ T \in SUBSET Params[kind] BY <1>3, <2>2
    <3>2. DOMAIN call \subseteq Params[kind] BY <2>10
    <3>3. /\ DeviceTypes'
          /\ \A p \in Params[kind] : \A X :
                (IF p \in DOMAIN call THEN call[p] \in X ELSE Has(device, p, X)) => Has(device', p, X)
      BY <2>5, <3>1, <3>2, OneAnswer
    <3>4. ASSUME NEW p \in T PROVE Has(device', p, V[p])
      <4> HIDE DEF P, T, V, B
      <4>1. IF p \in DOMAIN call THEN call[p] \in V[p] ELSE Has(device, p, V[p])
        BY <2>6, <2>9, <3>4
      <4>2. p \in Params[kind] BY <3>1, <3>4
      <4>3. QED BY <3>3, <4>1, <4>2
    <3>5. QED BY <3>3, <3>4
  <2>12. QED BY <1>a, <2>2, <2>3, <2>11
<1>7. CASE sdrplaySetVFO
  <2> DEFINE on == place = "running"
             f == shown'["freq"]
             trim == shown["ppm"]
             ds1 == {device} \bullet If(on, Told("freq", f))
             ds2 == ds1 \bullet If(on, Told("ppm", trim))
             U == S \ {"freq", "ppm"}
             U1 == IF on THEN U \cup {"freq"} ELSE U
             U2 == IF on THEN U1 \cup {"ppm"} ELSE U1
  <2>1. /\ kind' = kind /\ place \in Constructed
        /\ place' = "running" <=> place = "running"
        /\ DOMAIN shown = Widgets[kind]
    BY <1>7, <1>b DEF sdrplaySetVFO, Tuning, Constructed
  <2>2. PICK g \in Frequencies :
           /\ Show("freq", g)
           /\ device' \in {device} \bullet If(place = "running", Told("freq", g))
                            \bullet If(place = "running", Told("ppm", shown["ppm"]))
    BY <1>7 DEF sdrplaySetVFO
  <2>3. /\ shown'["freq"] = g /\ DOMAIN shown' = Widgets[kind]
        /\ \A p \in Widgets[kind] \ {"freq"} : shown'[p] = shown[p]
    BY <1>2, <2>1, <2>2 DEF Show
  <2>4. device' \in ds2 BY <2>2, <2>3
  <2>5. shown'["agc"] = shown["agc"] /\ shown'["hwVersion"] = shown["hwVersion"]
        /\ shown'["ppm"] = trim /\ shown'["GRdB"] = shown["GRdB"]
    BY <1>2, <2>3
  <2>6. T = S /\ T \subseteq U2 BY <2>1, <2>5 DEF SdrplayConcerned
  <2>7. \A p \in U : W[p] = V[p]
    <3>1. \A p \in P \ {"freq", "setPoint"} : Right(p)' = Right(p)
      BY <1>0, <1>2, <2>1, <2>3 DEF Right
    <3>2. QED BY <1>3, <2>5, <3>1 DEF SdrplayWants
  <2>8. Typed({device}) /\ All({device}, U, V)
    <3>1. U \in SUBSET S OBVIOUS
    <3> HIDE DEF U, V, W, S
    <3>2. QED BY <1>d, <2>1, <2>7, <3>1
  <2>9. <<"freq", f>> \in V["freq"] /\ <<"ppm", trim>> \in V["ppm"] BY <1>0, <1>5, <2>5
  <2>10. U \in SUBSET P /\ U1 \in SUBSET P /\ on \in BOOLEAN /\ "freq" \in P /\ "ppm" \in P
    <3> HIDE DEF S
    <3>1. QED BY <1>0, <1>3
  <2> HIDE DEF V, on, U, f, trim
  <2>11. Typed(ds1) /\ All(ds1, U1, V) BY <2>8, <2>9, <2>10, TellingIf
  <2> HIDE DEF ds1, U1
  <2>12. Typed(ds2) /\ All(ds2, U2, V) BY <2>9, <2>10, <2>11, TellingIf
  <2> HIDE DEF ds2, U2
  <2>13. DeviceTypes' /\ \A p \in U2 : Has(device', p, V[p]) BY <2>1, <2>4, <2>12, Reached
  <2>14. \A p \in T : Has(device', p, V[p]) BY <2>6, <2>13
  <2>15. shown'["agc"] \in {0, 1} BY <1>b, <2>1, <2>5
  <2>16. QED BY <1>a, <2>1, <2>3, <2>13, <2>14, <2>15 DEF V
<1>8. CASE sdrplayRestart
  <2>1. kind' = kind /\ place \in Constructed /\ place # "running" /\ shown' = shown
    BY <1>8 DEF sdrplayRestart, Starting, Constructed
  <2>2. V = W BY <2>1 DEF SdrplayWants, Right
  <2>3. CASE Fails /\ UNCHANGED device
    <3>1. place' # "running" BY <2>3 DEF Fails
    <3>2. T = S BY <2>1, <3>1 DEF SdrplayConcerned
    <3>3. \A p \in T : Has(device', p, V[p])
      <4> HIDE DEF S, T, V, W
      <4>1. QED BY <1>b, <2>1, <2>2, <2>3, <3>2
    <3>4. DeviceTypes' BY <2>1, <2>3 DEF DeviceTypes
    <3>5. QED BY <1>a, <1>b, <2>1, <3>3, <3>4
  <2>4. CASE Begins /\ device' \in {Accepted(device, StreamInit(shown["GRdB"], shown["lna"], shown["freq"]))}
                         \bullet Told("ppm", shown["ppm"])
                         \bullet If(shown["agc"] = 1, AgcControl(1, SetPoint, shown["lna"]))
    <3> DEFINE call == StreamInit(shown["GRdB"], shown["lna"], shown["freq"])
               dev == Accepted(device, call)
               trim == shown["ppm"]
               ds1 == {dev} \bullet Told("ppm", trim)
               auto == If(shown["agc"] = 1, AgcControl(1, SetPoint, shown["lna"]))
               ds2 == ds1 \bullet auto
               U == S \cap {"agc", "bias", "antenna"}
               U1 == U \cup {"GRdB", "lna", "freq"}
               U2 == U1 \cup {"ppm"}
               U3 == U2 \cup DOMAIN auto
    <3>1. device' \in ds2 BY <2>4
    <3>2. /\ DOMAIN call = {"GRdB", "lna", "freq"}
          /\ \A p \in DOMAIN call : call[p] = <<p, shown[p]>>
      BY DEF StreamInit
    <3> HIDE DEF call
    <3>3. Typed({device}) /\ All({device}, U, V)
      <4>1. U \in SUBSET S OBVIOUS
      <4> HIDE DEF U, V, W, S
      <4>2. QED BY <1>d, <2>1, <2>2, <4>1
    <3>4. /\ \A p \in P \ {"bias", "setPoint"} : <<p, shown[p]>> \in V[p]
          /\ SetPoint \in V["setPoint"]
      BY <1>5, <2>1
    <3> HIDE DEF V
    <3>5. /\ DOMAIN call \subseteq P /\ U1 \in SUBSET P /\ U2 \in SUBSET P
          /\ \A p \in U1 : IF p \in DOMAIN call THEN call[p] \in V[p] ELSE p \in U
      <4>1. DOMAIN call \subseteq P /\ U1 \in SUBSET P /\ U2 \in SUBSET P
        <5> HIDE DEF S
        <5>1. QED BY <1>0, <3>2
      <4>2. \A p \in {"GRdB", "lna", "freq"} : <<p, shown[p]>> \in V[p] BY <1>0, <3>4
      <4> HIDE DEF P, U
      <4>3. QED BY <3>2, <4>1, <4>2
    <3>6. Typed({dev}) /\ All({dev}, U1, V)
      <4>1. dev \in {Accepted(device, call), Denied(device, call)} OBVIOUS
      <4>2. DOMAIN call \subseteq Params[kind] /\ U1 \in SUBSET Params[kind] BY <3>5
      <4>3. \A p \in U1 : IF p \in DOMAIN call THEN call[p] \in V[p] ELSE p \in U BY <3>5
      <4>4. \A p \in U : Has(device, p, V[p]) BY <3>3 DEF All
      <4> HIDE DEF P, S, dev, U, U1
      <4>5. /\ dev.refused \subseteq Params[kind] /\ DOMAIN dev.applied = Params[kind]
            /\ \A p \in Params[kind] : \A X :
                  (IF p \in DOMAIN call THEN call[p] \in X ELSE Has(device, p, X)) => Has(dev, p, X)
        BY <4>1, <4>2, Answering DEF DeviceTypes
      <4>6. ASSUME NEW p \in U1 PROVE Has(dev, p, V[p])
        <5>1. IF p \in DOMAIN call THEN call[p] \in V[p] ELSE Has(device, p, V[p])
          BY <4>3, <4>4, <4>6
        <5>2. p \in Params[kind] BY <4>2, <4>6
        <5>3. QED BY <4>5, <5>1, <5>2
      <4>7. QED BY <4>5, <4>6 DEF Typed, All
    <3> HIDE DEF dev
    <3>7. Typed(ds1) /\ All(ds1, U2, V)
      <4>1. "ppm" \in P /\ <<"ppm", trim>> \in V["ppm"] BY <1>0, <3>4
      <4> HIDE DEF U1, trim
      <4>2. QED BY <3>5, <3>6, <4>1, TellingOne
    <3> HIDE DEF ds1
    <3>8. /\ DOMAIN auto = IF shown["agc"] = 1 THEN {"agc", "setPoint", "lna"} ELSE {}
          /\ \A p \in DOMAIN auto \ {"setPoint"} : auto[p] = <<p, shown[p]>>
          /\ shown["agc"] = 1 => auto["setPoint"] = SetPoint
      <4> DEFINE full == AgcControl(1, SetPoint, shown["lna"])
      <4>1. /\ DOMAIN full = {"agc", "setPoint", "lna"}
            /\ full["agc"] = <<"agc", 1>> /\ full["setPoint"] = SetPoint
            /\ full["lna"] = <<"lna", shown["lna"]>>
        BY DEF AgcControl
      <4>2. DOMAIN <<>> = {} OBVIOUS
      <4> HIDE DEF full
      <4>3. auto = If(shown["agc"] = 1, full) BY DEF full
      <4>4. CASE shown["agc"] = 1 BY <4>1, <4>3, <4>4 DEF If
      <4>5. CASE shown["agc"] # 1 BY <4>2, <4>3, <4>5 DEF If
      <4>6. QED BY <4>4, <4>5
    <3> HIDE DEF auto
    <3>9. /\ DOMAIN auto \subseteq P /\ U3 \in SUBSET P
          /\ \A p \in U3 : IF p \in DOMAIN auto THEN auto[p] \in V[p] ELSE p \in U2
      <4>1. DOMAIN auto \subseteq P BY <1>0, <3>8
      <4>2. ASSUME NEW p \in DOMAIN auto PROVE auto[p] \in V[p] BY <1>0, <3>4, <3>8, <4>2
      <4> HIDE DEF U2
      <4>3. QED BY <3>5, <4>1, <4>2
    <3>10. Typed(ds2) /\ All(ds2, U3, V)
      <4> HIDE DEF U2, U3
      <4>1. QED BY <3>5, <3>7, <3>9, Telling
    <3> HIDE DEF ds2
    <3>11. DeviceTypes' /\ \A p \in U3 : Has(device', p, V[p])
      <4> HIDE DEF U3
      <4>1. QED BY <2>1, <3>1, <3>10, Reached
    <3>12. T \subseteq U3
      <4>1. shown["agc"] \in {0, 1} BY <1>b, <2>1
      <4>2. QED BY <2>1, <3>8, <4>1 DEF SdrplayConcerned
    <3>13. \A p \in T : Has(device', p, V[p]) BY <3>11, <3>12
    <3>14. QED BY <1>a, <1>b, <2>1, <3>11, <3>13 DEF V
  <2>5. QED BY <1>8, <2>3, <2>4 DEF sdrplayRestart
<1>9. CASE sdrplaySettings
  <2>a. ASSUME NEW q, NEW v, Sets("sdrplay", q, v), q \in Widgets[kind] \ {"hwVersion"}
        PROVE  /\ kind' = kind /\ place \in Constructed /\ place' = place
               /\ DOMAIN shown' = Widgets[kind] /\ shown'[q] = v
               /\ \A p \in Widgets[kind] \ {q} : shown'[p] = shown[p]
               /\ \A p \in P \ {q} : (p = "setPoint" => q # "GRdB") => W[p] = V[p]
    <3>1. kind' = kind /\ place \in Constructed /\ place' = place
      BY <2>a DEF Sets, Setting, Constructed, life
    <3>2. DOMAIN shown = Widgets[kind] BY <1>b, <3>1
    <3>3. /\ DOMAIN shown' = Widgets[kind] /\ shown'[q] = v
          /\ \A p \in Widgets[kind] \ {q} : shown'[p] = shown[p]
      BY <2>a, <3>2 DEF Sets, Show
    <3>4. shown'["hwVersion"] = shown["hwVersion"] BY <1>2, <2>a, <3>3
    <3>5. /\ \A p \in P \ {q, "setPoint"} : Right(p)' = Right(p)
          /\ q # "GRdB" => shown'["GRdB"] = shown["GRdB"]
      BY <1>0, <1>2, <3>1, <3>3 DEF Right
    <3>6. \A p \in P \ {q} : (p = "setPoint" => q # "GRdB") => W[p] = V[p]
      BY <3>4, <3>5 DEF SdrplayWants
    <3>7. QED BY <3>1, <3>3, <3>6
  (* One call, if any, that tells what is new. *)
  <2>b. ASSUME NEW q \in P \ {"setPoint"}, NEW v, Sets("sdrplay", q, v), NEW call, DOMAIN call \subseteq P, Tell(call),
               \A p \in DOMAIN call : call[p] \in V[p],
               q \in T => q \in DOMAIN call \/ W[q] = V[q],
               T = S, "setPoint" \in T => q # "GRdB", shown'["agc"] \in {0, 1}
        PROVE  DeviceTypes' /\ WidgetTypes' /\ SdrplayInv'
    <3>1. q \in Widgets[kind] \ {"hwVersion"} BY <1>0, <1>2
    <3>2. /\ kind' = kind /\ place \in Constructed /\ DOMAIN shown' = Widgets[kind]
          /\ \A p \in P \ {q} : (p = "setPoint" => q # "GRdB") => W[p] = V[p]
      BY <2>a, <2>b, <3>1
    <3>3. \A p \in T : IF p \in DOMAIN call THEN call[p] \in V[p] ELSE p \in S /\ W[p] = V[p]
      <4>1. T \subseteq P BY <1>3
      <4> HIDE DEF P, S, T, V, W
      <4>2. QED BY <2>b, <3>2, <4>1
    <3>4. DeviceTypes' /\ \A p \in T : Has(device', p, V[p]) BY <1>c, <2>b, <3>2, <3>3
    <3>5. QED BY <1>a, <2>b, <3>2, <3>4
  <2>1. CASE set_ifgainReduction
    <3>1. PICK v \in Positions : /\ Sets("sdrplay", "GRdB", v) /\ shown["agc"] = 0
                                 /\ Tell(WhenRunning(SetGr(v, shown["lna"])))
      BY <2>1 DEF set_ifgainReduction
    <3> DEFINE call == WhenRunning(SetGr(v, shown["lna"]))
    <3>2. /\ kind' = kind /\ place' = place /\ shown'["GRdB"] = v
          /\ \A p \in Widgets[kind] \ {"GRdB"} : shown'[p] = shown[p]
      BY <1>2, <2>a, <3>1
    <3>3. shown'["agc"] = 0 /\ shown'["lna"] = shown["lna"] /\ shown'["hwVersion"] = shown["hwVersion"]
      BY <1>2, <3>1, <3>2
    <3>4. /\ DOMAIN call = IF place = "running" THEN {"GRdB", "lna"} ELSE {}
          /\ \A p \in DOMAIN call : call[p] = <<p, shown'[p]>>
      <4>1. DOMAIN <<>> = {} OBVIOUS
      <4>2. QED BY <3>2, <3>3, <4>1 DEF WhenRunning, If, SetGr
    <3>5. Tell(call) BY <3>1
    <3> HIDE DEF call
    <3>6. DOMAIN call \subseteq P /\ "GRdB" \in P BY <1>0, <3>4
    <3>7. \A p \in DOMAIN call : call[p] \in V[p] BY <1>0, <1>5, <3>4
    <3>8. T = S /\ ("GRdB" \in T => "GRdB" \in DOMAIN call) /\ "setPoint" \notin T
      BY <3>1, <3>2, <3>3, <3>4 DEF SdrplayConcerned
    <3>9. Sets("sdrplay", "GRdB", v) /\ shown'["agc"] \in {0, 1} BY <3>1, <3>3
    <3> HIDE DEF P, S, T, V, W
    <3>10. QED BY <2>b, <3>5, <3>6, <3>7, <3>8, <3>9
  <2>2. CASE set_lnagainReduction
    <3>1. PICK v \in LnaStates :
            /\ Sets("sdrplay", "lna", v)
            /\ Tell(WhenRunning(IF shown["agc"] = 0 THEN SetGr(shown["GRdB"], v)
                                ELSE AgcControl(1, SetPoint, v)))
      BY <2>2 DEF set_lnagainReduction
    <3> DEFINE call == WhenRunning(IF shown["agc"] = 0 THEN SetGr(shown["GRdB"], v)
                                                       ELSE AgcControl(1, SetPoint, v))
    <3>2. /\ kind' = kind /\ place' = place /\ place \in Constructed /\ shown'["lna"] = v
          /\ \A p \in Widgets[kind] \ {"lna"} : shown'[p] = shown[p]
      BY <1>2, <2>a, <3>1
    <3>3. /\ shown'["agc"] = shown["agc"] /\ shown'["GRdB"] = shown["GRdB"]
          /\ shown'["hwVersion"] = shown["hwVersion"] /\ shown["agc"] \in {0, 1}
      BY <1>2, <1>b, <3>2
    <3>4. /\ DOMAIN call \subseteq {"GRdB", "lna", "agc", "setPoint"}
          /\ place = "running" => "lna" \in DOMAIN call
          /\ \A p \in DOMAIN call \ {"setPoint"} : call[p] = <<p, shown'[p]>>
          /\ "setPoint" \in DOMAIN call => call["setPoint"] = SetPoint
      <4>1. DOMAIN <<>> = {} OBVIOUS
      <4>2. QED BY <3>2, <3>3, <4>1 DEF WhenRunning, If, SetGr, AgcControl
    <3>5. Tell(call) BY <3>1
    <3> HIDE DEF call
    <3>6. DOMAIN call \subseteq P /\ "lna" \in P BY <1>0, <3>4
    <3>7. \A p \in DOMAIN call : call[p] \in V[p] BY <1>0, <1>5, <3>4
    <3>8. T = S /\ ("lna" \in T => "lna" \in DOMAIN call)
      BY <3>1, <3>2, <3>3, <3>4 DEF SdrplayConcerned
    <3>9. Sets("sdrplay", "lna", v) /\ shown'["agc"] \in {0, 1} BY <3>1, <3>3
    <3> HIDE DEF P, S, T, V, W
    <3>10. QED BY <2>b, <3>5, <3>6, <3>7, <3>8, <3>9
  <2>3. CASE set_antennaSelect \/ biasT_selectorHandler
    <3>1. PICK q \in {"antenna", "bias"}, v \in {0, 1} :
            /\ Sets("sdrplay", q, v)
            /\ \/ q = "antenna" /\ shown["hwVersion"] \in {2, 3} /\ Tell(Told(q, v))
               \/ q = "bias" /\ Tell(If(shown["hwVersion"] # 1, Told(q, v)))
      BY <2>3 DEF set_antennaSelect, biasT_selectorHandler
    <3> DEFINE none == q = "bias" /\ shown["hwVersion"] = 1
               call == If(~none, Told(q, v))
    <3>2. /\ kind' = kind /\ place' = place /\ place \in Constructed /\ shown'[q] = v
          /\ \A p \in Widgets[kind] \ {q} : shown'[p] = shown[p]
      BY <1>2, <2>a, <3>1
    <3>3. /\ shown'["agc"] = shown["agc"] /\ shown'["hwVersion"] = shown["hwVersion"]
          /\ shown["agc"] \in {0, 1}
      BY <1>2, <1>b, <3>2
    <3>4. Tell(call) BY <3>1 DEF If
    <3>5. /\ DOMAIN call = IF none THEN {} ELSE {q}
          /\ ~none => call[q] = <<q, v>>
      <4>1. DOMAIN Told(q, v) = {q} /\ Told(q, v)[q] = <<q, v>> BY ToldIs
      <4>2. DOMAIN <<>> = {} OBVIOUS
      <4>3. QED BY <4>1, <4>2 DEF If
    <3> HIDE DEF call
    <3>6. DOMAIN call \subseteq P /\ q \in P \ {"setPoint"} BY <1>0, <3>5
    <3>7. /\ ~none => <<q, v>> \in V[q]
          /\ none => W[q] = V[q]
      <4>1. <<q, v>> \in Right(q)' BY <3>2 DEF Right
      <4>2. V[q] = IF none THEN {Untouched} ELSE Right(q)' BY <3>3, <3>6 DEF SdrplayWants
      <4>3. none => W[q] = {Untouched} BY <3>6 DEF SdrplayWants
      <4> HIDE DEF V, W, none
      <4>4. QED BY <4>1, <4>2, <4>3
    <3>8. T = S /\ q # "GRdB" BY <3>2, <3>3 DEF SdrplayConcerned
    <3>9. Sets("sdrplay", q, v) /\ shown'["agc"] \in {0, 1} BY <3>1, <3>3
    <3> HIDE DEF P, S, T, V, W, none
    <3>10. \A p \in DOMAIN call : call[p] \in V[p] BY <3>5, <3>7
    <3>11. q \in DOMAIN call \/ W[q] = V[q] BY <3>5, <3>7
    <3>12. QED BY <2>b, <3>4, <3>6, <3>8, <3>9, <3>10, <3>11
  <2>4. CASE agcControl_toggled
    <3>1. PICK agc \in {0, 1} :
            /\ Sets("sdrplay", "agc", agc)
            /\ device' \in {device} \bullet AgcControl(agc, <<"GRdB", shown["GRdB"]>>, shown["lna"])
                             \bullet WhenRunning(If(agc = 0, SetGr(shown["GRdB"], shown["lna"])))
      BY <2>4 DEF agcControl_toggled
    <3> DEFINE call == AgcControl(agc, <<"GRdB", shown["GRdB"]>>, shown["lna"])
               manual == WhenRunning(If(agc = 0, SetGr(shown["GRdB"], shown["lna"])))
               ds1 == {device} \bullet call
               ds2 == ds1 \bullet manual
               U == S \ {"agc"}
               U1 == U \cup {"agc", "setPoint", "lna"}
               U2 == U1 \cup DOMAIN manual
    <3>2. /\ kind' = kind /\ place \in Constructed /\ place' = place /\ shown'["agc"] = agc
          /\ DOMAIN shown' = Widgets[kind]
          /\ \A p \in Widgets[kind] \ {"agc"} : shown'[p] = shown[p]
          /\ \A p \in P \ {"agc"} : W[p] = V[p]
      BY <1>2, <2>a, <3>1
    <3>3. /\ shown'["lna"] = shown["lna"] /\ shown'["GRdB"] = shown["GRdB"]
          /\ shown'["hwVersion"] = shown["hwVersion"]
      BY <1>2, <3>2
    <3>4. device' \in ds2 BY <3>1
    <3>5. /\ DOMAIN call = {"agc", "setPoint", "lna"} /\ call["agc"] = <<"agc", agc>>
          /\ call["lna"] = <<"lna", shown["lna"]>> /\ call["setPoint"] = <<"GRdB", shown["GRdB"]>>
      BY DEF AgcControl
    <3>6. /\ DOMAIN manual = IF place = "running" /\ agc = 0 THEN {"GRdB", "lna"} ELSE {}
          /\ \A p \in DOMAIN manual : manual[p] = <<p, shown'[p]>>
      <4>1. DOMAIN <<>> = {} OBVIOUS
      <4>2. QED BY <3>3, <4>1 DEF WhenRunning, If, SetGr
    <3> HIDE DEF call, manual
    <3>7. Typed({device}) /\ All({device}, U, V)
      <4>1. U \in SUBSET S OBVIOUS
      <4>2. \A p \in U : W[p] = V[p] BY <1>3, <3>2
      <4> HIDE DEF U, V, W, S
      <4>3. QED BY <1>d, <3>2, <4>1, <4>2
    <3>8. /\ \A p \in P \ {"bias", "setPoint"} : <<p, shown'[p]>> \in V[p]
          /\ <<"GRdB", shown'["GRdB"]>> \in V["setPoint"]
      BY <1>5
    <3>9. T \subseteq U2 BY <3>2, <3>3, <3>6 DEF SdrplayConcerned
    <3> HIDE DEF V
    <3>10. /\ DOMAIN call \subseteq P /\ U1 \in SUBSET P
           /\ \A p \in U1 : IF p \in DOMAIN call THEN call[p] \in V[p] ELSE p \in U
      <4>1. U1 \subseteq P BY <1>0, <1>3
      <4>2. DOMAIN call \subseteq P BY <1>0, <3>5
      <4>3. <<"agc", agc>> \in V["agc"] BY <1>0, <3>2, <3>8
      <4>4. <<"lna", shown["lna"]>> \in V["lna"] /\ <<"GRdB", shown["GRdB"]>> \in V["setPoint"]
        BY <1>0, <3>3, <3>8
      <4> HIDE DEF P, S
      <4>5. QED BY <3>5, <4>1, <4>2, <4>3, <4>4
    <3>11. Typed(ds1) /\ All(ds1, U1, V)
      <4> HIDE DEF U, U1
      <4>1. QED BY <3>7, <3>10, Telling
    <3> HIDE DEF ds1
    <3>12. /\ DOMAIN manual \subseteq P /\ U2 \in SUBSET P
           /\ \A p \in U2 : IF p \in DOMAIN manual THEN manual[p] \in V[p] ELSE p \in U1
      <4> HIDE DEF U1
      <4>1. QED BY <1>0, <3>6, <3>8, <3>10
    <3>13. Typed(ds2) /\ All(ds2, U2, V)
      <4> HIDE DEF U1, U2
      <4>1. QED BY <3>11, <3>12, Telling
    <3> HIDE DEF ds2
    <3>14. DeviceTypes' /\ \A p \in U2 : Has(device', p, V[p])
      <4> HIDE DEF U2
      <4>1. QED BY <3>2, <3>4, <3>13, Reached
    <3>15. \A p \in T : Has(device', p, V[p]) BY <3>9, <3>14
    <3>16. QED BY <1>a, <3>1, <3>2, <3>14, <3>15 DEF V
  <2>5. CASE set_ppmControl
    <3>1. PICK v \in Positions :
            /\ Sets("sdrplay", "ppm", v)
            /\ device' \in {device} \bullet WhenRunning(Told("ppm", v))
                             \bullet WhenRunning(Told("freq", shown["freq"]))
      BY <2>5 DEF set_ppmControl
    <3> DEFINE on == place = "running"
               trim == shown'["ppm"]
               f == shown["freq"]
               ds1 == {device} \bullet If(on, Told("ppm", trim))
               ds2 == ds1 \bullet If(on, Told("freq", f))
               U == S \ {"ppm", "freq"}
               U1 == IF on THEN U \cup {"ppm"} ELSE U
               U2 == IF on THEN U1 \cup {"freq"} ELSE U1
    <3>2. /\ kind' = kind /\ place \in Constructed /\ place' = place /\ shown'["ppm"] = v
          /\ DOMAIN shown' = Widgets[kind]
          /\ \A p \in Widgets[kind] \ {"ppm"} : shown'[p] = shown[p]
          /\ \A p \in P \ {"ppm"} : W[p] = V[p]
      BY <1>2, <2>a, <3>1
    <3>3. /\ shown'["freq"] = f /\ shown'["hwVersion"] = shown["hwVersion"]
          /\ shown'["agc"] = shown["agc"] /\ shown["agc"] \in {0, 1}
      BY <1>2, <1>b, <3>2
    <3>4. device' \in ds2 BY <3>1, <3>2 DEF WhenRunning
    <3>5. T = S /\ T \subseteq U2 BY <3>2, <3>3 DEF SdrplayConcerned
    <3>6. Typed({device}) /\ All({device}, U, V)
      <4>1. U \in SUBSET S OBVIOUS
      <4>2. \A p \in U : W[p] = V[p] BY <1>3, <3>2
      <4> HIDE DEF U, V, W, S
      <4>3. QED BY <1>d, <3>2, <4>1, <4>2
    <3>7. <<"ppm", trim>> \in V["ppm"] /\ <<"freq", f>> \in V["freq"] BY <1>0, <1>5, <3>3
    <3>8. U \in SUBSET P /\ U1 \in SUBSET P /\ on \in BOOLEAN /\ "freq" \in P /\ "ppm" \in P
      <4> HIDE DEF S
      <4>1. QED BY <1>0, <1>3
    <3> HIDE DEF V, on, U, f, trim
    <3>9. Typed(ds1) /\ All(ds1, U1, V) BY <3>6, <3>7, <3>8, TellingIf
    <3> HIDE DEF ds1, U1
    <3>10. Typed(ds2) /\ All(ds2, U2, V) BY <3>7, <3>8, <3>9, TellingIf
    <3> HIDE DEF ds2, U2
    <3>11. DeviceTypes' /\ \A p \in U2 : Has(device', p, V[p]) BY <3>2, <3>4, <3>10, Reached
    <3>12. \A p \in T : Has(device', p, V[p]) BY <3>5, <3>11
    <3>13. QED BY <1>a, <3>2, <3>3, <3>11, <3>12 DEF V
  <2>6. QED BY <1>9, <2>1, <2>2, <2>3, <2>4, <2>5 DEF sdrplaySettings
<1>10. CASE deleteSdrplay
  <2>1. kind' = kind /\ place' \notin Constructed /\ device' = device
    BY <1>10 DEF deleteSdrplay, Deletes, Constructed
  <2>2. QED BY <2>1 DEF WidgetTypes, SdrplayInv, DeviceTypes
<1>11. QED BY <1>6, <1>7, <1>8, <1>9, <1>10

----------------------------------------------------------------------------
(* A tab of airspy tells the device all its gains, *)
TabValue(tab, g) == CASE tab = 0 -> Sensitivity
                      [] tab = 1 -> <<"linearity", shown["linearity"]>>
                      [] tab = 2 -> <<g, shown[g]>>

LEMMA TellingGain ==
    ASSUME kind = "airspy", NEW ds, NEW S \in SUBSET Params[kind], NEW V,
           Typed(ds), All(ds, S, V), NEW g, NEW v, g \in Gains => <<g, v>> \in V[g]
    PROVE  /\ Typed(ds \bullet If(g \in Gains, Told(g, v)))
           /\ All(ds \bullet If(g \in Gains, Told(g, v)), S \cup (Gains \cap {g}), V)
<1>1. CASE g \in Gains
  <2>1. g \in Params[kind] BY <1>1, AirspyTables
  <2>2. Typed(ds \bullet Told(g, v)) /\ All(ds \bullet Told(g, v), S \cup {g}, V)
    BY <1>1, <2>1, TellingOne
  <2>3. If(g \in Gains, Told(g, v)) = Told(g, v) /\ Gains \cap {g} = {g} BY <1>1 DEF If
  <2>4. QED BY <2>2, <2>3
<1>2. CASE g \notin Gains
  <2> DEFINE none == If(g \in Gains, Told(g, v))
  <2>1. DOMAIN <<>> = {} OBVIOUS
  <2>2. DOMAIN none = {} BY <1>2, <2>1 DEF If
  <2> HIDE DEF none
  <2>3. /\ DOMAIN none \subseteq Params[kind]
        /\ \A q \in S : IF q \in DOMAIN none THEN none[q] \in V[q] ELSE q \in S
    BY <2>2
  <2>4. Typed(ds \bullet none) /\ All(ds \bullet none, S, V) BY <2>3, Telling
  <2>5. S \cup (Gains \cap {g}) = S BY <1>2
  <2>6. QED BY <2>4, <2>5 DEF none
<1>3. QED BY <1>1, <1>2

LEMMA Tabs ==
    ASSUME kind = "airspy", NEW ds, NEW S \in SUBSET Params[kind], NEW V,
           Typed(ds), All(ds, S, V), NEW tab \in 0..2, \A g \in Gains : TabValue(tab, g) \in V[g]
    PROVE  Typed(TabGains(ds, tab)) /\ All(TabGains(ds, tab), S \cup Gains, V)
<1>0. Gains \subseteq Params[kind] /\ Gains \subseteq {"lna", "mixer", "vga"} BY AirspyTables
<1>1. ASSUME NEW call, DOMAIN call = Gains, \A g \in Gains : call[g] \in V[g]
      PROVE  Typed(ds \bullet call) /\ All(ds \bullet call, S \cup Gains, V)
  <2> DEFINE T == S \cup Gains
  <2>1. DOMAIN call \subseteq Params[kind] /\ T \in SUBSET Params[kind] BY <1>0, <1>1
  <2>2. \A p \in T : IF p \in DOMAIN call THEN call[p] \in V[p] ELSE p \in S BY <1>1
  <2> HIDE DEF T
  <2>3. Typed(ds \bullet call) /\ All(ds \bullet call, T, V) BY <2>1, <2>2, Telling
  <2>4. QED BY <2>3 DEF T
<1>2. CASE tab = 0
  <2> DEFINE call == AllGains("sensitivity", shown["sensitivity"])
  <2>1. DOMAIN call = Gains /\ \A g \in Gains : call[g] \in V[g]
    BY <1>2 DEF AllGains, TabValue, Sensitivity
  <2>2. TabGains(ds, tab) = ds \bullet call BY <1>2 DEF TabGains
  <2> HIDE DEF call
  <2>3. QED BY <1>1, <2>1, <2>2
<1>3. CASE tab = 1
  <2> DEFINE call == AllGains("linearity", shown["linearity"])
  <2>1. DOMAIN call = Gains /\ \A g \in Gains : call[g] \in V[g] BY <1>3 DEF AllGains, TabValue
  <2>2. TabGains(ds, tab) = ds \bullet call BY <1>3 DEF TabGains
  <2> HIDE DEF call
  <2>3. QED BY <1>1, <2>1, <2>2
<1>4. CASE tab = 2
  <2> DEFINE ds1 == ds \bullet If("vga" \in Gains, Told("vga", shown["vga"]))
             ds2 == ds1 \bullet If("mixer" \in Gains, Told("mixer", shown["mixer"]))
             ds3 == ds2 \bullet If("lna" \in Gains, Told("lna", shown["lna"]))
             S1 == S \cup (Gains \cap {"vga"})
             S2 == S1 \cup (Gains \cap {"mixer"})
             S3 == S2 \cup (Gains \cap {"lna"})
  <2>1. /\ "vga" \in Gains => <<"vga", shown["vga"]>> \in V["vga"]
        /\ "mixer" \in Gains => <<"mixer", shown["mixer"]>> \in V["mixer"]
        /\ "lna" \in Gains => <<"lna", shown["lna"]>> \in V["lna"]
    BY <1>4 DEF TabValue
  <2>2. S1 \in SUBSET Params[kind] /\ S2 \in SUBSET Params[kind] BY <1>0
  <2>3. Typed(ds1) /\ All(ds1, S1, V) BY <2>1, TellingGain
  <2> HIDE DEF ds1
  <2>4. Typed(ds2) /\ All(ds2, S2, V)
    <3>1. "mixer" \in Gains => <<"mixer", shown["mixer"]>> \in V["mixer"] BY <2>1
    <3>2. S1 \in SUBSET Params[kind] BY <2>2
    <3> HIDE DEF S1
    <3>3. QED BY <2>3, <3>1, <3>2, TellingGain
  <2> HIDE DEF ds2
  <2>5. Typed(ds3) /\ All(ds3, S3, V)
    <3>1. "lna" \in Gains => <<"lna", shown["lna"]>> \in V["lna"] BY <2>1
    <3>2. S2 \in SUBSET Params[kind] BY <2>2
    <3> HIDE DEF S2
    <3>3. QED BY <2>4, <3>1, <3>2, TellingGain
  <2>6. S3 = S \cup Gains BY <1>0
  <2>7. TabGains(ds, tab) = ds3 BY <1>4 DEF TabGains, ds1, ds2
  <2> HIDE DEF ds3, S3
  <2>8. QED BY <2>5, <2>6, <2>7
<1>5. QED BY <1>2, <1>3, <1>4

(* and nothing else. *)
LEMMA TabsLeave ==
    ASSUME kind = "airspy", NEW ds, NEW S \in SUBSET Params[kind], NEW V,
           S \cap Gains = {}, Typed(ds), All(ds, S, V), NEW tab \in 0..2
    PROVE  Typed(TabGains(ds, tab)) /\ All(TabGains(ds, tab), S, V)
<1> DEFINE V2 == [p \in Params[kind] |-> IF p \in Gains THEN {TabValue(tab, p)} ELSE V[p]]
<1>1. Gains \subseteq Params[kind] BY AirspyTables
<1>2. \A p \in S : V2[p] = V[p] OBVIOUS
<1>3. \A g \in Gains : TabValue(tab, g) \in V2[g] BY <1>1
<1> HIDE DEF V2
<1>4. All(ds, S, V2) BY <1>2 DEF All
<1>5. Typed(TabGains(ds, tab)) /\ All(TabGains(ds, tab), S \cup Gains, V2) BY <1>3, <1>4, Tabs
<1>6. All(TabGains(ds, tab), S, V) BY <1>2, <1>5 DEF All
<1>7. QED BY <1>5, <1>6

(* Airspy: whatever the order of its tabs, each gain is that of the tab shown
   or of the first; its bias is off at the end. *)
LEMMA AirspyKept ==
    ASSUME DeviceTypes, WidgetTypes, Untold, AirspyInv, kind = "airspy",
           airspyHandler \/ airspySetVFO \/ airspyRestart \/ airspySettings
    PROVE  DeviceTypes' /\ WidgetTypes' /\ AirspyInv'
<1> DEFINE P == Params[kind]
           Q == {"lna_agc", "mixer_agc", "rf_bias"}
           W == [p \in P |-> AirspyWants(p)]
           V == [p \in P |-> AirspyWants(p)']
           S == AirspyConcerned
           T == AirspyConcerned'
<1>0. P = Gains \cup {"lna_agc", "mixer_agc", "rf_bias", "freq"} BY AirspyTables
<1>1. LeftAlone[kind] = {"lna_agc", "mixer_agc", "rf_bias"} /\ Switches[kind] = {"rf_bias"}
  BY AirspyTables
<1>2. Widgets[kind] = Gains \cup {"linearity", "sensitivity", "freq", "lna_agc",
                                  "mixer_agc", "rf_bias", "tab", "currentTab"}
  BY AirspyTables
<1>g. Gains \subseteq {"lna", "mixer", "vga"} BY AirspyTables
<1>3. S \in SUBSET P /\ T \in SUBSET P BY <1>0 DEF AirspyConcerned
<1>4. \A p \in P \ Gains : <<p, shown'[p]>> \in V[p] BY DEF AirspyWants, Right
<1>5. /\ \A g \in Gains : V[g] = {Sensitivity', OfTheTab(g)'}
      /\ \A p \in P \ Gains : V[p] = Right(p)' /\ W[p] = Right(p)
  BY <1>0 DEF AirspyWants
<1>v. ASSUME NEW g \in Gains
      PROVE  Sensitivity' \in V[g] /\ OfTheTab(g)' \in V[g]
  <2>1. V[g] = {Sensitivity', OfTheTab(g)'} BY <1>5
  <2> HIDE DEF P, S, T, V, W
  <2>2. QED BY <2>1
<1>a. ASSUME kind' = kind, DeviceTypes', \A p \in T : Has(device', p, V[p]),
             DOMAIN shown' = Widgets[kind], shown'["rf_bias"] \in {0, 1},
             shown'["tab"] \in 0..2, shown'["currentTab"] \in {0, shown'["tab"]}
      PROVE  DeviceTypes' /\ WidgetTypes' /\ AirspyInv'
  <2>1. \A p \in T : Has(device', p, AirspyWants(p)') BY <1>3, <1>a
  <2>2. (\A p \in AirspyConcerned : Has(device, p, AirspyWants(p)))' BY <2>1 DEF Has
  <2>3. AirspyInv' BY <1>a, <2>2 DEF AirspyInv
  <2>4. WidgetTypes' BY <1>1, <1>a DEF WidgetTypes
  <2>5. QED BY <1>a, <2>3, <2>4
<1>b. ASSUME place \in Constructed
      PROVE  /\ \A p \in S : Has(device, p, W[p])
             /\ DOMAIN shown = Widgets[kind] /\ shown["rf_bias"] \in {0, 1}
             /\ shown["tab"] \in 0..2 /\ shown["currentTab"] \in {0, shown["tab"]}
  BY <1>1, <1>3, <1>b DEF AirspyInv, WidgetTypes
<1>c. ASSUME kind' = kind, place \in Constructed, NEW call, DOMAIN call \subseteq P, Tell(call),
             \A p \in T : IF p \in DOMAIN call THEN call[p] \in V[p] ELSE p \in S /\ W[p] = V[p]
      PROVE  DeviceTypes' /\ \A p \in T : Has(device', p, V[p])
  <2>1. \A p \in S : Has(device, p, W[p]) BY <1>b, <1>c
  <2>2. T \in SUBSET Params[kind] /\ DOMAIN call \subseteq Params[kind] BY <1>3, <1>c
  <2>3. \A p \in T : IF p \in DOMAIN call THEN call[p] \in V[p] ELSE p \in S /\ W[p] = V[p]
    BY <1>c
  <2>4. kind' = kind /\ Tell(call) BY <1>c
  <2>5. /\ DeviceTypes'
        /\ \A p \in Params[kind] : \A X :
              (IF p \in DOMAIN call THEN call[p] \in X ELSE Has(device, p, X)) => Has(device', p, X)
    BY <2>2, <2>4, OneAnswer
  <2>6. ASSUME NEW p \in T PROVE Has(device', p, V[p])
    <3> HIDE DEF P, S, T, V, W
    <3>1. IF p \in DOMAIN call THEN call[p] \in V[p] ELSE Has(device, p, V[p]) BY <2>1, <2>3, <2>6
    <3>2. p \in Params[kind] BY <2>2, <2>6
    <3>3. QED BY <2>5, <3>1, <3>2
  <2>7. QED BY <2>5, <2>6
<1>d. ASSUME place \in Constructed, NEW U \in SUBSET S, \A p \in U : W[p] = V[p]
      PROVE  Typed({device}) /\ All({device}, U, V)
  <2>1. \A p \in U : Has(device, p, V[p]) BY <1>b, <1>d
  <2> HIDE DEF V
  <2>2. QED BY <2>1, NothingSeen DEF All
<1>6. CASE airspyHandler
  <2>1. /\ Constructs("airspy", Gains \cup {"linearity", "sensitivity"},
                      [freq |-> 0, lna_agc |-> 0, mixer_agc |-> 0, rf_bias |-> 0,
                       tab |-> 2, currentTab |-> 0])
        /\ Tell(AllGains("sensitivity", Read("sensitivity")))
    BY <1>6 DEF airspyHandler
  <2>2. /\ kind' = kind /\ place' = "constructed" /\ place = "setup"
        /\ DOMAIN shown' = Widgets[kind] /\ shown'["sensitivity"] = Read("sensitivity")
        /\ shown'["rf_bias"] = 0 /\ shown'["tab"] = 2 /\ shown'["currentTab"] = 0
        /\ shown'["lna_agc"] = 0 /\ shown'["mixer_agc"] = 0
    <3> DEFINE others == [freq |-> 0, lna_agc |-> 0, mixer_agc |-> 0, rf_bias |-> 0,
                          tab |-> 2, currentTab |-> 0]
               own == Gains \cup {"linearity", "sensitivity"}
    <3>1. /\ kind' = kind /\ place' = "constructed" /\ place = "setup"
          /\ shown' = [p \in own \cup DOMAIN others |->
                          IF p \in own THEN Fits(p, Read(p), others) ELSE others[p]]
      BY <2>1 DEF Constructs
    <3>2. /\ DOMAIN others = {"freq", "lna_agc", "mixer_agc", "rf_bias", "tab", "currentTab"}
          /\ others["rf_bias"] = 0 /\ others["tab"] = 2 /\ others["currentTab"] = 0
          /\ others["lna_agc"] = 0 /\ others["mixer_agc"] = 0
      OBVIOUS
    <3> HIDE DEF others
    <3>3. DOMAIN shown' = Widgets[kind] BY <3>1, <3>2, <1>2
    <3>4. /\ shown'["rf_bias"] = 0 /\ shown'["tab"] = 2 /\ shown'["currentTab"] = 0
          /\ shown'["lna_agc"] = 0 /\ shown'["mixer_agc"] = 0
      BY <1>g, <3>1, <3>2
    <3>5. shown'["sensitivity"] = Read("sensitivity") BY <3>1 DEF Fits
    <3>6. QED BY <3>1, <3>3, <3>4, <3>5
  <2> DEFINE call == AllGains("sensitivity", Read("sensitivity"))
  <2>3. DOMAIN call = Gains /\ \A g \in Gains : call[g] = <<"sensitivity", Read("sensitivity")>>
    BY DEF AllGains
  <2>4. Tell(call) BY <2>1
  <2> HIDE DEF call
  <2>5. \A p \in Q : Has(device, p, V[p])
    <3>1. device = Fresh BY <2>2 DEF Untold
    <3>2. \A p \in Q : device.applied[p] = Untouched BY <3>1, <1>0 DEF Fresh
    <3>3. \A p \in Q : Untouched \in V[p]
      <4>1. \A p \in Q : Untouched \in Right(p)' BY <1>1, <2>2 DEF Right
      <4>2. Q \subseteq P \ Gains BY <1>0, <1>g
      <4> HIDE DEF P, Q, V, W
      <4>3. QED BY <1>5, <4>1, <4>2
    <3>4. QED BY <3>2, <3>3 DEF Has
  <2>6. \A g \in Gains : call[g] \in V[g]
    <3>1. \A g \in Gains : call[g] = Sensitivity' BY <2>2, <2>3 DEF Sensitivity
    <3> HIDE DEF P, S, T, V, W
    <3>2. QED BY <1>v, <3>1
  <2>7. T = Gains \cup Q BY <2>2 DEF AirspyConcerned
  <2>8. DOMAIN call \subseteq Params[kind] /\ T \in SUBSET Params[kind] BY <1>0, <1>3, <2>3
  <2>9. DeviceTypes' /\ \A p \in T : Has(device', p, V[p])
    <3>1. /\ DeviceTypes'
          /\ \A p \in Params[kind] : \A X :
                (IF p \in DOMAIN call THEN call[p] \in X ELSE Has(device, p, X)) => Has(device', p, X)
      BY <2>2, <2>4, <2>8, OneAnswer
    <3>2. ASSUME NEW p \in T PROVE Has(device', p, V[p])
      <4> HIDE DEF P, T, V, Q
      <4>1. IF p \in DOMAIN call THEN call[p] \in V[p] ELSE Has(device, p, V[p])
        BY <2>3, <2>5, <2>6, <2>7, <3>2
      <4>2. p \in Params[kind] BY <2>8, <3>2
      <4>3. QED BY <3>1, <4>1, <4>2
    <3>3. QED BY <3>1, <3>2
  <2>10. QED BY <1>a, <2>2, <2>9
(* A widget is changed, or a tab. *)
<1>s. ASSUME NEW q, q \in Widgets[kind], NEW v, place \in Constructed, kind' = kind,
             Show(q, v)
      PROVE  /\ DOMAIN shown' = Widgets[kind] /\ shown'[q] = v
             /\ \A p \in Widgets[kind] \ {q} : shown'[p] = shown[p]
             /\ \A p \in (P \ Gains) \ {q} : W[p] = V[p]
  <2>1. DOMAIN shown = Widgets[kind] BY <1>b, <1>s
  <2>2. /\ DOMAIN shown' = Widgets[kind] /\ shown'[q] = v
        /\ \A p \in Widgets[kind] \ {q} : shown'[p] = shown[p]
    BY <1>s, <2>1 DEF Show
  <2>3. \A p \in (P \ Gains) \ {q} : Right(p)' = Right(p) BY <1>0, <1>2, <1>s, <2>2 DEF Right
  <2>4. QED BY <1>5, <2>2, <2>3
<1>7. CASE airspySetVFO
  <2>1. PICK f \in Frequencies : Tuning("airspy") /\ Show("freq", f) /\ Tell(Told("freq", f))
    BY <1>7 DEF airspySetVFO, tuneDirectly
  <2>2. kind' = kind /\ place \in Constructed BY <2>1 DEF Tuning, Constructed
  <2>3. /\ DOMAIN shown' = Widgets[kind] /\ shown'["freq"] = f
        /\ \A p \in Widgets[kind] \ {"freq"} : shown'[p] = shown[p]
        /\ \A p \in (P \ Gains) \ {"freq"} : W[p] = V[p]
    BY <1>2, <1>s, <2>1, <2>2
  <2>4. /\ \A p \in Gains \cup {"rf_bias", "tab", "currentTab", "linearity", "sensitivity"} :
               shown'[p] = shown[p]
        /\ \A p \in Gains : W[p] = V[p]
    <3>1. \A p \in Gains \cup {"rf_bias", "tab", "currentTab", "linearity", "sensitivity"} :
             shown'[p] = shown[p]
      BY <1>2, <1>g, <2>3
    <3>2. \A p \in Gains : OfTheTab(p)' = OfTheTab(p) /\ Sensitivity' = Sensitivity
      <4>1. Sensitivity' = Sensitivity BY <3>1 DEF Sensitivity
      <4>2. /\ shown'["tab"] = shown["tab"] /\ shown'["linearity"] = shown["linearity"]
            /\ \A p \in Gains : shown'[p] = shown[p]
        BY <3>1
      <4>3. \A p \in Gains : OfTheTab(p)' = OfTheTab(p) BY <4>1, <4>2 DEF OfTheTab
      <4>4. QED BY <4>1, <4>3
    <3>3. \A p \in Gains : W[p] = {Sensitivity, OfTheTab(p)} BY <1>0 DEF AirspyWants
    <3>4. \A p \in Gains : V[p] = {Sensitivity', OfTheTab(p)'} BY <1>5
    <3> HIDE DEF P, V, W
    <3>5. \A p \in Gains : W[p] = V[p] BY <3>2, <3>3, <3>4
    <3>6. QED BY <3>1, <3>5
  <2> DEFINE call == Told("freq", f)
  <2>5. DOMAIN call = {"freq"} /\ call["freq"] = <<"freq", f>> BY ToldIs
  <2>6. Tell(call) BY <2>1
  <2> HIDE DEF call
  <2>7. call["freq"] \in V["freq"] 
    <3>1. "freq" \in P \ Gains BY <1>0, <1>g
    <3>2. <<"freq", shown'["freq"]>> \in V["freq"] BY <1>4, <3>1
    <3> HIDE DEF V
    <3>3. QED BY <2>3, <2>5, <3>2
  <2>8. \A p \in T : IF p \in DOMAIN call THEN call[p] \in V[p] ELSE p \in S /\ W[p] = V[p]
    <3>1. \A p \in T \ {"freq"} : p \in S BY DEF AirspyConcerned
    <3> HIDE DEF P, S, T, V, W
    <3>2. QED BY <1>3, <2>3, <2>4, <2>5, <2>7, <3>1
  <2>9. DOMAIN call \subseteq P BY <1>0, <2>5
  <2>10. DeviceTypes' /\ \A p \in T : Has(device', p, V[p]) BY <1>c, <2>2, <2>6, <2>8, <2>9
  <2>11. /\ shown'["rf_bias"] \in {0, 1} /\ shown'["tab"] \in 0..2
         /\ shown'["currentTab"] \in {0, shown'["tab"]}
    BY <1>b, <2>2, <2>4
  <2>12. QED BY <1>a, <2>2, <2>3, <2>10, <2>11
<1>8. CASE airspyRestart
  <2> DEFINE current == shown["currentTab"]
             ds1 == TabGains({device}, current)
             ds2 == TabGains(ds1, 1)
             ds3 == TabGains(ds2, 0)
             U == S \ Gains
  <2>1. /\ kind' = kind /\ place \in Constructed /\ place # "constructed" /\ shown' = shown
        /\ place' # "constructed"
    BY <1>8 DEF airspyRestart, Starting, Begins, Fails, Constructed
  <2>2. V = W /\ T = S BY <2>1 DEF AirspyWants, AirspyConcerned, Right, Sensitivity, OfTheTab
  <2>3. device' \in ds1 \/ device' \in ds3 BY <1>8 DEF airspyRestart
  <2>4. Typed({device}) /\ All({device}, U, V)
    <3>1. U \in SUBSET S OBVIOUS
    <3> HIDE DEF U, V, W, S
    <3>2. QED BY <1>d, <2>1, <2>2, <3>1
  <2>5. current \in 0..2 /\ current \in {0, shown["tab"]} BY <1>b, <2>1
  <2>6. \A g \in Gains : TabValue(0, g) \in V[g] /\ TabValue(current, g) \in V[g]
    <3>1. \A g \in Gains : V[g] = {Sensitivity, OfTheTab(g)} BY <1>0, <2>2 DEF AirspyWants
    <3>2. \A g \in Gains : TabValue(0, g) = Sensitivity BY DEF TabValue
    <3>3. \A g \in Gains : TabValue(shown["tab"], g) = OfTheTab(g) BY DEF TabValue, OfTheTab
    <3> HIDE DEF V
    <3>4. QED BY <2>5, <3>1, <3>2, <3>3
  <2>7. U \in SUBSET Params[kind] /\ U \cap Gains = {} /\ T \subseteq U \cup Gains
    BY <1>3, <2>2
  <2> HIDE DEF U, V, current
  <2>8. Typed(ds1) /\ All(ds1, U \cup Gains, V) BY <2>4, <2>5, <2>6, <2>7, Tabs
  <2>9. Typed(ds1) /\ All(ds1, U, V) BY <2>8 DEF All
  <2> HIDE DEF ds1
  <2>10. Typed(ds2) /\ All(ds2, U, V)
    <3>1. 1 \in 0..2 OBVIOUS
    <3>2. QED BY <2>7, <2>9, <3>1, TabsLeave
  <2> HIDE DEF ds2
  <2>11. Typed(ds3) /\ All(ds3, U \cup Gains, V)
    <3>1. 0 \in 0..2 OBVIOUS
    <3>2. \A g \in Gains : TabValue(0, g) \in V[g] BY <2>6
    <3>3. QED BY <2>7, <2>10, <3>1, <3>2, Tabs
  <2> HIDE DEF ds3
  <2>12. DeviceTypes' /\ \A p \in U \cup Gains : Has(device', p, V[p])
    <3>1. CASE device' \in ds1 BY <2>1, <2>8, <3>1, Reached
    <3>2. CASE device' \in ds3 BY <2>1, <2>11, <3>2, Reached
    <3>3. QED BY <2>3, <3>1, <3>2
  <2>13. \A p \in T : Has(device', p, V[p]) BY <2>7, <2>12
  <2>14. QED BY <1>a, <1>b, <2>1, <2>12, <2>13 DEF V
<1>9. CASE airspySettings
  <2>0. kind' = kind /\ place \in Constructed /\ place' = place /\ place # "constructed"
    BY <1>9 DEF airspySettings, set_sensitivity, set_linearity, set_gain, show_tab, airspySwitch,
                Sets, Setting, Constructed, life
  <2>s. T = S /\ T = Gains \cup {"lna_agc", "mixer_agc", "rf_bias", "freq"}
    BY <2>0 DEF AirspyConcerned
  (* One call, that tells what is new of the gains. *)
  <2>b. ASSUME NEW q, q \in Widgets[kind] \ {"tab", "currentTab"}, NEW v, Show(q, v),
               NEW call, DOMAIN call \subseteq P, Tell(call),
               \A p \in DOMAIN call : call[p] \in V[p],
               \A g \in Gains : g \in DOMAIN call \/ W[g] = V[g],
               q \in P \ Gains => q \in DOMAIN call,
               q = "rf_bias" => v \in {0, 1}
        PROVE  DeviceTypes' /\ WidgetTypes' /\ AirspyInv'
    <3>1. /\ DOMAIN shown' = Widgets[kind] /\ shown'[q] = v
          /\ \A p \in Widgets[kind] \ {q} : shown'[p] = shown[p]
          /\ \A p \in (P \ Gains) \ {q} : W[p] = V[p]
      BY <1>s, <2>0, <2>b
    <3>2. \A p \in T : IF p \in DOMAIN call THEN call[p] \in V[p] ELSE p \in S /\ W[p] = V[p]
      <4>1. T \subseteq P BY <1>3
      <4> HIDE DEF P, S, T, V, W
      <4>2. QED BY <2>s, <2>b, <3>1, <4>1
    <3>3. DeviceTypes' /\ \A p \in T : Has(device', p, V[p]) BY <1>c, <2>0, <2>b, <3>2
    <3>4. shown'["tab"] = shown["tab"] /\ shown'["currentTab"] = shown["currentTab"]
      BY <1>2, <2>b, <3>1
    <3>5. shown'["rf_bias"] \in {0, 1} BY <1>2, <1>b, <2>0, <2>b, <3>1
    <3>6. QED BY <1>a, <1>b, <2>0, <3>1, <3>3, <3>4, <3>5
  <2>1. CASE set_sensitivity \/ set_linearity
    <3>1. PICK q \in {"sensitivity", "linearity"}, v \in Positions :
            /\ Show(q, v) /\ Tell(AllGains(q, v))
            /\ shown["tab"] = IF q = "sensitivity" THEN 0 ELSE 1
      BY <2>1 DEF set_sensitivity, set_linearity, Sets
    <3> DEFINE call == AllGains(q, v)
    <3>2. DOMAIN call = Gains /\ \A g \in Gains : call[g] = <<q, v>> BY DEF AllGains
    <3>3. Tell(call) BY <3>1
    <3> HIDE DEF call
    <3>4. shown'[q] = v /\ shown'["tab"] = shown["tab"] BY <1>2, <1>s, <2>0, <3>1
    <3>5. \A g \in Gains : <<q, v>> = OfTheTab(g)' BY <3>1, <3>4 DEF OfTheTab, Sensitivity
    <3>6. \A p \in DOMAIN call : call[p] \in V[p]
      <4> HIDE DEF P, S, T, V, W
      <4>1. ASSUME NEW g \in Gains PROVE call[g] \in V[g]
        <5>1. call[g] = <<q, v>> BY <3>2
        <5>2. call[g] = OfTheTab(g)' BY <3>5, <5>1
        <5>3. OfTheTab(g)' \in V[g] BY <1>v
        <5>4. QED BY <5>2, <5>3
      <4>2. QED BY <3>2, <4>1
    <3>7. /\ DOMAIN call \subseteq P /\ q \notin P /\ q \in Widgets[kind] \ {"tab", "currentTab"}
          /\ q # "rf_bias" /\ \A g \in Gains : g \in DOMAIN call
      BY <1>0, <1>2, <1>g, <3>2
    <3> HIDE DEF P, S, T, V, W
    <3>8. QED BY <2>b, <3>1, <3>3, <3>6, <3>7
  <2>2. CASE set_gain
    <3>1. PICK q \in Gains, v \in Positions :
            Show(q, v) /\ shown["tab"] = 2 /\ Tell(Told(q, v))
      BY <2>2 DEF set_gain, Sets
    <3> DEFINE call == Told(q, v)
    <3>2. DOMAIN call = {q} /\ call[q] = <<q, v>> BY ToldIs
    <3>3. Tell(call) BY <3>1
    <3> HIDE DEF call
    <3>4. q \in Widgets[kind] \ {"tab", "currentTab"} /\ q \notin {"rf_bias", "sensitivity"}
          /\ q \in P
      BY <1>0, <1>2, <1>g
    <3>5. /\ shown'[q] = v /\ \A p \in Widgets[kind] \ {q} : shown'[p] = shown[p]
      BY <1>s, <2>0, <3>1, <3>4
    <3>6. shown'["tab"] = 2 /\ shown'["sensitivity"] = shown["sensitivity"]
      BY <1>2, <3>1, <3>4, <3>5
    <3>7. <<q, v>> = OfTheTab(q)' BY <3>5, <3>6 DEF OfTheTab
    <3>8. \A g \in Gains \ {q} : OfTheTab(g)' = OfTheTab(g) /\ Sensitivity' = Sensitivity
      BY <1>2, <3>1, <3>5, <3>6 DEF OfTheTab, Sensitivity
    <3>9. \A g \in Gains : W[g] = {Sensitivity, OfTheTab(g)} BY <1>0 DEF AirspyWants
    <3>10. \A g \in Gains : V[g] = {Sensitivity', OfTheTab(g)'} BY <1>5
    <3> HIDE DEF P, S, T, V, W
    <3>11. /\ \A p \in DOMAIN call : call[p] \in V[p]
           /\ \A g \in Gains : g \in DOMAIN call \/ W[g] = V[g]
      BY <3>2, <3>7, <3>8, <3>9, <3>10
    <3>12. DOMAIN call \subseteq P BY <3>2, <3>4
    <3>13. Show(q, v) BY <3>1
    <3>14. q \in P \ Gains => q \in DOMAIN call OBVIOUS
    <3>15. QED BY <2>b, <3>3, <3>4, <3>11, <3>12, <3>13, <3>14
  <2>3. CASE show_tab
    <3>1. PICK t \in 0..2 :
            /\ shown' = [shown EXCEPT !["tab"] = t, !["currentTab"] = t]
            /\ device' \in TabGains({device}, t)
      BY <2>3 DEF show_tab
    <3> DEFINE U == S \ Gains
               ds == TabGains({device}, t)
    <3>2. DOMAIN shown = Widgets[kind] /\ shown["rf_bias"] \in {0, 1} BY <1>b, <2>0
    <3>3. /\ DOMAIN shown' = Widgets[kind] /\ shown'["tab"] = t /\ shown'["currentTab"] = t
          /\ \A p \in Widgets[kind] \ {"tab", "currentTab"} : shown'[p] = shown[p]
      BY <1>2, <3>1, <3>2
    <3>4. \A g \in Gains : TabValue(t, g) = OfTheTab(g)'
      <4>1. /\ shown'["sensitivity"] = shown["sensitivity"]
            /\ shown'["linearity"] = shown["linearity"]
            /\ \A g \in Gains : shown'[g] = shown[g]
        BY <1>2, <1>g, <3>3
      <4>2. QED BY <3>3, <4>1 DEF TabValue, OfTheTab, Sensitivity
    <3>5. \A g \in Gains : TabValue(t, g) \in V[g]
      <4> HIDE DEF P, S, T, V, W
      <4>1. ASSUME NEW g \in Gains PROVE TabValue(t, g) \in V[g]
        <5>1. TabValue(t, g) = OfTheTab(g)' BY <3>4
        <5>2. OfTheTab(g)' \in V[g] BY <1>v
        <5>3. QED BY <5>1, <5>2
      <4>2. QED BY <4>1
    <3>6. \A p \in U : W[p] = V[p]
      <4>1. \A p \in P \ Gains : Right(p)' = Right(p) BY <1>0, <1>2, <2>0, <3>3 DEF Right
      <4>2. U \subseteq P \ Gains BY <1>3
      <4> HIDE DEF P, S, U, V, W
      <4>3. QED BY <1>5, <4>1, <4>2
    <3>7. Typed({device}) /\ All({device}, U, V)
      <4>1. U \in SUBSET S OBVIOUS
      <4> HIDE DEF U, V, W, S
      <4>2. QED BY <1>d, <2>0, <3>6, <4>1
    <3>8. U \in SUBSET Params[kind] /\ T \subseteq U \cup Gains BY <1>3, <2>s
    <3> HIDE DEF U, V
    <3>9. Typed(ds) /\ All(ds, U \cup Gains, V) BY <3>5, <3>7, <3>8, Tabs
    <3>10. device' \in ds BY <3>1
    <3> HIDE DEF ds
    <3>11. DeviceTypes' /\ \A p \in U \cup Gains : Has(device', p, V[p])
      BY <2>0, <3>9, <3>10, Reached
    <3>12. \A p \in T : Has(device', p, V[p]) BY <3>8, <3>11
    <3>13. shown'["rf_bias"] \in {0, 1} BY <1>2, <3>2, <3>3
    <3>14. QED BY <1>a, <2>0, <3>3, <3>11, <3>12, <3>13 DEF V
  <2>4. CASE airspySwitch
    <3>1. PICK q \in Q : Show(q, 1 - shown[q]) /\ Tell(Told(q, 1 - shown[q]))
      BY <2>4 DEF airspySwitch, Sets
    <3> DEFINE v == 1 - shown[q]
               call == Told(q, v)
    <3>2. DOMAIN call = {q} /\ call[q] = <<q, v>> BY ToldIs
    <3>3. Tell(call) /\ Show(q, v) BY <3>1
    <3>4. q = "rf_bias" => v \in {0, 1} BY <1>b, <2>0
    <3> HIDE DEF call, v
    <3>5. q \in Widgets[kind] \ {"tab", "currentTab"} /\ q \in P \ Gains /\ q \notin Gains
      BY <1>0, <1>2, <1>g
    <3>6. /\ shown'[q] = v /\ \A p \in Widgets[kind] \ {q} : shown'[p] = shown[p]
      BY <1>s, <2>0, <3>3, <3>5
    <3>7. /\ shown'["tab"] = shown["tab"] /\ shown'["sensitivity"] = shown["sensitivity"]
          /\ shown'["linearity"] = shown["linearity"] /\ \A g \in Gains : shown'[g] = shown[g]
      BY <1>2, <3>5, <3>6
    <3>8. \A g \in Gains : OfTheTab(g)' = OfTheTab(g) /\ Sensitivity' = Sensitivity
      BY <3>7 DEF OfTheTab, Sensitivity
    <3>9. \A g \in Gains : W[g] = {Sensitivity, OfTheTab(g)} BY <1>0 DEF AirspyWants
    <3>10. \A g \in Gains : V[g] = {Sensitivity', OfTheTab(g)'} BY <1>5
    <3>11. <<q, v>> \in V[q] BY <1>4, <3>5, <3>6
    <3> HIDE DEF P, S, T, V, W
    <3>12. /\ \A p \in DOMAIN call : call[p] \in V[p]
           /\ \A g \in Gains : W[g] = V[g]
      BY <3>2, <3>8, <3>9, <3>10, <3>11
    <3>13. DOMAIN call \subseteq P /\ q \in DOMAIN call BY <3>2, <3>5
    <3>14. QED BY <2>b, <3>3, <3>4, <3>5, <3>12, <3>13
  <2>5. QED BY <1>9, <2>1, <2>2, <2>3, <2>4 DEF airspySettings
<1>10. QED BY <1>6, <1>7, <1>8, <1>9

(* At the end its bias is switched off. *)
LEMMA AirspyEnds ==
    ASSUME DeviceTypes, WidgetTypes, AirspyInv, kind = "airspy", deleteAirspy
    PROVE  DeviceTypes' /\ WidgetTypes' /\ AirspyInv' /\ BiasOff'
<1>0. /\ "rf_bias" \in Params[kind] /\ LeftAlone[kind] = {"lna_agc", "mixer_agc", "rf_bias"}
      /\ Switches[kind] = {"rf_bias"} /\ Gains \subseteq {"lna", "mixer", "vga"}
  BY AirspyTables
<1>1. /\ kind' = kind /\ place' = "over" /\ place \in Constructed
      /\ Tell(If(shown["rf_bias"] = 1, Told("rf_bias", 0)))
  BY DEF deleteAirspy, Deletes, Constructed
<1>2. shown["rf_bias"] \in {0, 1} BY <1>0, <1>1 DEF WidgetTypes
<1>3. Has(device, "rf_bias", Right("rf_bias"))
  BY <1>0, <1>1 DEF AirspyInv, AirspyConcerned, AirspyWants
<1> DEFINE call == If(shown["rf_bias"] = 1, Told("rf_bias", 0))
           V == {Untouched, <<"rf_bias", 0>>}
<1>4. /\ DOMAIN call = IF shown["rf_bias"] = 1 THEN {"rf_bias"} ELSE {}
      /\ shown["rf_bias"] = 1 => call["rf_bias"] = <<"rf_bias", 0>>
  <2>1. DOMAIN Told("rf_bias", 0) = {"rf_bias"} /\ Told("rf_bias", 0)["rf_bias"] = <<"rf_bias", 0>>
    BY ToldIs
  <2>2. DOMAIN <<>> = {} OBVIOUS
  <2>3. QED BY <2>1, <2>2 DEF If
<1>5. Tell(call) BY <1>1
<1> HIDE DEF call
<1>6. DOMAIN call \subseteq Params[kind] BY <1>0, <1>4
<1>7. /\ DeviceTypes'
      /\ \A p \in Params[kind] : \A X :
            (IF p \in DOMAIN call THEN call[p] \in X ELSE Has(device, p, X)) => Has(device', p, X)
  BY <1>1, <1>5, <1>6, OneAnswer
<1>8. shown["rf_bias"] = 0 => Has(device, "rf_bias", V) BY <1>0, <1>3 DEF Has, Right
<1>9. IF "rf_bias" \in DOMAIN call THEN call["rf_bias"] \in V ELSE Has(device, "rf_bias", V)
  BY <1>2, <1>4, <1>8
<1> HIDE DEF V
<1>10. Has(device', "rf_bias", V) BY <1>0, <1>7, <1>9
<1>11. BiasOff' BY <1>10 DEF BiasOff, Has, V
<1>12. place' \notin Constructed BY <1>1 DEF Constructed
<1>13. QED BY <1>7, <1>11, <1>12 DEF WidgetTypes, AirspyInv

----------------------------------------------------------------------------
(* Whose action it is that has a name of its own for each handler, and what
   becomes of life in it. *)
LEMMA StepsAre ==
    ASSUME kind \in Kinds
    PROVE  /\ Len(Steps) \in 1..5
           /\ \A i \in 1..Len(Steps) : Steps[i].gets \subseteq {"api", "device", "buffer"}
<1> USE DEF Steps, SetupOf, Step
<1>1. kind \in {"airspy", "hackrf", "lime", "pluto", "dabstick", "sdrplay"}
  BY SettingsAssumption DEF SettingsAssumption
<1>2. CASE kind = "airspy"
  <2>1. Len(airspySetup) = 4 BY DEF airspySetup
  <2>2. /\ airspySetup[1].gets = {} /\ airspySetup[2].gets = {}
        /\ airspySetup[3].gets = {"api"} /\ airspySetup[4].gets = {"device"}
    BY DEF airspySetup, load_airspyFunctions
  <2>3. Steps = airspySetup BY <1>2
  <2>4. QED BY <2>1, <2>2, <2>3
<1>3. CASE kind = "hackrf" BY <1>3 DEF hackrfSetup, load_hackrfFunctions
<1>4. CASE kind = "lime" BY <1>4 DEF limeSetup, load_limeFunctions
<1>5. CASE kind = "pluto" BY <1>5 DEF plutoSetup, load_plutoFunctions, cfg_ad9361
<1>6. CASE kind = "dabstick"
  <2>1. Len(rtlsdrSetup) = 5 BY DEF rtlsdrSetup
  <2>2. /\ rtlsdrSetup[1].gets = {} /\ rtlsdrSetup[2].gets = {} /\ rtlsdrSetup[3].gets = {}
        /\ rtlsdrSetup[4].gets = {"device"} /\ rtlsdrSetup[5].gets = {}
    BY DEF rtlsdrSetup, load_rtlFunctions
  <2>3. Steps = rtlsdrSetup BY <1>6
  <2>4. QED BY <2>1, <2>2, <2>3
<1>7. CASE kind = "sdrplay" BY <1>7 DEF sdrplaySetup, load_mirFunctions
<1>8. QED BY <1>1, <1>2, <1>3, <1>4, <1>5, <1>6, <1>7

airspyActs   == airspyHandler \/ airspySetVFO \/ airspyRestart \/ airspySettings \/ deleteAirspy
hackrfActs   == hackrfHandler \/ hackrfSetVFO \/ hackrfRestart \/ hackrfSettings \/ deleteHackrf
limeActs     == limeHandler \/ limeSetVFO \/ limeRestart \/ limeSettings \/ deleteLime
plutoActs    == plutoHandler \/ plutoSetVFO \/ plutoRestart \/ plutoSettings \/ deletePluto
rtlsdrActs   == rtlsdrHandler \/ rtlsdrSetVFO \/ rtlsdrRestart \/ rtlsdrSettings \/ deleteRtlsdr
sdrplayActs  == sdrplayHandler \/ sdrplaySetVFO \/ sdrplayRestart \/ sdrplaySettings \/ deleteSdrplay

LEMMA Whose ==
    ASSUME Construct \/ SetVFO \/ Restart \/ Set \/ Delete
    PROVE  /\ kind' = kind
           /\ \/ kind = "airspy" /\ airspyActs
              \/ kind = "hackrf" /\ hackrfActs
              \/ kind = "lime" /\ limeActs
              \/ kind = "pluto" /\ plutoActs
              \/ kind = "dabstick" /\ rtlsdrActs
              \/ kind = "sdrplay" /\ sdrplayActs
<1> USE DEF airspyActs, hackrfActs, limeActs, plutoActs, rtlsdrActs, sdrplayActs
<1>1. CASE Construct
  BY <1>1 DEF Construct, Constructs, airspyHandler, hackrfHandler, limeHandler, plutoHandler,
              rtlsdrHandler, sdrplayHandler
<1>2. CASE SetVFO
  BY <1>2 DEF SetVFO, Tuning, tuneDirectly, airspySetVFO, hackrfSetVFO, limeSetVFO, plutoSetVFO,
              rtlsdrSetVFO, sdrplaySetVFO
<1>3. CASE Restart
  BY <1>3 DEF Restart, Starting, airspyRestart, hackrfRestart, limeRestart, plutoRestart,
              rtlsdrRestart, sdrplayRestart
<1>4. CASE Set
  <2>1. CASE airspySettings
    BY <2>1 DEF airspySettings, set_sensitivity, set_linearity, set_gain, show_tab, airspySwitch,
                Sets, Setting, life
  <2>2. CASE hackrfSettings BY <2>2 DEF hackrfSettings, hackrfSets, Sets, Setting, life
  <2>3. CASE limeSettings BY <2>3 DEF limeSettings, Sets, Setting, life
  <2>4. CASE plutoSettings
    BY <2>4 DEF plutoSettings, set_gainControl, set_agcControl, Setting, life
  <2>5. CASE rtlsdrSettings
    BY <2>5 DEF rtlsdrSettings, set_gainSlider, freqCorrection, setKhzOffset, setHzOffset,
                set_Agc, set_biasControl, Sets, Setting, life
  <2>6. CASE sdrplaySettings
    BY <2>6 DEF sdrplaySettings, set_ifgainReduction, set_lnagainReduction, agcControl_toggled,
                set_ppmControl, set_antennaSelect, biasT_selectorHandler, Sets, Setting, life
  <2>7. QED BY <1>4, <2>1, <2>2, <2>3, <2>4, <2>5, <2>6 DEF Set
<1>5. CASE Delete
  BY <1>5 DEF Delete, Deletes, deleteAirspy, deleteHackrf, deleteLime, deletePluto,
              deleteRtlsdr, deleteSdrplay
<1>6. QED BY <1>1, <1>2, <1>3, <1>4, <1>5

LEMMA ConstructLives ==
    ASSUME Construct
    PROVE  /\ place = "setup" /\ place' = "constructed" /\ kind' = kind
           /\ UNCHANGED <<stage, held, saved, remembered>>
           /\ \A p \in Kept[kind] : shown'[p] = Fits(p, Read(p), shown')
<1>1. ASSUME NEW k, NEW ps, NEW others, Constructs(k, ps, others), Kept[k] \subseteq ps,
             k \notin {"dabstick", "sdrplay"}
      PROVE  /\ place = "setup" /\ place' = "constructed" /\ kind' = kind
             /\ UNCHANGED <<stage, held, saved, remembered>>
             /\ \A p \in Kept[kind] : shown'[p] = Fits(p, Read(p), shown')
  <2>1. /\ kind = k /\ place = "setup" /\ place' = "constructed" /\ kind' = kind
        /\ UNCHANGED <<stage, held, saved, remembered>>
        /\ \A p \in ps : shown'[p] = Fits(p, Read(p), others)
    BY <1>1 DEF Constructs
  <2>2. \A p : Fits(p, Read(p), others) = Fits(p, Read(p), shown') BY <1>1, <2>1 DEF Fits
  <2>3. QED BY <1>1, <2>1, <2>2
<1>2. CASE airspyHandler
  <2>1. Kept["airspy"] \subseteq Gains \cup {"linearity", "sensitivity"} BY DEF Kept
  <2>2. QED BY <1>1, <1>2, <2>1 DEF airspyHandler
<1>3. CASE hackrfHandler
  <2>1. Kept["hackrf"] \subseteq {"lna", "vga", "antenna", "amp", "ppm"} BY DEF Kept
  <2>2. QED BY <1>1, <1>3, <2>1 DEF hackrfHandler
<1>4. CASE limeHandler
  <2>1. Kept["lime"] \subseteq {"antenna", "gain"} BY DEF Kept
  <2>2. QED BY <1>1, <1>4, <2>1 DEF limeHandler
<1>5. CASE plutoHandler
  <2>1. Kept["pluto"] \subseteq {"gain"} BY DEF Kept
  <2>2. QED BY <1>1, <1>5, <2>1 DEF plutoHandler
<1>6. CASE rtlsdrHandler
  <2> DEFINE own == {"gain", "ppm", "KhzOffset", "HzOffset"}
  <2>1. kind = "dabstick" /\ Kept[kind] = own BY <1>6 DEF rtlsdrHandler, Constructs, Kept
  <2>2. PICK biasTee \in {0, 1}, count \in GainsCounts :
           LET gain  == Cut(Read("gain"), count)
               takes == gain \in 1..count - 1
           IN  Constructs("dabstick", own,
                  [freq |-> 0, agc |-> 0, bias |-> 0, biasTee |-> biasTee, gainsCount |-> count,
                   vfoOffset |-> Khz * Read("KhzOffset") + Read("HzOffset"),
                   oldGain |-> IF takes THEN gain ELSE 0])
    BY <1>6 DEF rtlsdrHandler
  <2> DEFINE gain  == Cut(Read("gain"), count)
             takes == gain \in 1..count - 1
             old == IF takes THEN gain ELSE 0
             off == Khz * Read("KhzOffset") + Read("HzOffset")
             others == [freq |-> 0, agc |-> 0, bias |-> 0, biasTee |-> biasTee,
                        gainsCount |-> count, vfoOffset |-> off, oldGain |-> old]
  <2>3. Constructs("dabstick", own, others) BY <2>2
  <2> HIDE DEF gain, takes, old, off
  <2>4. "gainsCount" \in DOMAIN others \ own /\ others["gainsCount"] = count OBVIOUS
  <2> HIDE DEF others
  <2>5. /\ place = "setup" /\ place' = "constructed" /\ kind' = kind
        /\ UNCHANGED <<stage, held, saved, remembered>>
        /\ \A p \in own : shown'[p] = Fits(p, Read(p), others)
        /\ shown'["gainsCount"] = count
    BY <2>3, <2>4 DEF Constructs
  <2>6. \A p : Fits(p, Read(p), others) = Fits(p, Read(p), shown') BY <2>1, <2>4, <2>5 DEF Fits
  <2>7. QED BY <2>1, <2>5, <2>6
<1>7. CASE sdrplayHandler
  <2> DEFINE own == {"GRdB", "lna", "agc", "ppm"}
  <2>1. kind = "sdrplay" /\ Kept[kind] = own BY <1>7 DEF sdrplayHandler, Constructs, Kept
  <2>2. PICK hwVersion \in Versions :
           Constructs("sdrplay", own,
                      [freq |-> 0, bias |-> 0, antenna |-> 0, hwVersion |-> hwVersion])
    BY <1>7 DEF sdrplayHandler
  <2> DEFINE others == [freq |-> 0, bias |-> 0, antenna |-> 0, hwVersion |-> hwVersion]
  <2>3. Constructs("sdrplay", own, others) BY <2>2
  <2>4. "hwVersion" \in DOMAIN others \ own /\ others["hwVersion"] = hwVersion OBVIOUS
  <2> HIDE DEF others
  <2>5. /\ place = "setup" /\ place' = "constructed" /\ kind' = kind
        /\ UNCHANGED <<stage, held, saved, remembered>>
        /\ \A p \in own : shown'[p] = Fits(p, Read(p), others)
        /\ shown'["hwVersion"] = hwVersion
    BY <2>3, <2>4 DEF Constructs
  <2>6. \A p : Fits(p, Read(p), others) = Fits(p, Read(p), shown') BY <2>1, <2>4, <2>5 DEF Fits
  <2>7. QED BY <2>1, <2>5, <2>6
<1>8. QED BY <1>2, <1>3, <1>4, <1>5, <1>6, <1>7 DEF Construct

LEMMA SetVFOLives ==
    ASSUME SetVFO
    PROVE  /\ place \in {"constructed", "running", "stopped", "refused"}
           /\ place' = IF place = "constructed" THEN "tuned" ELSE place
           /\ UNCHANGED <<kind, stage, held, saved, remembered>>
  BY DEF SetVFO, Tuning, tuneDirectly, airspySetVFO, hackrfSetVFO, limeSetVFO, plutoSetVFO,
         rtlsdrSetVFO, sdrplaySetVFO

LEMMA RestartLives ==
    ASSUME Restart
    PROVE  /\ place \in {"tuned", "stopped"} /\ UNCHANGED <<kind, stage, held>>
           /\ Begins \/ Fails
  BY DEF Restart, Starting, airspyRestart, hackrfRestart, limeRestart, plutoRestart,
         rtlsdrRestart, sdrplayRestart

LEMMA SetLives ==
    ASSUME Set
    PROVE  place \in {"running", "stopped", "refused"} /\ UNCHANGED life
<1>1. CASE airspySettings
  BY <1>1 DEF airspySettings, set_sensitivity, set_linearity, set_gain, show_tab, airspySwitch,
              Sets, Setting
<1>2. CASE hackrfSettings BY <1>2 DEF hackrfSettings, hackrfSets, Sets, Setting
<1>3. CASE limeSettings BY <1>3 DEF limeSettings, Sets, Setting
<1>4. CASE plutoSettings BY <1>4 DEF plutoSettings, set_gainControl, set_agcControl, Setting
<1>5. CASE rtlsdrSettings
  BY <1>5 DEF rtlsdrSettings, set_gainSlider, freqCorrection, setKhzOffset, setHzOffset,
              set_Agc, set_biasControl, Sets, Setting
<1>6. CASE sdrplaySettings
  BY <1>6 DEF sdrplaySettings, set_ifgainReduction, set_lnagainReduction, agcControl_toggled,
              set_ppmControl, set_antennaSelect, biasT_selectorHandler, Sets, Setting
<1>7. QED BY <1>1, <1>2, <1>3, <1>4, <1>5, <1>6 DEF Set

(* What a destructor writes is what is remembered; of hackrf nothing is. *)
LEMMA DeleteLives ==
    ASSUME WidgetTypes, RtlsdrInv, Delete
    PROVE  /\ place' \in {"over", "ended"} /\ held' = {} /\ UNCHANGED <<kind, stage>>
           /\ Remembers' /\ SavedRanges'
<1>1. ASSUME NEW ps, Kept[kind] \subseteq ps, Writes(ps), kind' = kind,
             place \in {"running", "stopped"}
      PROVE  Remembers' /\ SavedRanges'
  <2>1. /\ DOMAIN saved' = ps /\ \A p \in ps : saved'[p] = shown[p]
        /\ DOMAIN remembered' = Kept[kind] /\ \A p \in Kept[kind] : remembered'[p] = shown[p]
    BY <1>1 DEF Writes
  <2>2. Remembers' BY <1>1, <2>1 DEF Remembers
  <2>3. place \in Constructed BY <1>1 DEF Constructed
  <2>4. \A p \in Switches[kind] : shown[p] \in {0, 1} BY <2>3 DEF WidgetTypes
  <2>5. kind = "dabstick" => shown["gain"] \in Nat BY <2>3 DEF RtlsdrInv
  <2>6. SavedRanges' BY <1>1, <2>1, <2>4, <2>5 DEF SavedRanges
  <2>7. QED BY <2>2, <2>6
<1>2. ASSUME NEW k, NEW ps, Kept[k] \subseteq ps, Deletes(k, {}), Writes(ps)
      PROVE  /\ place' \in {"over", "ended"} /\ held' = {} /\ UNCHANGED <<kind, stage>>
             /\ Remembers' /\ SavedRanges'
  <2>1. /\ kind = k /\ place \in {"running", "stopped"} /\ place' = "over" /\ held' = {}
        /\ UNCHANGED <<kind, stage>>
    BY <1>2 DEF Deletes
  <2>2. QED BY <1>1, <1>2, <2>1
<1>3. CASE deleteAirspy
  <2>1. Kept["airspy"] \subseteq Gains \cup {"linearity", "sensitivity"} BY DEF Kept
  <2>2. QED BY <1>2, <1>3, <2>1 DEF deleteAirspy
<1>4. CASE deleteLime
  <2>1. Kept["lime"] \subseteq {"antenna", "gain"} BY DEF Kept
  <2>2. QED BY <1>2, <1>4, <2>1 DEF deleteLime
<1>5. CASE deletePluto
  <2>1. Kept["pluto"] \subseteq {"gain"} BY DEF Kept
  <2>2. QED BY <1>2, <1>5, <2>1 DEF deletePluto
<1>6. CASE deleteRtlsdr
  <2>1. Kept["dabstick"] \subseteq {"gain", "ppm", "KhzOffset", "HzOffset"} BY DEF Kept
  <2>2. QED BY <1>2, <1>6, <2>1 DEF deleteRtlsdr
<1>7. CASE deleteSdrplay
  <2>1. Kept["sdrplay"] \subseteq {"ppm", "GRdB", "lna", "agc"} BY DEF Kept
  <2>2. QED BY <1>2, <1>7, <2>1 DEF deleteSdrplay
<1>8. CASE deleteHackrf
  <2>1. /\ kind = "hackrf" /\ held' = {} /\ remembered' = <<>> /\ UNCHANGED <<kind, stage>>
        /\ place' \in {"over", "ended"}
        /\ saved' \in [{"lna", "vga", "antenna", "amp", "ppm"} -> Positions]
        /\ saved'["amp"] <= 1
    BY <1>8 DEF deleteHackrf
  <2>2. DOMAIN <<>> = {} OBVIOUS
  <2>3. Remembers' BY <2>1, <2>2 DEF Remembers
  <2>4. saved'["amp"] \in {0, 1}
    <3>1. saved'["amp"] \in Positions BY <2>1
    <3>2. Positions \subseteq Nat BY SettingsAssumption DEF SettingsAssumption
    <3>3. saved'["amp"] \in Nat BY <3>1, <3>2
    <3>4. QED BY <2>1, <3>3
  <2>5. SavedRanges' BY <2>1, <2>4, HackrfTables DEF SavedRanges
  <2>6. QED BY <2>1, <2>3, <2>5
<1>9. QED BY <1>3, <1>4, <1>5, <1>6, <1>7, <1>8 DEF Delete

(* What an action with a name for each handler does to the device and what is
   shown. *)
LEMMA HandlersKeep ==
    ASSUME SavedRanges, InHand, Construct \/ SetVFO \/ Restart \/ Set \/ Delete,
           Untold'
    PROVE  InHand' /\ (Delete => BiasOff')
<1>1. DeviceTypes /\ WidgetTypes /\ Untold BY DEF InHand
<1>2. kind' = kind BY Whose
<1>3. CASE kind = "airspy"
  <2>1. airspyActs BY <1>3, Whose
  <2>2. AirspyInv BY DEF InHand
  <2>3. DeviceTypes' /\ WidgetTypes' /\ AirspyInv' BY <1>1, <1>3, <2>1, <2>2, AirspyKept, AirspyEnds
                                                  DEF airspyActs
  <2>4. Delete => BiasOff' BY <1>1, <1>3, <2>2, AirspyEnds
                 DEF Delete, Deletes, deleteHackrf, deleteLime, deletePluto, deleteRtlsdr, deleteSdrplay
  <2>5. QED BY <1>2, <1>3, <2>3, <2>4
            DEF InHand, HackrfInv, LimeInv, PlutoInv, RtlsdrInv, SdrplayInv
<1> USE DEF InHand, AirspyInv, HackrfInv, LimeInv, PlutoInv, RtlsdrInv, SdrplayInv, BiasOff
<1>4. CASE kind = "hackrf"
  <2>1. hackrfActs BY <1>4, Whose
  <2>2. HackrfInv OBVIOUS
  <2>3. DeviceTypes' /\ WidgetTypes' /\ HackrfInv'
    <3> HIDE DEF HackrfInv, InHand
    <3>1. QED BY <1>1, <1>4, <2>1, <2>2, HackrfKept DEF hackrfActs
  <2>4. QED BY <1>2, <1>4, <2>3
<1>5. CASE kind = "lime"
  <2>1. limeActs BY <1>5, Whose
  <2>2. LimeInv OBVIOUS
  <2>3. DeviceTypes' /\ WidgetTypes' /\ LimeInv'
    <3> HIDE DEF LimeInv, InHand
    <3>1. QED BY <1>1, <1>5, <2>1, <2>2, LimeKept DEF limeActs
  <2>4. QED BY <1>2, <1>5, <2>3
<1>6. CASE kind = "pluto"
  <2>1. plutoActs BY <1>6, Whose
  <2>2. PlutoInv OBVIOUS
  <2>3. DeviceTypes' /\ WidgetTypes' /\ PlutoInv'
    <3> HIDE DEF PlutoInv, InHand
    <3>1. QED BY <1>1, <1>6, <2>1, <2>2, PlutoKept DEF plutoActs
  <2>4. QED BY <1>2, <1>6, <2>3
<1>7. CASE kind = "dabstick"
  <2>1. rtlsdrActs BY <1>7, Whose
  <2>2. RtlsdrInv OBVIOUS
  <2>3. DeviceTypes' /\ WidgetTypes' /\ RtlsdrInv'
    <3> HIDE DEF RtlsdrInv, InHand
    <3>1. QED BY <1>1, <1>7, <2>1, <2>2, RtlsdrKept DEF rtlsdrActs
  <2>4. QED BY <1>2, <1>7, <2>3
<1>8. CASE kind = "sdrplay"
  <2>1. sdrplayActs BY <1>8, Whose
  <2>2. SdrplayInv OBVIOUS
  <2>3. DeviceTypes' /\ WidgetTypes' /\ SdrplayInv'
    <3> HIDE DEF SdrplayInv, InHand
    <3>1. QED BY <1>1, <1>8, <2>1, <2>2, SdrplayKept DEF sdrplayActs
  <2>4. QED BY <1>2, <1>8, <2>3
<1>9. QED BY <1>3, <1>4, <1>5, <1>6, <1>7, <1>8, Whose
----------------------------------------------------------------------------
DeviceInv == /\ LifeTypes /\ Remembers /\ SavedRanges /\ SettingsSurvive
             /\ InHand /\ BiasOff

LEMMA Beginning == ASSUME Init PROVE DeviceInv
<1>1. DOMAIN <<>> = {} OBVIOUS
<1>2. LifeTypes BY DEF Init, LifeTypes
<1>3. Remembers /\ SavedRanges BY <1>1 DEF Init, Remembers, SavedRanges
<1>4. SettingsSurvive /\ BiasOff BY DEF Init, SettingsSurvive, BiasOff
<1>5. DeviceTypes /\ Untold BY DEF Init, DeviceTypes, Untold, Fresh
<1>6. place \notin Constructed BY DEF Init, Constructed
<1>7. InHand BY <1>5, <1>6 DEF InHand, WidgetTypes, AirspyInv, HackrfInv, LimeInv, PlutoInv,
                               RtlsdrInv, SdrplayInv
<1>8. QED BY <1>2, <1>3, <1>4, <1>7 DEF DeviceInv

(* Without a handler there is nothing to be right. *)
LEMMA NoHandler ==
    ASSUME kind' = kind, place' \notin Constructed, DeviceTypes', Untold'
    PROVE  InHand'
  BY DEF InHand, WidgetTypes, AirspyInv, HackrfInv, LimeInv, PlutoInv, RtlsdrInv, SdrplayInv

(* Life: of what there is, and what the file is to keep. *)
LEMMA LifeGoesOn ==
    ASSUME DeviceInv, Next
    PROVE  /\ LifeTypes' /\ Remembers' /\ SavedRanges' /\ SettingsSurvive' /\ kind' = kind
           /\ Untold'
<1>0. LifeTypes /\ Remembers /\ SavedRanges /\ Untold BY DEF DeviceInv, InHand
<1>s. /\ Len(Steps) \in 1..5
      /\ \A i \in 1..Len(Steps) : Steps[i].gets \subseteq {"api", "device", "buffer"}
  BY <1>0, StepsAre DEF LifeTypes
<1>k. kind' = kind => Params[kind]' = Params[kind] /\ Kept[kind]' = Kept[kind]
                      /\ Switches[kind]' = Switches[kind] /\ Fresh' = Fresh
  BY DEF Params, Kept, Switches, Fresh
<1>m. ASSUME kind' = kind, saved' = saved, remembered' = remembered
      PROVE  Remembers' /\ SavedRanges'
  BY <1>0, <1>m DEF Remembers, SavedRanges
<1>1. CASE Choose BY <1>0, <1>1, <1>k, <1>m DEF Choose, LifeTypes, SettingsSurvive, Untold
<1>2. CASE Quit BY <1>0, <1>2, <1>m DEF Quit, LifeTypes, SettingsSurvive, Untold
<1>3. CASE StepDone
  <2>1. /\ place = "setup" /\ place' = "setup" /\ stage \in 1..Len(Steps) /\ stage' = stage + 1
        /\ held' = held \cup Steps[stage].gets /\ UNCHANGED <<kind, saved, remembered>>
        /\ device' \in {Fresh, device}
    BY <1>3 DEF StepDone, SettingUp
  <2>2. LifeTypes'
    <3>1. stage' \in 1..6
      <4>1. stage \in Int /\ Len(Steps) \in Int /\ stage <= Len(Steps) /\ Len(Steps) <= 5
            /\ 1 <= stage
        <5> DEFINE n == Len(Steps)
        <5>1. n \in 1..5 BY <1>s
        <5>2. stage \in 1..n BY <2>1
        <5> HIDE DEF n
        <5>3. stage \in Int /\ n \in Int /\ stage <= n /\ n <= 5 /\ 1 <= stage BY <5>1, <5>2
        <5>4. QED BY <5>3 DEF n
      <4>2. stage' = stage + 1 BY <2>1
      <4>3. QED BY <4>1, <4>2
    <3>2. held' \subseteq {"api", "device", "buffer"} BY <1>0, <1>s, <2>1 DEF LifeTypes
    <3>3. QED BY <1>0, <2>1, <3>1, <3>2 DEF LifeTypes
  <2>3. QED BY <1>0, <1>k, <1>m, <2>1, <2>2 DEF SettingsSurvive, Untold
<1>4. CASE StepFails
  <2>1. /\ place = "setup" /\ place' \in {"setup", "asking", "ended"} /\ stage \in 1..Len(Steps)
        /\ stage' \in {stage, stage + 1} /\ held' \in {held, {}}
        /\ UNCHANGED <<kind, device, saved, remembered>>
    BY <1>4 DEF StepFails, SettingUp
  <2>2. LifeTypes'
    <3>1. stage' \in 1..6
      <4>1. stage \in Int /\ Len(Steps) \in Int /\ stage <= Len(Steps) /\ Len(Steps) <= 5
            /\ 1 <= stage
        <5> DEFINE n == Len(Steps)
        <5>1. n \in 1..5 BY <1>s
        <5>2. stage \in 1..n BY <2>1
        <5> HIDE DEF n
        <5>3. stage \in Int /\ n \in Int /\ stage <= n /\ n <= 5 /\ 1 <= stage BY <5>1, <5>2
        <5>4. QED BY <5>3 DEF n
      <4>2. stage' = stage \/ stage' = stage + 1 BY <2>1
      <4>3. QED BY <4>1, <4>2
    <3>2. held' \subseteq {"api", "device", "buffer"} BY <1>0, <2>1 DEF LifeTypes
    <3>3. QED BY <1>0, <2>1, <3>1, <3>2 DEF LifeTypes
  <2>3. QED BY <1>0, <1>k, <1>m, <2>1, <2>2 DEF SettingsSurvive, Untold
<1>5. CASE Construct
  <2>1. /\ place = "setup" /\ place' = "constructed" /\ kind' = kind
        /\ UNCHANGED <<stage, held, saved, remembered>>
        /\ \A p \in Kept[kind] : shown'[p] = Fits(p, Read(p), shown')
    BY <1>5, ConstructLives
  <2>2. DOMAIN <<>> = {} OBVIOUS
  <2>3. \A p \in DOMAIN remembered : p \in Kept[kind] /\ Read(p) = remembered[p]
    BY <1>0, <2>2 DEF Remembers, Read
  <2>4. \A p \in DOMAIN remembered : shown'[p] = Fits(p, remembered[p], shown')
    BY <2>1, <2>3
  <2>5. \A p : Fits(p, remembered[p], shown)' = Fits(p, remembered[p], shown')
    BY <2>1 DEF Fits
  <2>6. SettingsSurvive' BY <2>1, <2>4, <2>5 DEF SettingsSurvive
  <2>7. LifeTypes' BY <1>0, <2>1 DEF LifeTypes
  <2>8. QED BY <1>m, <2>1, <2>6, <2>7 DEF Untold
<1>6. CASE SetVFO
  <2>1. /\ place \in {"constructed", "running", "stopped", "refused"}
        /\ place' = IF place = "constructed" THEN "tuned" ELSE place
        /\ UNCHANGED <<kind, stage, held, saved, remembered>>
    BY <1>6, SetVFOLives
  <2>2. QED BY <1>0, <1>m, <2>1 DEF LifeTypes, SettingsSurvive, Untold
<1>7. CASE Restart
  <2>1. place \in {"tuned", "stopped"} /\ UNCHANGED <<kind, stage, held>> /\ (Begins \/ Fails)
    BY <1>7, RestartLives
  <2>2. CASE Begins
    <3>1. DOMAIN <<>> = {} OBVIOUS
    <3>2. Remembers' /\ SavedRanges' BY <2>2, <3>1 DEF Begins, Remembers, SavedRanges
    <3>3. QED BY <1>0, <2>1, <2>2, <3>2 DEF Begins, LifeTypes, SettingsSurvive, Untold
  <2>3. CASE Fails BY <1>0, <1>m, <2>1, <2>3 DEF Fails, LifeTypes, SettingsSurvive, Untold
  <2>4. QED BY <2>1, <2>2, <2>3
<1>8. CASE Stop BY <1>0, <1>8, <1>m DEF Stop, LifeTypes, SettingsSurvive, Untold
<1>9. CASE Set
  <2>1. place \in {"running", "stopped", "refused"} /\ UNCHANGED life BY <1>9, SetLives
  <2>2. QED BY <1>0, <1>m, <2>1 DEF life, LifeTypes, SettingsSurvive, Untold
<1>10. CASE Exit BY <1>0, <1>10, <1>m DEF Exit, LifeTypes, SettingsSurvive, Untold
<1>11. CASE Delete
  <2>1. WidgetTypes /\ RtlsdrInv BY DEF DeviceInv, InHand
  <2>2. /\ place' \in {"over", "ended"} /\ held' = {} /\ UNCHANGED <<kind, stage>>
        /\ Remembers' /\ SavedRanges'
    BY <1>11, <2>1, DeleteLives
  <2>3. QED BY <1>0, <2>2 DEF LifeTypes, SettingsSurvive, Untold
<1>12. CASE NextProgram
  BY <1>0, <1>12, <1>k, <1>m DEF NextProgram, LifeTypes, SettingsSurvive, Untold
<1>13. QED BY <1>1, <1>2, <1>3, <1>4, <1>5, <1>6, <1>7, <1>8, <1>9, <1>10, <1>11, <1>12 DEF Next

LEMMA Going == ASSUME DeviceInv, Next PROVE DeviceInv'
<1>0. DeviceTypes /\ InHand /\ SavedRanges BY DEF DeviceInv, InHand
<1>1. /\ LifeTypes' /\ Remembers' /\ SavedRanges' /\ SettingsSurvive' /\ kind' = kind
      /\ Untold'
  BY LifeGoesOn
<1>2. CASE Choose \/ Quit \/ StepDone \/ StepFails \/ Exit \/ NextProgram
  <2>1. /\ place' \in {"asking", "setup", "ended", "exited"} /\ device' \in {device, Fresh}
        /\ place' = "ended" => place \in {"asking", "setup"} /\ device' = device
    BY <1>2 DEF Choose, Quit, StepDone, StepFails, SettingUp, Exit, NextProgram
  <2>2. DeviceTypes' BY <1>0, <1>1, <2>1 DEF DeviceTypes, Fresh
  <2>3. InHand' BY <1>1, <2>1, <2>2, NoHandler DEF Constructed
  (* A program that ends before a handler is there has told nothing. *)
  <2>4. BiasOff'
    <3>1. place' = "ended" => device' = Fresh BY <1>0, <2>1 DEF InHand, Untold
    <3>2. kind = "airspy" => Fresh.applied["rf_bias"] = Untouched
      BY AirspyTables DEF Fresh
    <3>3. QED BY <1>1, <2>1, <3>1, <3>2 DEF BiasOff
  <2>5. QED BY <1>1, <2>3, <2>4 DEF DeviceInv
<1>3. CASE Stop
  <2>1. /\ place = "running" /\ place' = "stopped" /\ place \in Constructed
        /\ kind' = kind /\ shown' = shown /\ device' = device
    BY <1>3 DEF Stop, Constructed
  <2>2. DeviceTypes' /\ WidgetTypes' BY <1>0, <2>1 DEF InHand, DeviceTypes, WidgetTypes
  <2>3. AirspyInv'
    BY <1>0, <2>1 DEF InHand, AirspyInv, AirspyConcerned, AirspyWants, Right, Sensitivity, OfTheTab, Has
  <2>4. HackrfInv' /\ LimeInv' /\ PlutoInv'
    BY <1>0, <2>1 DEF InHand, HackrfInv, LimeInv, PlutoInv, Sees, Right, Has
  <2>5. RtlsdrInv'
    BY <1>0, <2>1 DEF InHand, RtlsdrInv, RtlsdrConcerned, RtlsdrWants, Right, Has
  <2>6. SdrplayInv'
    <3>1. SdrplayConcerned' \subseteq SdrplayConcerned BY <2>1 DEF SdrplayConcerned
    <3>2. \A p : SdrplayWants(p)' = SdrplayWants(p) BY <2>1 DEF SdrplayWants, Right
    <3>3. kind = "sdrplay" => \A p \in SdrplayConcerned : Has(device, p, SdrplayWants(p))
      BY <1>0, <2>1 DEF InHand, SdrplayInv
    <3>4. QED BY <2>1, <3>1, <3>2, <3>3 DEF SdrplayInv, Has
  <2>7. BiasOff' BY <2>1 DEF BiasOff
  <2>8. QED BY <1>1, <2>2, <2>3, <2>4, <2>5, <2>6, <2>7 DEF DeviceInv, InHand
<1>4. CASE Construct \/ SetVFO \/ Restart \/ Set \/ Delete
  <2>1. InHand' /\ (Delete => BiasOff') BY <1>0, <1>1, <1>4, HandlersKeep
  <2>2. ~Delete => place' \notin {"over", "ended"}
    <3>1. CASE Construct BY <3>1, ConstructLives
    <3>2. CASE SetVFO BY <3>2, SetVFOLives
    <3>3. CASE Restart BY <3>3, RestartLives DEF Begins, Fails
    <3>4. CASE Set BY <3>4, SetLives DEF life
    <3>5. QED BY <1>4, <3>1, <3>2, <3>3, <3>4
  <2>3. BiasOff' BY <2>1, <2>2 DEF BiasOff
  <2>4. QED BY <1>1, <2>1, <2>3 DEF DeviceInv
<1>5. QED BY <1>2, <1>3, <1>4 DEF Next

LEMMA Staying == ASSUME DeviceInv, UNCHANGED vars PROVE DeviceInv'
<1> USE DEF vars, life
<1>0. \A p : Fits(p, remembered[p], shown)' = Fits(p, remembered[p], shown) BY DEF Fits
<1>1. /\ LifeTypes' /\ Remembers' /\ SavedRanges' /\ SettingsSurvive' /\ BiasOff'
  BY <1>0 DEF DeviceInv, LifeTypes, Remembers, SavedRanges, SettingsSurvive, BiasOff
<1>2. DeviceTypes' /\ WidgetTypes' /\ Untold'
  BY DEF DeviceInv, InHand, DeviceTypes, WidgetTypes, Untold, Fresh
<1>3. AirspyInv'
  BY DEF DeviceInv, InHand, AirspyInv, AirspyConcerned, AirspyWants, Right, Sensitivity, OfTheTab, Has
<1>4. HackrfInv' /\ LimeInv' /\ PlutoInv'
  BY DEF DeviceInv, InHand, HackrfInv, LimeInv, PlutoInv, Sees, Right, Has
<1>5. RtlsdrInv'
  BY DEF DeviceInv, InHand, RtlsdrInv, RtlsdrConcerned, RtlsdrWants, Right, Has
<1>6. SdrplayInv'
  BY DEF DeviceInv, InHand, SdrplayInv, SdrplayConcerned, SdrplayWants, Right, Has
<1>7. QED BY <1>1, <1>2, <1>3, <1>4, <1>5, <1>6 DEF DeviceInv, InHand

(* DeviceInv is an invariant of every handler's life. *)
THEOREM DeviceInvariance == Spec => []DeviceInv
<1>1. Init => DeviceInv BY Beginning
<1>2. DeviceInv /\ [Next]_vars => DeviceInv' BY Going, Staying
<1>3. QED BY <1>1, <1>2, PTL DEF Spec

(* Types of all there is. *)
THEOREM SettingsTypeCorrect == Spec => []TypeOK
<1>1. DeviceInv => TypeOK
  BY DEF DeviceInv, InHand, LifeTypes, DeviceTypes, Remembers, TypeOK
<1>2. QED BY <1>1, DeviceInvariance, PTL

(* While a device runs, each setting is as the widgets show it, unless the
   device has refused that, whatever was changed, stopped, tuned and started
   again before. *)
THEOREM EverythingIsInEffect == Spec => []InEffect
<1>1. DeviceInv => InEffect
  <2> SUFFICES ASSUME DeviceInv, place = "running" PROVE InEffect BY DEF InEffect
  <2>0. place \in Constructed BY DEF Constructed
  <2>1. ASSUME NEW p, Sees(p) PROVE Effective(p) BY <2>1 DEF Sees, Has, Right, Effective
  <2>2. CASE kind = "airspy"
    <3>1. \A p \in AirspyConcerned : Has(device, p, AirspyWants(p))
      BY <2>0, <2>2 DEF DeviceInv, InHand, AirspyInv
    <3>2. Params[kind] = AirspyConcerned BY <2>2, AirspyTables DEF AirspyConcerned
    <3>3. \A p \in Params[kind] \ Gains : Sees(p) BY <3>1, <3>2 DEF AirspyWants, Sees
    <3>4. \A g \in Gains \ device.refused : device.applied[g] \in {Sensitivity, OfTheTab(g)}
      BY <3>1 DEF AirspyConcerned, AirspyWants, Has
    <3>5. QED BY <2>1, <2>2, <3>3, <3>4 DEF InEffect
  <2>3. CASE kind = "hackrf"
    <3>1. \A p \in Params[kind] : Sees(p)
      BY <2>0, <2>3, HackrfTables DEF DeviceInv, InHand, HackrfInv
    <3>2. QED BY <2>1, <2>3, <3>1 DEF InEffect
  <2>4. CASE kind = "lime"
    <3>1. \A p \in Params[kind] : Sees(p)
      BY <2>0, <2>4, LimeTables DEF DeviceInv, InHand, LimeInv
    <3>2. QED BY <2>1, <2>4, <3>1 DEF InEffect
  <2>5. CASE kind = "pluto"
    <3>1. /\ Sees("agc") /\ Sees("freq")
          /\ shown["agc"] = 1 \/ "agc" \in device.refused \/ Sees("gain")
      BY <2>0, <2>5 DEF DeviceInv, InHand, PlutoInv
    <3>2. QED BY <2>1, <2>5, <3>1 DEF InEffect
  <2>6. CASE kind = "dabstick"
    <3>1. /\ \A p \in RtlsdrConcerned : Has(device, p, RtlsdrWants(p))
          /\ shown["gain"] \in {0, shown["gainsCount"], shown["oldGain"]}
      BY <2>0, <2>6 DEF DeviceInv, InHand, RtlsdrInv
    <3>2. Sees("agc") /\ Sees("ppm") BY <3>1 DEF RtlsdrConcerned, RtlsdrWants, Sees
    <3>3. shown["biasTee"] = 1 => Sees("bias")
      BY <3>1 DEF RtlsdrConcerned, RtlsdrWants, Sees
    <3>4. \/ shown["gain"] \in {0, shown["gainsCount"]} \/ "gain" \in device.refused
          \/ device.applied["gain"] = <<"gain", shown["gainsCount"] - shown["gain"]>>
      <4>1. CASE shown["gain"] = shown["oldGain"] /\ shown["gain"] # 0
        <5>1. Has(device, "gain", {<<"gain", shown["gainsCount"] - shown["oldGain"]>>})
          BY <3>1, <4>1 DEF RtlsdrConcerned, RtlsdrWants
        <5>2. QED BY <4>1, <5>1 DEF Has
      <4>2. QED BY <3>1, <4>1
    <3>5. QED BY <2>1, <2>6, <3>2, <3>3, <3>4 DEF InEffect
  <2>7. CASE kind = "sdrplay"
    <3>1. \A p \in SdrplayConcerned : Has(device, p, SdrplayWants(p))
      BY <2>0, <2>7 DEF DeviceInv, InHand, SdrplayInv
    <3>2. \A p \in SdrplayConcerned \ {"bias", "setPoint"} : Sees(p)
      BY <3>1 DEF SdrplayWants, Sees
    <3>3. shown["hwVersion"] # 1 => Sees("bias") BY <3>1 DEF SdrplayConcerned, SdrplayWants, Sees
    <3>4. /\ \A p \in {"lna", "ppm", "freq", "agc"} : p \in SdrplayConcerned
          /\ shown["hwVersion"] \in {2, 3} => "antenna" \in SdrplayConcerned
          /\ shown["agc"] = 0 => "GRdB" \in SdrplayConcerned
          /\ shown["agc"] # 0 => "setPoint" \in SdrplayConcerned
      BY DEF SdrplayConcerned
    <3>5. shown["agc"] # 0 =>
             \/ "setPoint" \in device.refused
             \/ device.applied["setPoint"] \in {SetPoint, <<"GRdB", shown["GRdB"]>>}
      BY <3>1, <3>4 DEF SdrplayWants, Has
    <3>6. QED BY <2>1, <2>7, <3>2, <3>3, <3>4, <3>5 DEF InEffect
  <2>8. kind \in {"airspy", "hackrf", "lime", "pluto", "dabstick", "sdrplay"}
    BY SettingsAssumption DEF DeviceInv, LifeTypes, SettingsAssumption
  <2>9. QED BY <2>2, <2>3, <2>4, <2>5, <2>6, <2>7, <2>8
<1>2. QED BY <1>1, DeviceInvariance, PTL

(* What a destructor writes is what the next constructor shows. *)
THEOREM SettingsAreKept == Spec => []SettingsSurvive
<1>1. DeviceInv => SettingsSurvive BY DEF DeviceInv
<1>2. QED BY <1>1, DeviceInvariance, PTL

(* The destructor of airspy leaves no power on its antenna. *)
THEOREM BiasIsOff == Spec => []BiasOff
<1>1. DeviceInv => BiasOff BY DEF DeviceInv
<1>2. QED BY <1>1, DeviceInvariance, PTL
=============================================================================
