------------------------- MODULE SdrplayServerProofs -------------------------
(***************************************************************************)
(* The queue without a lock and the set-up of the SDRplay handler, for     *)
(* whatever models, frequencies, settings and bounds there are; and that   *)
(* the handler is a device asked synchronously.                            *)
(***************************************************************************)
EXTENDS SdrplayServer, SequenceTheorems, TLAPS

----------------------------------------------------------------------------
(* A request passes through these stages, and only while the GUI calls. *)
NoneMade  == /\ server_queue = <<>> /\ serverjobs = 0
             /\ current = NoRequest /\ answered = FALSE
Pushed    == /\ server_queue = <<request>> /\ serverjobs = 0
             /\ current = NoRequest /\ answered = FALSE
Told      == /\ server_queue = <<request>> /\ serverjobs = 1
             /\ current = NoRequest /\ answered = FALSE
Taken     == /\ server_queue = <<>> /\ serverjobs = 0
             /\ current = request /\ answered = FALSE
Completed == /\ server_queue = <<>> /\ serverjobs = 0
             /\ current = NoRequest /\ answered = TRUE

Working == {"performing", "restarted", "done"}
Loop    == {"waiting", "popping"} \cup Working
SetUpPc == {"load", "open", "version", "select", "create", "succeed"}
TidyPc  == {"give back", "release library", "ended"}

(* Where the server thread is, by where the GUI thread is. *)
BeforeCalls ==
    guiPc = "constructing" =>
       /\ NoneMade
       /\ pc \in SetUpPc \cup {"waiting", "closeAPI"} \cup TidyPc
       /\ pc = "waiting" <=> threadRuns
       /\ successFlag => threadRuns
       /\ failFlag => pc \in TidyPc

BetweenCalls ==
    guiPc \in {"idle", "push", "follow"} =>
       NoneMade /\ pc = "waiting" /\ threadRuns

DuringCalls ==
    /\ guiPc = "release" => Pushed /\ pc = "waiting" /\ threadRuns
    /\ guiPc = "wait" =>
          /\ threadRuns
          /\ \/ Told /\ pc = "waiting"
             \/ Pushed /\ pc = "popping"
             \/ Taken /\ pc \in Working
             \/ Completed /\ pc = "waiting"

AfterCalls ==
    /\ guiPc = "deleting" => NoneMade /\ ~threadRuns /\ pc \in {"waiting", "uninit"} \cup TidyPc
    /\ guiPc \in {"thrown", "deleted"} => NoneMade /\ pc = "ended"

(* What the server thread holds, by where it is. *)
HeldByPc ==
    /\ pc \in {"load", "ended"} => held = {}
    /\ pc = "open" => held = {"library"}
    /\ pc = "version" => held = {"library", "api"}
    /\ pc = "select" => held = {"library", "api", "lock"}
    /\ pc = "create" => held = {"library", "api", "device"}
    /\ pc \in {"closeAPI", "give back"} => held \subseteq {"library", "api", "device"}
    /\ pc = "release library" => held \subseteq {"library"}
    /\ pc \in {"succeed", "uninit"} \cup Loop => held = {"library", "api", "device", "stream"}

Places == guiPc \in GuiPcs /\ pc \in Pcs

IInv == Places /\ BeforeCalls /\ BetweenCalls /\ DuringCalls /\ AfterCalls /\ HeldByPc

(* A queue of one request. *)
LEMMA OneRequest ==
    ASSUME NEW r
    PROVE  Append(<<>>, r) = <<r>> /\ Head(<<r>>) = r /\ Tail(<<r>>) = <<>>
<1>1. <<>> \in Seq({r}) /\ <<r>> \in Seq({r}) /\ r \in {r} OBVIOUS
<1>2. QED BY <1>1

LEMMA InitIInv == Init => IInv
BY DEF Init, IInv, Places, BeforeCalls, BetweenCalls, DuringCalls, AfterCalls, HeldByPc,
       NoneMade, Pushed, Told, Taken, Completed, Working, Loop, SetUpPc, TidyPc, GuiPcs, Pcs

(* The steps that neither take a request nor touch the flags. *)
LEMMA SetUpIInv ==
    ASSUME IInv, SetUp PROVE IInv'
<1> USE DEF IInv, Places, BeforeCalls, BetweenCalls, DuringCalls, AfterCalls, HeldByPc,
            NoneMade, Pushed, Told, Taken, Completed, Working, Loop, SetUpPc, TidyPc,
            GuiPcs, Pcs, gui, queue, flags
<1>1. CASE Load
  <2>1. held' = {"library"} BY <1>1 DEF Load
  <2>2. CASE pc' = "open" /\ UNCHANGED failFlag BY <1>1, <2>1, <2>2 DEF Load
  <2>3. CASE pc' = "release library" /\ failFlag' = TRUE BY <1>1, <2>1, <2>3 DEF Load
  <2>4. QED BY <1>1, <2>2, <2>3 DEF Load
<1>2. CASE OpenApi
  <2>1. CASE pc' = "version" /\ held' = held \cup {"api"} /\ UNCHANGED failFlag
    <3>1. held' = {"library", "api"} BY <1>2, <2>1 DEF OpenApi
    <3>2. QED BY <1>2, <2>1, <3>1 DEF OpenApi
  <2>2. CASE pc' = "release library" /\ failFlag' = TRUE /\ UNCHANGED held
    BY <1>2, <2>2 DEF OpenApi
  <2>3. QED BY <1>2, <2>1, <2>2 DEF OpenApi
<1>3. CASE CheckVersion BY <1>3 DEF CheckVersion
<1>4. CASE SelectDevice BY <1>4 DEF SelectDevice
<1>5. CASE CreateRsp
  <2>1. \/ pc' = "succeed" /\ held' = held \cup {"stream"}
        \/ pc' = "closeAPI" /\ UNCHANGED held
    BY <1>5 DEF CreateRsp
  <2>2. pc = "create" /\ UNCHANGED <<gui, queue, flags, current>> BY <1>5 DEF CreateRsp
  <2>3. QED BY <2>1, <2>2
<1>6. CASE Succeed BY <1>6 DEF Succeed
<1>7. QED BY <1>1, <1>2, <1>3, <1>4, <1>5, <1>6 DEF SetUp

LEMMA TidyUpIInv ==
    ASSUME IInv, TidyUp PROVE IInv'
<1> USE DEF IInv, Places, BeforeCalls, BetweenCalls, DuringCalls, AfterCalls, HeldByPc,
            NoneMade, Pushed, Told, Taken, Completed, Working, Loop, SetUpPc, TidyPc,
            GuiPcs, Pcs, gui, queue, flags
<1>1. CASE LeaveLoop BY <1>1 DEF LeaveLoop
<1>2. CASE CloseApi BY <1>2 DEF CloseApi
<1>3. CASE Uninit BY <1>3 DEF Uninit
<1>4. CASE GiveBack BY <1>4 DEF GiveBack
<1>5. CASE releaseLibrary BY <1>5 DEF releaseLibrary
<1>6. QED BY <1>1, <1>2, <1>3, <1>4, <1>5 DEF TidyUp

(* The steps that pass the request of the GUI on to its next stage. *)
LEMMA ServeIInv ==
    ASSUME IInv, Serve PROVE IInv'
<1> USE DEF IInv, Places, BeforeCalls, BetweenCalls, DuringCalls, AfterCalls, HeldByPc,
            NoneMade, Pushed, Told, Taken, Completed, Working, Loop, SetUpPc, TidyPc,
            GuiPcs, Pcs, gui, queue, flags
<1>1. CASE TakeJob BY <1>1 DEF TakeJob
<1>2. CASE PopRequest
  <2>1. guiPc = "wait" /\ Pushed /\ threadRuns BY <1>2 DEF PopRequest
  <2>2. Head(<<request>>) = request /\ Tail(<<request>>) = <<>> BY OneRequest
  <2>3. QED BY <1>2, <2>1, <2>2 DEF PopRequest
<1>3. CASE PerformRestart BY <1>3 DEF PerformRestart
<1>4. CASE ReceiverRuns BY <1>4 DEF ReceiverRuns
<1>5. CASE PerformStop BY <1>5 DEF PerformStop
<1>6. CASE PerformSet BY <1>6 DEF PerformSet
<1>7. CASE Answer BY <1>7 DEF Answer
<1>8. QED BY <1>1, <1>2, <1>3, <1>4, <1>5, <1>6, <1>7 DEF Serve

LEMMA HandlersIInv ==
    ASSUME IInv, Handlers PROVE IInv'
<1> USE DEF IInv, Places, BeforeCalls, BetweenCalls, DuringCalls, AfterCalls, HeldByPc,
            NoneMade, Pushed, Told, Taken, Completed, Working, Loop, SetUpPc, TidyPc,
            GuiPcs, Pcs, queue, flags, server, Call
<1>1. CASE Constructed BY <1>1 DEF Constructed
<1>2. CASE Throw BY <1>2 DEF Throw
<1>3. CASE PushRequest
  <2>1. Append(<<>>, request) = <<request>> BY OneRequest
  <2>2. QED BY <1>3, <2>1 DEF PushRequest
<1>4. CASE ReleaseJob BY <1>4 DEF ReleaseJob
<1>5. CASE Return BY <1>5 DEF Return
<1>6. CASE SendFollow BY <1>6 DEF SendFollow
<1>7. CASE Deleted BY <1>7 DEF Deleted
<1>8. QED BY <1>1, <1>2, <1>3, <1>4, <1>5, <1>6, <1>7 DEF Handlers

(* What the user does, and set_lnabounds, begins a call at most. *)
LEMMA UserIInv ==
    ASSUME IInv, User \/ set_lnabounds PROVE IInv'
<1> USE DEF IInv, Places, BeforeCalls, BetweenCalls, DuringCalls, AfterCalls, HeldByPc,
            NoneMade, Pushed, Told, Taken, Completed, Working, Loop, SetUpPc, TidyPc,
            GuiPcs, Pcs, queue, flags, server, Call, Untouched
<1>1. ASSUME guiPc = "idle", guiPc' \in {"idle", "push"},
             UNCHANGED <<server_queue, serverjobs, answered, flags, server>>
      PROVE  IInv'
  BY <1>1
<1>2. CASE restartReader BY <1>2, <1>1 DEF restartReader
<1>3. CASE stopReader BY <1>3, <1>1 DEF stopReader
<1>4. ASSUME NEW f \in Frequencies, setVFOFrequency(f) PROVE IInv'
  BY <1>4, <1>1 DEF setVFOFrequency
<1>5. ASSUME NEW x \in {"GRdB", "lna"}, NEW v \in Chosen[x], SetGain(x, v) PROVE IInv'
  BY <1>5, <1>1 DEF SetGain
<1>6. ASSUME NEW x \in {"agc"} \cup Options, SetSwitch(x) PROVE IInv'
  BY <1>6, <1>1 DEF SetSwitch
<1>7. CASE Delete BY <1>7 DEF Delete
<1>8. CASE set_lnabounds BY <1>8, <1>1 DEF set_lnabounds
<1>9. QED BY <1>2, <1>3, <1>4, <1>5, <1>6, <1>7, <1>8 DEF User

LEMMA NextIInv ==
    ASSUME IInv, [Next]_vars PROVE IInv'
<1>1. CASE run BY <1>1, SetUpIInv, ServeIInv, TidyUpIInv DEF run
<1>2. CASE Handlers BY <1>2, HandlersIInv
<1>3. CASE User \/ set_lnabounds BY <1>3, UserIInv
<1>4. CASE UNCHANGED vars
  BY <1>4 DEF vars, gui, queue, flags, server, IInv, Places, BeforeCalls, BetweenCalls,
              DuringCalls, AfterCalls, HeldByPc, NoneMade, Pushed, Told, Taken, Completed
<1>5. QED BY <1>1, <1>2, <1>3, <1>4 DEF Next, Gone

THEOREM SpecIInv == Spec => []IInv
<1>1. IInv /\ [Next]_vars => IInv' BY NextIInv
<1>2. QED BY InitIInv, <1>1, PTL DEF Spec

----------------------------------------------------------------------------
(* For whatever settings there are and in whatever order they are made: a
   request in the queue, or one the server works on, is that of a call that
   has not returned, and the two threads are never at the queue together
   (sdrplay-handler-v3.cpp:174-209, 357-364, 669-757). *)
THEOREM RequestsAreLive == Spec => []RequestsLive
<1>1. ASSUME IInv PROVE RequestsLive
  <2>1. ASSUME NEW i \in DOMAIN server_queue
        PROVE  Calling /\ server_queue[i] = request
    <3>1. server_queue # <<>> OBVIOUS
    <3>2. server_queue = <<request>> /\ guiPc \in {"release", "wait"}
      BY <1>1, <3>1 DEF IInv, Places, BeforeCalls, BetweenCalls, DuringCalls, AfterCalls,
                        NoneMade, Pushed, Told, Taken, Completed, GuiPcs
    <3>3. QED BY <3>2 DEF Calling
  <2>2. current # NoRequest => Calling /\ current = request
    BY <1>1 DEF IInv, Places, BeforeCalls, BetweenCalls, DuringCalls, AfterCalls, Calling,
                NoneMade, Pushed, Told, Taken, Completed, GuiPcs
  <2>3. pc = "popping" => guiPc # "push" /\ server_queue # <<>>
    BY <1>1 DEF IInv, Places, BeforeCalls, BetweenCalls, DuringCalls, AfterCalls, Pushed,
                GuiPcs, SetUpPc, TidyPc, Working
  <2>4. QED BY <2>1, <2>2, <2>3 DEF RequestsLive
<1>2. QED BY SpecIInv, <1>1, PTL

(* Whichever step of the set-up fails, for whatever model: when the handler is
   gone, the thread has ended and all that it held has been given back
   (sdrplay-handler-v3.cpp:122-152, 450-546, 761-791). *)
THEOREM HandlerHoldsNothingWhenGone == Spec => []NothingHeldWhenGone
<1>1. IInv => NothingHeldWhenGone BY DEF IInv, AfterCalls, HeldByPc, NothingHeldWhenGone
<1>2. QED BY SpecIInv, <1>1, PTL

----------------------------------------------------------------------------
(* The settings there are. *)
LEMMA SettingNames ==
    /\ {"freq", "GRdB", "lna", "agc"} \subseteq Settings /\ Options \subseteq Settings
    /\ "restart" \notin Settings /\ "stop" \notin Settings
    /\ \A x \in Options : x # "freq" /\ x # "GRdB" /\ x # "lna" /\ x # "agc"
BY ServerAssumption DEF Settings

(* What each setting may be. *)
LEMMA ValuesOf ==
    /\ Values["freq"] = Frequencies \cup {StartFrequency}
    /\ Values["GRdB"] = Gains
    /\ Values["lna"] = LnaReached
    /\ Values["agc"] = {0, 1}
    /\ \A x \in Options : Values[x] = {0, 1}
<1>1. Values["freq"] = Frequencies \cup {StartFrequency} BY SettingNames DEF Values
<1>2. Values["GRdB"] = Gains BY SettingNames DEF Values
<1>3. Values["lna"] = LnaReached BY SettingNames DEF Values
<1>4. Values["agc"] = {0, 1} BY SettingNames DEF Values
<1>5. ASSUME NEW x \in Options PROVE Values[x] = {0, 1} BY SettingNames DEF Values
<1>6. QED BY <1>1, <1>2, <1>3, <1>4, <1>5

LEMMA RspTypes ==
    ASSUME NEW m \in Models
    PROVE  /\ Rsp[m].start \in Nat /\ Rsp[m].clamped \in Nat
           /\ \A f \in Frequencies : Rsp[m].announced[f] \in Nat
           /\ Rsp[m].start \in LnaReached /\ Rsp[m].clamped \in LnaReached
           /\ \A f \in Frequencies : Rsp[m].announced[f] \in LnaReached
<1>1. m \in {"RSP1", "RSP1A", "RSPII", "RSPDuo", "RSPDx"} BY ServerAssumption
<1>2. CASE m = "RSP1"
  <2>1. Rsp[m] = Rsp1 BY <1>2 DEF Rsp
  <2>2. QED BY <2>1 DEF Rsp1, LnaReached
<1>3. CASE m = "RSP1A"
  <2>1. Rsp[m] = Rsp1A BY <1>3 DEF Rsp
  <2>2. QED BY <2>1 DEF Rsp1A, LnaReached
<1>4. CASE m = "RSPII"
  <2>1. Rsp[m] = RspII BY <1>4 DEF Rsp
  <2>2. QED BY <2>1 DEF RspII, LnaReached
<1>5. CASE m = "RSPDuo"
  <2>1. Rsp[m] = RspDuo BY <1>5 DEF Rsp
  <2>2. QED BY <2>1 DEF RspDuo, LnaReached
<1>6. CASE m = "RSPDx"
  <2>1. Rsp[m] = RspDx BY <1>6 DEF Rsp
  <2>2. QED BY <2>1 DEF RspDx, LnaReached
<1>7. QED BY <1>1, <1>2, <1>3, <1>4, <1>5, <1>6

LEMMA ValuesNat == \A x \in Settings : Values[x] \subseteq Nat
<1>1. LnaReached \subseteq Nat
  <2>1. ASSUME NEW n \in LnaReached PROVE n \in Nat
    <3>1. CASE n \in LnaStates \cup {3} BY <3>1, ServerAssumption
    <3>2. CASE \E m \in Models : n \in {Rsp[m].start, Rsp[m].clamped}
                                       \cup {Rsp[m].announced[f] : f \in Frequencies}
      BY <3>2, RspTypes
    <3>3. QED BY <3>1, <3>2 DEF LnaReached
  <2>2. QED BY <2>1
<1>2. Frequencies \cup {StartFrequency} \subseteq Nat BY ServerAssumption DEF StartFrequency
<1>3. Gains \subseteq Nat BY ServerAssumption
<1>4. ASSUME NEW x \in Settings PROVE Values[x] \subseteq Nat
  <2>1. x \in {"freq", "GRdB", "lna", "agc"} \/ x \in Options BY DEF Settings
  <2>2. QED BY <1>1, <1>2, <1>3, <2>1, ValuesOf
<1>5. QED BY <1>4

LEMMA UpdatePossible ==
    ASSUME NEW s \in Possible, NEW x \in Settings, NEW v \in Values[x]
    PROVE  [s EXCEPT ![x] = v] \in Possible
BY ValuesNat DEF Possible

(* The requests there are. *)
LEMMA RequestTypes ==
    /\ Request("stop", 0) \in Requests
    /\ \A f \in Frequencies : Request("restart", f) \in Requests
    /\ \A x \in Settings \ {"freq"} : \A v \in Values[x] : Request(x, v) \in Requests
BY DEF Requests

LEMMA RequestParts ==
    ASSUME NEW r \in Requests
    PROVE  /\ \/ r.cmd = "stop"
              \/ r.cmd = "restart" /\ r.value \in Frequencies
              \/ r.cmd \in Settings \ {"freq"} /\ r.value \in Values[r.cmd]
           /\ r # NoRequest
<1>1. CASE r = Request("stop", 0)
  <2>1. r \in [cmd : {"restart", "stop"} \cup Options \cup {"GRdB", "lna", "agc"}, value : Nat]
    BY <1>1 DEF Request
  <2>2. QED BY <1>1, <2>1, ServerAssumption DEF Request
<1>2. ASSUME NEW f \in Frequencies, r = Request("restart", f)
      PROVE  r.cmd = "restart" /\ r.value \in Frequencies /\ r # NoRequest
  <2>1. f \in Nat BY ServerAssumption
  <2>2. r \in [cmd : {"restart", "stop"} \cup Options \cup {"GRdB", "lna", "agc"}, value : Nat]
    BY <1>2, <2>1 DEF Request
  <2>3. QED BY <1>2, <2>2, ServerAssumption DEF Request
<1>3. ASSUME NEW x \in Settings \ {"freq"}, NEW v \in Values[x], r = Request(x, v)
      PROVE  r.cmd \in Settings \ {"freq"} /\ r.value \in Values[r.cmd] /\ r # NoRequest
  <2>1. v \in Nat BY ValuesNat
  <2>2. x \in {"restart", "stop"} \cup Options \cup {"GRdB", "lna", "agc"} BY DEF Settings
  <2>3. r \in [cmd : {"restart", "stop"} \cup Options \cup {"GRdB", "lna", "agc"}, value : Nat]
    BY <1>3, <2>1, <2>2 DEF Request
  <2>4. r # NoRequest BY <2>3, ServerAssumption
  <2>5. r.cmd = x /\ r.value = v BY <1>3 DEF Request
  <2>6. QED BY <2>4, <2>5
<1>4. QED BY <1>1, <1>2, <1>3 DEF Requests

----------------------------------------------------------------------------
(* The types, apart from what the stages of a request say. *)
Types ==
    /\ request \in Requests \cup {NoRequest} /\ follow \in Requests \cup {NoRequest}
    /\ shown \in Possible /\ applied \in Possible /\ shown["freq"] \in Frequencies
    /\ gains \in [TunerGains -> Nat] /\ \A x \in TunerGains : gains[x] \in Values[x]
    /\ lnaMax \in LnaReached \cup {Highest} /\ posted \in Seq(LnaReached)
    /\ threadRuns \in BOOLEAN /\ receiverRuns \in BOOLEAN
    /\ failFlag \in BOOLEAN /\ successFlag \in BOOLEAN
    /\ model \in Models /\ held \subseteq {"library", "api", "lock", "device", "stream"}
    /\ lost \subseteq Settings
    /\ Calling => request \in Requests
    /\ guiPc = "follow" => follow \in Requests

LEMMA InitTypes == Init => Types
<1> SUFFICES ASSUME Init PROVE Types OBVIOUS
<1>2. shown \in Possible
  <2>0. shown \in {[x \in Settings |-> CASE x = "freq" -> f [] x = "GRdB" -> g [] x = "lna" -> n
                                       [] x = "agc" -> a [] OTHER -> o[x]] :
                  f \in Frequencies, g \in Gains, n \in LnaStates, a \in {0, 1},
                  o \in [Options -> {0, 1}]}
    BY DEF Init
  <2>1. PICK f \in Frequencies, g \in Gains, n \in LnaStates, a \in {0, 1},
             o \in [Options -> {0, 1}] :
          shown = [x \in Settings |-> CASE x = "freq" -> f [] x = "GRdB" -> g [] x = "lna" -> n
                                       [] x = "agc" -> a [] OTHER -> o[x]]
    BY <2>0
  <2>2. ASSUME NEW x \in Settings PROVE shown[x] \in Values[x]
    <3>1. CASE x = "freq" BY <2>1, <3>1, ValuesOf
    <3>2. CASE x = "GRdB" BY <2>1, <3>2, ValuesOf
    <3>3. CASE x = "lna"
      <4>1. shown[x] = n BY <2>1, <3>3
      <4>2. QED BY <3>3, <4>1, ValuesOf DEF LnaReached
    <3>4. CASE x = "agc" BY <2>1, <3>4, ValuesOf
    <3>5. CASE x \in Options
      <4>1. shown[x] = o[x] BY <2>1, <3>5, SettingNames
      <4>2. QED BY <3>5, <4>1, ValuesOf
    <3>6. QED BY <3>1, <3>2, <3>3, <3>4, <3>5 DEF Settings
  <2>3. shown \in [Settings -> Nat]
    <3>1. ASSUME NEW x \in Settings PROVE shown[x] \in Nat BY <2>2, ValuesNat
    <3>2. QED BY <2>1, <3>1
  <2>4. QED BY <2>2, <2>3 DEF Possible
<1>3. applied \in Possible
  <2>1. "freq" \in Settings /\ StartFrequency \in Values["freq"] BY SettingNames, ValuesOf
  <2>2. [shown EXCEPT !["freq"] = StartFrequency] \in Possible BY <1>2, <2>1, UpdatePossible
  <2>3. "lna" \in Settings /\ 3 \in Values["lna"] BY SettingNames, ValuesOf DEF LnaReached
  <2>4. [[shown EXCEPT !["freq"] = StartFrequency] EXCEPT !["lna"] = 3] \in Possible
    BY <2>2, <2>3, UpdatePossible
  <2>5. applied = [shown EXCEPT !["freq"] = StartFrequency, !["lna"] = 3]
    BY DEF Init
  <2>6. QED BY <2>4, <2>5
<1>8. gains \in [TunerGains -> Nat] /\ \A x \in TunerGains : gains[x] \in Values[x]
  <2>1. gains = [x \in TunerGains |-> applied[x]] BY DEF Init
  <2>2. ASSUME NEW x \in TunerGains PROVE applied[x] \in Nat /\ applied[x] \in Values[x]
    BY <1>3, SettingNames DEF Possible, TunerGains
  <2>3. QED BY <2>1, <2>2
<1>4. /\ guiPc = "constructing" /\ request = NoRequest /\ follow = NoRequest
      /\ lnaMax = Highest /\ posted = <<>>
      /\ threadRuns = FALSE /\ receiverRuns = FALSE /\ failFlag = FALSE /\ successFlag = FALSE
      /\ model \in Models /\ held = {} /\ lost = {}
  BY DEF Init
<1>5. posted \in Seq(LnaReached) BY <1>4
<1>6. shown["freq"] \in Frequencies
  <2>1. shown \in {[x \in Settings |-> CASE x = "freq" -> f [] x = "GRdB" -> g [] x = "lna" -> n
                                       [] x = "agc" -> a [] OTHER -> o[x]] :
                  f \in Frequencies, g \in Gains, n \in LnaStates, a \in {0, 1},
                  o \in [Options -> {0, 1}]}
    BY DEF Init
  <2>2. QED BY <2>1, SettingNames
<1>7. QED BY <1>2, <1>3, <1>4, <1>5, <1>6, <1>8 DEF Types, Calling

(* What the constructor of a model leaves applied. *)
LEMMA CreateRspTypes ==
    ASSUME IInv, Types, CreateRsp PROVE Types'
<1>1. CASE pc' = "closeAPI" /\ UNCHANGED <<held, applied, gains, lost, posted>>
  BY <1>1 DEF CreateRsp, Types, Calling, gui, queue, flags
<1>2. CASE /\ held' = held \cup {"stream"}
           /\ \E fails \in {t \in SUBSET ({"lna"} \cup Options) :
                            \A x \in Options : x = "ppm" /\ shown[x] = 1 => x \in t} :
                LET state == IF shown["lna"] > Rsp[model].start THEN Rsp[model].clamped
                             ELSE shown["lna"]
                    taken == IF "lna" \in fails THEN 3 ELSE state
                IN  /\ gains' = [gains EXCEPT !["lna"] = state]
                    /\ applied' = [x \in Settings |->
                          CASE x = "lna" -> taken
                            [] x \in fails \cap Options -> 1 - shown[x]
                            [] OTHER -> applied[x]]
                    /\ lost' = fails \cup {"freq"}
                               \cup (IF taken # shown["lna"] THEN {"lna"} ELSE {})
           /\ posted' = IF Rsp[model].announces THEN <<Rsp[model].start>> ELSE <<>>
  <2> DEFINE state == IF shown["lna"] > Rsp[model].start THEN Rsp[model].clamped
                      ELSE shown["lna"]
  <2>1. PICK fails \in SUBSET ({"lna"} \cup Options) :
           /\ gains' = [gains EXCEPT !["lna"] = state]
           /\ applied' = [x \in Settings |->
                             CASE x = "lna" -> IF "lna" \in fails THEN 3 ELSE state
                               [] x \in fails \cap Options -> 1 - shown[x]
                               [] OTHER -> applied[x]]
           /\ lost' = fails \cup {"freq"}
                       \cup (IF (IF "lna" \in fails THEN 3 ELSE state) # shown["lna"]
                             THEN {"lna"} ELSE {})
    BY <1>2
  <2>2. state \in LnaReached /\ 3 \in LnaReached
    <3>1. shown["lna"] \in LnaReached BY SettingNames, ValuesOf DEF Types, Possible
    <3>2. Rsp[model].clamped \in LnaReached BY RspTypes DEF Types
    <3>3. QED BY <3>1, <3>2 DEF LnaReached
  <2> HIDE DEF state
  <2>3. ASSUME NEW x \in Settings PROVE applied'[x] \in Values[x]
    <3>1. CASE x = "lna" BY <2>1, <2>2, <3>1, ValuesOf
    <3>2. CASE x \in fails \cap Options
      <4>1. applied'[x] = 1 - shown[x] BY <2>1, <3>2, SettingNames
      <4>2. shown[x] \in {0, 1} BY <3>2, ValuesOf DEF Types, Possible
      <4>3. QED BY <3>2, <4>1, <4>2, ValuesOf
    <3>3. CASE x # "lna" /\ x \notin fails \cap Options
      <4>1. applied'[x] = applied[x] BY <2>1, <3>3
      <4>2. QED BY <4>1 DEF Types, Possible
    <3>4. QED BY <3>1, <3>2, <3>3
  <2>4. applied' \in [Settings -> Nat]
    <3>1. ASSUME NEW x \in Settings PROVE applied'[x] \in Nat BY <2>3, ValuesNat
    <3>2. QED BY <2>1, <3>1
  <2>5. applied' \in Possible BY <2>3, <2>4 DEF Possible
  <2>6. lost' \subseteq Settings BY <2>1, SettingNames
  <2>7. posted' \in Seq(LnaReached)
    <3>1. Rsp[model].start \in LnaReached BY RspTypes DEF Types
    <3>2. QED BY <1>2, <3>1
  <2>8. held' \subseteq {"library", "api", "lock", "device", "stream"} BY <1>2 DEF Types
  <2>10. gains' \in [TunerGains -> Nat] /\ \A x \in TunerGains : gains'[x] \in Values[x]
    <3>1. state \in Nat BY <2>2, SettingNames, ValuesNat, ValuesOf
    <3>2. gains' \in [TunerGains -> Nat] BY <2>1, <3>1 DEF Types
    <3>3. ASSUME NEW x \in TunerGains PROVE gains'[x] \in Values[x]
      <4>1. CASE x = "lna" BY <2>1, <2>2, <4>1, ValuesOf DEF Types
      <4>2. CASE x # "lna" BY <2>1, <4>2 DEF Types
      <4>3. QED BY <4>1, <4>2
    <3>4. QED BY <3>2, <3>3
  <2>9. QED BY <2>5, <2>6, <2>7, <2>8, <2>10 DEF CreateRsp, Types, Calling, gui, queue, flags
<1>3. QED BY <1>1, <1>2 DEF CreateRsp

(* A gain entered into the record of both, and what taking it up leaves. *)
LEMMA RecordTypes ==
    ASSUME Types, NEW r, r.cmd \in Settings, r.value \in Values[r.cmd]
    PROVE  /\ TakenUp(applied, gains, r) \in Possible
           /\ Entered(gains, r) \in [TunerGains -> Nat]
           /\ \A x \in TunerGains : Entered(gains, r)[x] \in Values[x]
<1>1. ASSUME NEW x \in Settings PROVE TakenUp(applied, gains, r)[x] \in Values[x]
  <2>1. applied[x] \in Values[x] BY DEF Types, Possible
  <2>2. x \in TunerGains => gains[x] \in Values[x] BY DEF Types
  <2>3. QED BY <2>1, <2>2 DEF TakenUp
<1>2. TakenUp(applied, gains, r) \in [Settings -> Nat]
  <2>1. ASSUME NEW x \in Settings PROVE TakenUp(applied, gains, r)[x] \in Nat
    BY <1>1, ValuesNat
  <2>2. QED BY <2>1 DEF TakenUp
<1>3. ASSUME NEW x \in TunerGains PROVE Entered(gains, r)[x] \in Values[x]
  BY DEF Entered, Types
<1>4. Entered(gains, r) \in [TunerGains -> Nat]
  <2>1. ASSUME NEW x \in TunerGains PROVE Entered(gains, r)[x] \in Nat
    BY <1>3, ValuesNat, SettingNames DEF TunerGains
  <2>2. QED BY <2>1 DEF Entered
<1>5. QED BY <1>1, <1>2, <1>3, <1>4 DEF Possible

LEMMA RunTypes ==
    ASSUME IInv, Types, run PROVE Types'
<1> USE DEF Types, Calling, gui, queue, flags, server
<1>1. CASE Load BY <1>1 DEF Load
<1>2. CASE OpenApi BY <1>2 DEF OpenApi
<1>3. CASE CheckVersion BY <1>3 DEF CheckVersion
<1>4. CASE SelectDevice BY <1>4 DEF SelectDevice
<1>5. CASE CreateRsp BY <1>5, CreateRspTypes
<1>6. CASE Succeed BY <1>6 DEF Succeed
<1>7. CASE TakeJob BY <1>7 DEF TakeJob
<1>8. CASE PopRequest BY <1>8 DEF PopRequest
<1>9. ASSUME pc = "performing"
      PROVE  /\ current \in Requests
             /\ \/ current.cmd = "stop"
                \/ current.cmd = "restart" /\ current.value \in Frequencies
                \/ current.cmd \in Settings \ {"freq"} /\ current.value \in Values[current.cmd]
  <2>1. Calling /\ current = request
    BY <1>9 DEF IInv, Places, BeforeCalls, BetweenCalls, DuringCalls, AfterCalls,
                NoneMade, Pushed, Told, Taken, Completed, GuiPcs, Working, SetUpPc, TidyPc
  <2>2. current \in Requests BY <2>1
  <2>3. QED BY <2>2, RequestParts
<1>10. CASE PerformRestart
  <2>1. current.cmd = "restart" /\ pc = "performing" BY <1>10 DEF PerformRestart
  <2>2. current.value \in Frequencies BY <1>9, <2>1, SettingNames
  <2>3. [applied EXCEPT !["freq"] = current.value] \in Possible
    BY <2>2, SettingNames, ValuesOf, UpdatePossible
  <2>4. Append(posted, Rsp[model].announced[current.value]) \in Seq(LnaReached)
    BY <2>2, RspTypes
  <2>5. {"freq"} \subseteq Settings BY SettingNames
  <2>6. CASE /\ applied' = [applied EXCEPT !["freq"] = current.value]
             /\ lost' = lost \ {"freq"}
             /\ posted' = Append(posted, Rsp[model].announced[current.value])
    BY <1>10, <2>3, <2>4, <2>6 DEF PerformRestart
  <2>7. CASE lost' = lost \cup {"freq"} /\ UNCHANGED <<applied, posted>>
    BY <1>10, <2>5, <2>7 DEF PerformRestart
  <2>8. QED BY <1>10, <2>6, <2>7 DEF PerformRestart
<1>11. CASE ReceiverRuns BY <1>11 DEF ReceiverRuns
<1>12. CASE PerformStop BY <1>12 DEF PerformStop
<1>13. CASE PerformSet
  <2>1. current.cmd \in Settings /\ pc = "performing" BY <1>13 DEF PerformSet
  <2>2. current.value \in Values[current.cmd] BY <1>9, <2>1, SettingNames
  <2>3. TakenUp(applied, gains, current) \in Possible
        /\ Entered(gains, current) \in [TunerGains -> Nat]
        /\ \A x \in TunerGains : Entered(gains, current)[x] \in Values[x]
    BY <2>1, <2>2, RecordTypes
  <2>4. CASE applied' = TakenUp(applied, gains, current) /\ lost' \subseteq lost
    BY <1>13, <2>3, <2>4 DEF PerformSet
  <2>5. CASE lost' = lost \cup {current.cmd} /\ UNCHANGED applied
    <3>1. lost' \subseteq Settings BY <2>1, <2>5
    <3>2. QED BY <1>13, <2>3, <2>5, <3>1 DEF PerformSet
  <2>6. QED BY <1>13, <2>4, <2>5, Zenon DEF PerformSet
<1>14. CASE Answer BY <1>14 DEF Answer
<1>15. CASE LeaveLoop BY <1>15 DEF LeaveLoop
<1>16. CASE CloseApi BY <1>16 DEF CloseApi
<1>17. CASE Uninit BY <1>17 DEF Uninit
<1>18. CASE GiveBack BY <1>18 DEF GiveBack
<1>19. CASE releaseLibrary BY <1>19 DEF releaseLibrary
<1>20. QED BY <1>1, <1>2, <1>3, <1>4, <1>5, <1>6, <1>7, <1>8, <1>10, <1>11, <1>12, <1>13, <1>14,
              <1>15, <1>16, <1>17, <1>18, <1>19 DEF run, SetUp, Serve, TidyUp

LEMMA HandlersTypes ==
    ASSUME IInv, Types, Handlers PROVE Types'
<1> USE DEF Types, Calling, queue, flags, server, Call
<1>1. CASE Constructed BY <1>1 DEF Constructed
<1>2. CASE Throw BY <1>2 DEF Throw
<1>3. CASE PushRequest BY <1>3 DEF PushRequest
<1>4. CASE ReleaseJob BY <1>4 DEF ReleaseJob
<1>5. CASE Return
  <2>1. guiPc' = "follow" => follow' \in Requests BY <1>5 DEF Return
  <2>2. guiPc' \in {"idle", "follow"} BY <1>5 DEF Return
  <2>3. QED BY <1>5, <2>1, <2>2 DEF Return
<1>6. CASE SendFollow BY <1>6 DEF SendFollow
<1>7. CASE Deleted BY <1>7 DEF Deleted
<1>8. QED BY <1>1, <1>2, <1>3, <1>4, <1>5, <1>6, <1>7 DEF Handlers

LEMMA UserTypes ==
    ASSUME IInv, Types, User \/ set_lnabounds PROVE Types'
<1> USE DEF Types, Calling, queue, flags, server, Call, Untouched
<1>1. CASE restartReader
  <2>1. Request("restart", shown["freq"]) \in Requests BY RequestTypes
  <2>2. QED BY <1>1, <2>1 DEF restartReader
<1>2. CASE stopReader BY <1>2, RequestTypes DEF stopReader
<1>3. ASSUME NEW f \in Frequencies, setVFOFrequency(f) PROVE Types'
  <2>1. Request("restart", f) \in Requests BY RequestTypes
  <2>2. [shown EXCEPT !["freq"] = f] \in Possible BY SettingNames, ValuesOf, UpdatePossible
  <2>3. [shown EXCEPT !["freq"] = f]["freq"] = f BY SettingNames DEF Possible
  <2>4. QED BY <1>3, <2>1, <2>2, <2>3 DEF setVFOFrequency
<1>4. ASSUME NEW x \in {"GRdB", "lna"}, NEW v \in Chosen[x], SetGain(x, v) PROVE Types'
  <2>1. x \in Settings \ {"freq"} /\ v \in Values[x]
    BY SettingNames, ValuesOf DEF Chosen, LnaReached
  <2>2. Request(x, v) \in Requests BY <2>1, RequestTypes
  <2>3. /\ [shown EXCEPT ![x] = v] \in Possible
        /\ [shown EXCEPT ![x] = v]["freq"] = shown["freq"]
    <3>1. [shown EXCEPT ![x] = v] \in Possible BY <2>1, UpdatePossible
    <3>2. [shown EXCEPT ![x] = v]["freq"] = shown["freq"] BY <2>1, SettingNames DEF Possible
    <3>3. QED BY <3>1, <3>2
  <2>4. CASE receiverRuns BY <1>4, <2>2, <2>3, <2>4 DEF SetGain
  <2>5. CASE ~receiverRuns BY <1>4, <2>1, <2>3, <2>5 DEF SetGain
  <2>6. QED BY <2>4, <2>5
<1>5. ASSUME NEW x \in {"agc"} \cup Options, SetSwitch(x) PROVE Types'
  <2>1. x \in Settings \ {"freq"} /\ Values[x] = {0, 1} BY SettingNames, ValuesOf
  <2>2. shown[x] \in {0, 1} BY <2>1 DEF Possible
  <2>3. 1 - shown[x] \in Values[x] BY <2>1, <2>2
  <2>4. Request(x, 1 - shown[x]) \in Requests BY <2>1, <2>3, RequestTypes
  <2>5. /\ [shown EXCEPT ![x] = 1 - shown[x]] \in Possible
        /\ [shown EXCEPT ![x] = 1 - shown[x]]["freq"] = shown["freq"]
    <3>1. [shown EXCEPT ![x] = 1 - shown[x]] \in Possible BY <2>1, <2>3, UpdatePossible
    <3>2. [shown EXCEPT ![x] = 1 - shown[x]]["freq"] = shown["freq"]
      BY <2>1, SettingNames DEF Possible
    <3>3. QED BY <3>1, <3>2
  <2>6. Request("GRdB", shown["GRdB"]) \in Requests
    <3>1. "GRdB" \in Settings \ {"freq"} BY SettingNames
    <3>2. QED BY <3>1, RequestTypes DEF Possible
  <2>7. follow' \in Requests \cup {NoRequest} BY <1>5, <2>6 DEF SetSwitch
  <2>8. guiPc' = "push" /\ request' = Request(x, 1 - shown[x])
        /\ shown' = [shown EXCEPT ![x] = 1 - shown[x]]
        /\ UNCHANGED <<lnaMax, posted, flags, server, lost>>
    BY <1>5 DEF SetSwitch
  <2>9. QED BY <2>4, <2>5, <2>7, <2>8
<1>6. CASE Delete BY <1>6 DEF Delete
<1>7. CASE set_lnabounds
  <2>1. Head(posted) \in LnaReached /\ Tail(posted) \in Seq(LnaReached)
    BY <1>7, HeadTailProperties DEF set_lnabounds
  <2>2. "lna" \in Settings \ {"freq"} /\ Head(posted) \in Values["lna"]
    BY <2>1, SettingNames, ValuesOf
  <2>3. Request("lna", Head(posted)) \in Requests BY <2>2, RequestTypes
  <2>4. /\ [shown EXCEPT !["lna"] = Head(posted)] \in Possible
        /\ [shown EXCEPT !["lna"] = Head(posted)]["freq"] = shown["freq"]
    <3>1. [shown EXCEPT !["lna"] = Head(posted)] \in Possible BY <2>2, UpdatePossible
    <3>2. [shown EXCEPT !["lna"] = Head(posted)]["freq"] = shown["freq"]
      BY SettingNames DEF Possible
    <3>3. QED BY <3>1, <3>2
  <2>5. CASE shown["lna"] <= Head(posted) BY <1>7, <2>1, <2>5 DEF set_lnabounds
  <2>6. CASE ~(shown["lna"] <= Head(posted)) /\ receiverRuns
    BY <1>7, <2>1, <2>3, <2>4, <2>6 DEF set_lnabounds
  <2>7. CASE ~(shown["lna"] <= Head(posted)) /\ ~receiverRuns
    BY <1>7, <2>1, <2>2, <2>4, <2>7 DEF set_lnabounds
  <2>8. QED BY <2>5, <2>6, <2>7
<1>8. QED BY <1>1, <1>2, <1>3, <1>4, <1>5, <1>6, <1>7 DEF User

LEMMA NextTypes ==
    ASSUME IInv, Types, [Next]_vars PROVE Types'
<1>1. CASE UNCHANGED vars BY <1>1 DEF vars, gui, queue, flags, server, Types, Calling
<1>2. QED BY <1>1, RunTypes, HandlersTypes, UserTypes DEF Next, Gone

LEMMA SpecTypes == Spec => [](IInv /\ Types)
<1>1. Init => IInv /\ Types BY InitIInv, InitTypes
<1>2. IInv /\ Types /\ [Next]_vars => (IInv /\ Types)' BY NextIInv, NextTypes
<1>3. QED BY <1>1, <1>2, PTL DEF Spec

(* The types, of the queue and the semaphore too: there is one request under
   way at most (sdrplay-handler-v3.cpp:195-209, 669-757). *)
THEOREM TypeCorrect == Spec => []TypeOK
<1>1. ASSUME IInv, Types PROVE TypeOK
  <2>1. NoneMade \/ Pushed \/ Told \/ Taken \/ Completed
    BY <1>1 DEF IInv, Places, BeforeCalls, BetweenCalls, DuringCalls, AfterCalls, GuiPcs
  <2>2. server_queue = <<>> \/ (server_queue = <<request>> /\ Calling)
    BY <1>1 DEF IInv, Places, BeforeCalls, BetweenCalls, DuringCalls, AfterCalls, GuiPcs,
                NoneMade, Pushed, Told, Taken, Completed, Calling
  <2>3. server_queue \in Seq(Requests)
    <3>1. CASE server_queue = <<>> BY <3>1
    <3>2. CASE server_queue = <<request>> /\ Calling BY <1>1, <3>2 DEF Types
    <3>3. QED BY <2>2, <3>1, <3>2
  <2>4. /\ serverjobs \in 0..1 /\ answered \in BOOLEAN
        /\ current \in {request, NoRequest}
    <3>1. serverjobs \in 0..1 BY <2>1 DEF NoneMade, Pushed, Told, Taken, Completed
    <3>2. answered \in BOOLEAN BY <2>1 DEF NoneMade, Pushed, Told, Taken, Completed
    <3>3. current \in {request, NoRequest}
      BY <2>1 DEF NoneMade, Pushed, Told, Taken, Completed
    <3>4. QED BY <3>1, <3>2, <3>3
  <2>5. {request, follow, current} \subseteq Requests \cup {NoRequest}
    BY <1>1, <2>4 DEF Types
  <2>6. {answered, threadRuns, receiverRuns, failFlag, successFlag} \subseteq BOOLEAN
    BY <1>1, <2>4 DEF Types
  <2>7. QED BY <1>1, <2>3, <2>4, <2>5, <2>6 DEF Types, TypeOK, IInv, Places
<1>2. QED BY SpecTypes, <1>1, PTL

----------------------------------------------------------------------------
(* What a request is about, and whether a change is still on its way. *)
Target(r)   == IF r.cmd = "restart" THEN "freq" ELSE r.cmd
UnderWay(x) == Calling /\ ~Done /\ request.cmd # "stop" /\ Target(request) = x
Early       == {"load", "open", "version", "select", "create"}
Operating   == {"succeed"} \cup Loop

(* Before the model is constructed nothing but the frequency and the lna
   differs from what is shown; *)
AtFirst ==
    pc \in Early => applied = [shown EXCEPT !["freq"] = StartFrequency, !["lna"] = 3]

(* a request asks for what is shown, and so does the one that follows it; *)
AskedIsShown ==
    /\ Calling /\ request.cmd # "stop" => request.value = shown[Target(request)]
    /\ follow # NoRequest => follow = Request("GRdB", shown["GRdB"])
    /\ guiPc \in {"constructing", "idle"} => follow = NoRequest

(* a setting the device does not have is lost or on its way; *)
Agreement ==
    pc \in Operating =>
       \A x \in Settings : x \in lost \/ shown[x] = applied[x] \/ UnderWay(x)

(* and the bound of the lna for the frequency is either the widget's, or the
   last that was announced. *)
LnaBound ==
    pc \in Operating =>
       \/ "freq" \in lost
       \/ /\ posted = <<>>
          /\ lnaMax = Rsp[model].announced[applied["freq"]] /\ shown["lna"] <= lnaMax
       \/ posted # <<>> /\ posted[Len(posted)] = Rsp[model].announced[applied["freq"]]

SInv == AtFirst /\ AskedIsShown /\ Agreement /\ LnaBound

(* A gain that is not lost is in the record as the device has it, so that what
   the other takes along is what was taken before. *)
Recorded == \A x \in TunerGains : (x \in lost /\ pc \notin Early) \/ gains[x] = applied[x]

LEMMA NextRecorded ==
    ASSUME Types, Recorded, [Next]_vars PROVE Recorded'
<1> USE DEF gui, queue, flags, server
<1>1. ASSUME UNCHANGED <<applied, gains>>, lost \subseteq lost', pc' \in Early => pc \in Early
      PROVE  Recorded'
  BY <1>1 DEF Recorded
<1>2. CASE run
  <2>1. CASE Load BY <1>1, <2>1 DEF Load, Early
  <2>2. CASE OpenApi BY <1>1, <2>2 DEF OpenApi, Early
  <2>3. CASE CheckVersion BY <1>1, <2>3 DEF CheckVersion, Early
  <2>4. CASE SelectDevice BY <1>1, <2>4 DEF SelectDevice, Early
  <2>5. CASE CreateRsp
    <3>1. CASE pc' = "closeAPI"
      BY <1>1, <2>5, <3>1 DEF CreateRsp, Early
    <3>2. CASE pc' = "succeed"
      <4> DEFINE state == IF shown["lna"] > Rsp[model].start THEN Rsp[model].clamped
                          ELSE shown["lna"]
      <4>1. PICK fails \in SUBSET ({"lna"} \cup Options) :
               /\ gains' = [gains EXCEPT !["lna"] = state]
               /\ applied' = [x \in Settings |->
                                 CASE x = "lna" -> IF "lna" \in fails THEN 3 ELSE state
                                   [] x \in fails \cap Options -> 1 - shown[x]
                                   [] OTHER -> applied[x]]
               /\ lost' = fails \cup {"freq"}
                           \cup (IF (IF "lna" \in fails THEN 3 ELSE state) # shown["lna"]
                                 THEN {"lna"} ELSE {})
        BY <2>5, <3>2 DEF CreateRsp
      <4> HIDE DEF state
      <4>2. pc' \notin Early BY <3>2 DEF Early
      <4>3. gains'["GRdB"] = applied'["GRdB"]
        <5>1. gains'["GRdB"] = gains["GRdB"] BY <4>1 DEF Types, TunerGains
        <5>2. applied'["GRdB"] = applied["GRdB"] BY <4>1, SettingNames
        <5>3. pc \in Early BY <2>5 DEF CreateRsp, Early
        <5>4. QED BY <5>1, <5>2, <5>3 DEF Recorded, TunerGains
      <4>4. "lna" \in lost' \/ gains'["lna"] = applied'["lna"]
        <5>1. gains'["lna"] = state BY <4>1 DEF Types, TunerGains
        <5>2. applied'["lna"] = IF "lna" \in fails THEN 3 ELSE state BY <4>1, SettingNames
        <5>3. "lna" \in fails => "lna" \in lost' BY <4>1
        <5>4. QED BY <5>1, <5>2, <5>3
      <4>5. QED BY <4>2, <4>3, <4>4 DEF Recorded, TunerGains
    <3>3. QED BY <2>5, <3>1, <3>2 DEF CreateRsp
  <2>6. CASE Succeed BY <1>1, <2>6 DEF Succeed, Early
  <2>7. CASE TakeJob BY <1>1, <2>7 DEF TakeJob, Early
  <2>8. CASE PopRequest BY <1>1, <2>8 DEF PopRequest, Early
  <2>9. CASE PerformRestart
    <3>1. pc \notin Early /\ pc' \notin Early /\ gains' = gains
      BY <2>9 DEF PerformRestart, Early
    <3>2. ASSUME NEW x \in TunerGains
          PROVE  applied'[x] = applied[x] /\ (x \in lost => x \in lost')
      <4>1. x \in Settings /\ x # "freq" BY SettingNames DEF TunerGains
      <4>2. CASE applied' = [applied EXCEPT !["freq"] = current.value] /\ lost' = lost \ {"freq"}
        BY <4>1, <4>2 DEF Types, Possible
      <4>3. CASE lost' = lost \cup {"freq"} /\ UNCHANGED applied BY <4>1, <4>3
      <4>4. QED BY <2>9, <4>2, <4>3 DEF PerformRestart
    <3>3. QED BY <3>1, <3>2 DEF Recorded
  <2>10. CASE ReceiverRuns BY <1>1, <2>10 DEF ReceiverRuns, Early
  <2>11. CASE PerformStop BY <1>1, <2>11 DEF PerformStop, Early
  <2>12. CASE PerformSet
    <3>1. pc \notin Early /\ pc' \notin Early /\ gains' = Entered(gains, current)
      BY <2>12 DEF PerformSet, Early
    <3>2. CASE applied' = TakenUp(applied, gains, current)
      <4>1. ASSUME NEW x \in TunerGains PROVE x \in lost' \/ gains'[x] = applied'[x]
        <5>1. x \in Settings BY SettingNames DEF TunerGains
        <5>2. gains'[x] = IF x = current.cmd THEN current.value ELSE gains[x]
          BY <3>1 DEF Entered
        <5>3. applied'[x] = IF x = current.cmd THEN current.value
                            ELSE IF {x, current.cmd} \subseteq TunerGains THEN gains[x]
                            ELSE applied[x]
          BY <3>2, <5>1 DEF TakenUp
        <5>4. CASE x = current.cmd \/ {x, current.cmd} \subseteq TunerGains
          BY <5>2, <5>3, <5>4
        <5>5. CASE x # current.cmd /\ ~({x, current.cmd} \subseteq TunerGains)
          <6>1. x \in lost \/ gains[x] = applied[x] BY DEF Recorded
          <6>2. \/ lost' = {y \in lost \ {current.cmd} :
                               ~({y, current.cmd} \subseteq TunerGains /\ gains[y] = shown[y])}
                \/ lost' = lost \cup {current.cmd}
            BY <2>12 DEF PerformSet
          <6>3. x \in lost => x \in lost' BY <5>5, <6>2
          <6>4. QED BY <5>2, <5>3, <5>5, <6>1, <6>3
        <5>6. QED BY <5>4, <5>5
      <4>2. QED BY <3>1, <4>1 DEF Recorded
    <3>3. CASE lost' = lost \cup {current.cmd} /\ UNCHANGED applied
      <4>1. ASSUME NEW x \in TunerGains PROVE x \in lost' \/ gains'[x] = applied'[x]
        <5>1. gains'[x] = IF x = current.cmd THEN current.value ELSE gains[x]
          BY <3>1 DEF Entered
        <5>2. QED BY <3>3, <5>1 DEF Recorded
      <4>2. QED BY <3>1, <4>1 DEF Recorded
    <3>4. QED BY <2>12, <3>2, <3>3, Zenon DEF PerformSet
  <2>13. CASE Answer BY <1>1, <2>13 DEF Answer, Early
  <2>14. CASE LeaveLoop BY <1>1, <2>14 DEF LeaveLoop, Early
  <2>15. CASE CloseApi BY <1>1, <2>15 DEF CloseApi, Early
  <2>16. CASE Uninit BY <1>1, <2>16 DEF Uninit, Early
  <2>17. CASE GiveBack BY <1>1, <2>17 DEF GiveBack, Early
  <2>18. CASE releaseLibrary BY <1>1, <2>18 DEF releaseLibrary, Early
  <2>19. QED BY <1>2, <2>1, <2>2, <2>3, <2>4, <2>5, <2>6, <2>7, <2>8, <2>9, <2>10, <2>11, <2>12,
                <2>13, <2>14, <2>15, <2>16, <2>17, <2>18 DEF run, SetUp, Serve, TidyUp
<1>3. CASE Handlers
  BY <1>1, <1>3 DEF Handlers, Constructed, Throw, PushRequest, ReleaseJob, Return, SendFollow,
                    Deleted, Call
<1>4. CASE User \/ set_lnabounds
  <2>1. CASE restartReader BY <1>1, <2>1 DEF restartReader, Untouched
  <2>2. CASE stopReader BY <1>1, <2>2 DEF stopReader, Untouched
  <2>3. ASSUME NEW f \in Frequencies, setVFOFrequency(f) PROVE Recorded'
    BY <1>1, <2>3 DEF setVFOFrequency, Untouched
  <2>4. ASSUME NEW x \in {"GRdB", "lna"}, NEW v \in Chosen[x], SetGain(x, v) PROVE Recorded'
    BY <1>1, <2>4 DEF SetGain, Untouched
  <2>5. ASSUME NEW x \in {"agc"} \cup Options, SetSwitch(x) PROVE Recorded'
    BY <1>1, <2>5 DEF SetSwitch, Untouched
  <2>6. CASE Delete BY <1>1, <2>6 DEF Delete
  <2>7. CASE set_lnabounds BY <1>1, <2>7 DEF set_lnabounds
  <2>8. QED BY <1>4, <2>1, <2>2, <2>3, <2>4, <2>5, <2>6, <2>7 DEF User
<1>5. CASE UNCHANGED vars BY <1>1, <1>5 DEF vars
<1>6. QED BY <1>2, <1>3, <1>4, <1>5 DEF Next, Gone

LEMMA SpecRecorded == Spec => []Recorded
<1>1. Init => Recorded BY DEF Init, Recorded
<1>2. Types /\ Recorded /\ [Next]_vars => Recorded' BY NextRecorded
<1>3. QED BY <1>1, <1>2, SpecTypes, PTL DEF Spec

(* The last of a queue stays so when the first is taken. *)
LEMMA LastOfTail ==
    ASSUME NEW S, NEW q \in Seq(S), q # <<>>
    PROVE  \/ Tail(q) = <<>> /\ Head(q) = q[Len(q)]
           \/ Tail(q) # <<>> /\ Tail(q)[Len(Tail(q))] = q[Len(q)]
<1>1. Len(q) \in Nat /\ Len(q) # 0 OBVIOUS
<1>2. /\ Tail(q) \in Seq(S) /\ Len(Tail(q)) = Len(q) - 1 /\ Head(q) = q[1]
      /\ \A i \in 1..Len(q) - 1 : Tail(q)[i] = q[i + 1]
  OBVIOUS
<1>3. CASE Len(q) = 1
  <2>1. Len(Tail(q)) = 0 BY <1>2, <1>3
  <2>2. Tail(q) = <<>> BY <1>2, <2>1, EmptySeq
  <2>3. QED BY <1>2, <1>3, <2>2
<1>4. CASE Len(q) # 1
  <2>0. \A k \in Nat : k # 0 /\ k # 1 => k - 1 \in 1..k - 1 /\ k - 1 # 0 /\ (k - 1) + 1 = k
    OBVIOUS
  <2>1. Len(q) - 1 \in 1..Len(q) - 1 /\ Len(q) - 1 # 0 /\ (Len(q) - 1) + 1 = Len(q)
    BY <1>1, <1>4, <2>0
  <2>2. Tail(q)[Len(q) - 1] = q[(Len(q) - 1) + 1] BY <1>2, <2>1
  <2>3. Tail(q) # <<>> BY <1>2, <2>1, EmptySeq
  <2>4. QED BY <1>2, <2>1, <2>2, <2>3
<1>5. QED BY <1>3, <1>4

LEMMA InitSInv == Init => SInv
BY DEF Init, SInv, AtFirst, AskedIsShown, Agreement, LnaBound, Calling, Early, Operating, Loop,
       Working

(* The constructor of the model. *)
LEMMA CreateRspSInv ==
    ASSUME IInv, Types, SInv, CreateRsp PROVE SInv'
<1>1. UNCHANGED gui /\ pc = "create" BY DEF CreateRsp
<1>2. CASE pc' = "closeAPI"
  BY <1>1, <1>2 DEF SInv, AtFirst, AskedIsShown, Agreement, LnaBound, Calling, Early, Operating,
                    Loop, Working, gui
<1>3. CASE pc' = "succeed"
  <2> DEFINE state == IF shown["lna"] > Rsp[model].start THEN Rsp[model].clamped
                      ELSE shown["lna"]
  <2>1. PICK fails \in SUBSET ({"lna"} \cup Options) :
           /\ gains' = [gains EXCEPT !["lna"] = state]
           /\ applied' = [x \in Settings |->
                             CASE x = "lna" -> IF "lna" \in fails THEN 3 ELSE state
                               [] x \in fails \cap Options -> 1 - shown[x]
                               [] OTHER -> applied[x]]
           /\ lost' = fails \cup {"freq"}
                       \cup (IF (IF "lna" \in fails THEN 3 ELSE state) # shown["lna"]
                             THEN {"lna"} ELSE {})
    BY <1>3 DEF CreateRsp
  <2> HIDE DEF state
  <2>2. ASSUME NEW x \in Settings PROVE x \in lost' \/ shown[x] = applied'[x]
    <3>1. CASE x = "lna" BY <2>1, <3>1
    <3>2. CASE x \in fails \/ x = "freq" BY <2>1, <3>2
    <3>3. CASE x # "lna" /\ x # "freq" /\ x \notin fails
      <4>1. applied'[x] = applied[x] BY <2>1, <3>3
      <4>2. applied[x] = shown[x]
        BY <1>1, <3>3, SettingNames DEF SInv, AtFirst, Early, Types, Possible
      <4>3. QED BY <4>1, <4>2
    <3>4. QED BY <3>1, <3>2, <3>3
  <2>3. "freq" \in lost' BY <2>1
  <2>4. AtFirst' BY <1>3 DEF AtFirst, Early
  <2>5. AskedIsShown' BY <1>1 DEF SInv, AskedIsShown, gui, Calling
  <2>6. Agreement' BY <1>1, <2>2 DEF Agreement, gui
  <2>7. LnaBound' BY <2>3 DEF LnaBound
  <2>8. QED BY <2>4, <2>5, <2>6, <2>7 DEF SInv
<1>4. QED BY <1>2, <1>3 DEF CreateRsp

(* A request is carried out, or refused. *)
LEMMA PerformSInv ==
    ASSUME IInv, Types, Recorded, SInv, PerformRestart \/ PerformStop \/ PerformSet PROVE SInv'
<1>1. pc = "performing" /\ pc' \in {"restarted", "done"} /\ UNCHANGED <<gui, queue, model>>
  BY DEF PerformRestart, PerformStop, PerformSet
<1>2. Calling /\ current = request /\ request \in Requests
  <2>1. Calling /\ current = request
    BY <1>1 DEF IInv, Places, BeforeCalls, BetweenCalls, DuringCalls, AfterCalls, Calling,
                NoneMade, Pushed, Told, Taken, Completed, GuiPcs, Working, SetUpPc, TidyPc
  <2>2. QED BY <2>1 DEF Types
<1>3. AtFirst' BY <1>1 DEF AtFirst, Early
<1>4. AskedIsShown' BY <1>1 DEF SInv, AskedIsShown, gui, Calling
<1>5. request.cmd # "stop" => request.value = shown[Target(request)]
  BY <1>2 DEF SInv, AskedIsShown
<1>6. pc \in Operating /\ pc' \in Operating BY <1>1 DEF Operating, Loop, Working
<1>7. ASSUME NEW x \in Settings, request.cmd = "stop" \/ Target(request) # x
      PROVE  x \in lost \/ shown[x] = applied[x]
  BY <1>6, <1>7 DEF SInv, Agreement, UnderWay
<1>8. CASE PerformRestart
  <2>1. request.cmd = "restart" /\ Target(request) = "freq" /\ "freq" \in Settings
    BY <1>2, <1>8, SettingNames DEF PerformRestart, Target
  <2>2. request.value = shown["freq"] BY <1>5, <2>1
  <2>3. CASE lost' = lost \cup {"freq"} /\ UNCHANGED applied
    <3>1. Agreement' BY <1>1, <1>7, <2>1, <2>3 DEF Agreement, gui
    <3>2. LnaBound' BY <2>3 DEF LnaBound
    <3>3. QED BY <1>3, <1>4, <3>1, <3>2 DEF SInv
  <2>4. CASE /\ applied' = [applied EXCEPT !["freq"] = current.value]
             /\ lost' = lost \ {"freq"}
             /\ posted' = Append(posted, Rsp[model].announced[current.value])
    <3>1. applied' = [applied EXCEPT !["freq"] = request.value] BY <1>2, <2>4
    <3>2. /\ applied'["freq"] = request.value
          /\ \A x \in Settings \ {"freq"} : applied'[x] = applied[x]
      BY <2>1, <3>1 DEF Types, Possible
    <3>3. ASSUME NEW x \in Settings PROVE x \in lost' \/ shown[x] = applied'[x]
      <4>1. CASE x = "freq" BY <2>2, <3>2, <4>1
      <4>2. CASE x # "freq" BY <1>7, <2>1, <2>4, <3>2, <4>2
      <4>3. QED BY <4>1, <4>2
    <3>4. Agreement' BY <1>1, <3>3 DEF Agreement, gui
    <3>5. LnaBound'
      <4> DEFINE h == Rsp[model].announced[request.value]
      <4>1. request.value \in Frequencies BY <2>2 DEF Types
      <4>2. h \in LnaReached BY <4>1, RspTypes DEF Types
      <4>3. posted' = Append(posted, h) BY <1>2, <2>4
      <4>4. h = Rsp[model'].announced[applied'["freq"]] BY <1>1, <3>2
      <4> HIDE DEF h
      <4>5. Append(posted, h) # <<>> /\ Append(posted, h)[Len(Append(posted, h))] = h
        BY <4>2, AppendProperties DEF Types
      <4>6. QED BY <4>3, <4>4, <4>5 DEF LnaBound
    <3>6. QED BY <1>3, <1>4, <3>4, <3>5 DEF SInv
  <2>5. QED BY <1>8, <2>3, <2>4 DEF PerformRestart
<1>9. CASE PerformStop
  <2>1. request.cmd = "stop" /\ UNCHANGED <<posted, applied, lost>>
    BY <1>2, <1>9 DEF PerformStop
  <2>2. Agreement' BY <1>1, <1>7, <2>1 DEF Agreement, gui
  <2>3. LnaBound' BY <1>1, <1>6, <2>1 DEF SInv, LnaBound, gui
  <2>4. QED BY <1>3, <1>4, <2>2, <2>3 DEF SInv
<1>10. CASE PerformSet
  <2> DEFINE c == request.cmd
  <2>1. c \in Settings \ {"freq"} /\ c # "stop" /\ Target(request) = c
    BY <1>2, <1>10, SettingNames, RequestParts DEF PerformSet, Target
  <2>2. request.value = shown[c] BY <1>5, <2>1
  <2>3. CASE lost' = lost \cup {current.cmd} /\ UNCHANGED applied
    <3>1. lost' = lost \cup {c} /\ ("freq" \in lost' <=> "freq" \in lost) BY <1>2, <2>1, <2>3
    <3>2. Agreement' BY <1>1, <1>7, <2>1, <2>3, <3>1 DEF Agreement, gui
    <3>3. UNCHANGED posted BY <1>10 DEF PerformSet
    <3>4. LnaBound' BY <1>1, <1>6, <2>3, <3>1, <3>3 DEF SInv, LnaBound, gui
    <3>5. QED BY <1>3, <1>4, <3>2, <3>4 DEF SInv
  <2>4. CASE /\ applied' = TakenUp(applied, gains, current)
             /\ lost' = {x \in lost \ {current.cmd} :
                            ~({x, current.cmd} \subseteq TunerGains /\ gains[x] = shown[x])}
    <3>1. /\ applied' = TakenUp(applied, gains, request)
          /\ lost' = {x \in lost \ {c} : ~({x, c} \subseteq TunerGains /\ gains[x] = shown[x])}
      BY <1>2, <2>4
    <3>2. /\ applied'[c] = request.value
          /\ \A x \in Settings \ {c} :
                applied'[x] = IF {x, c} \subseteq TunerGains THEN gains[x] ELSE applied[x]
      BY <2>1, <3>1 DEF TakenUp
    <3>3. ASSUME NEW x \in Settings PROVE x \in lost' \/ shown[x] = applied'[x]
      <4>1. CASE x = c BY <2>2, <3>2, <4>1
      <4>2. CASE x # c /\ ~({x, c} \subseteq TunerGains)
        <5>1. x \in lost \/ shown[x] = applied[x] BY <1>7, <2>1, <4>2
        <5>2. applied'[x] = applied[x] BY <3>2, <4>2
        <5>3. QED BY <3>1, <4>2, <5>1, <5>2
      <4>3. CASE x # c /\ {x, c} \subseteq TunerGains
        <5>1. x \in lost \/ shown[x] = applied[x] BY <1>7, <2>1, <4>3
        <5>2. x \in lost \/ gains[x] = applied[x] BY <4>3 DEF Recorded
        <5>3. applied'[x] = gains[x] BY <3>2, <4>3
        <5>4. QED BY <3>1, <4>3, <5>1, <5>2, <5>3
      <4>4. QED BY <4>1, <4>2, <4>3
    <3>4. Agreement' BY <1>1, <3>3 DEF Agreement, gui
    <3>5. UNCHANGED posted /\ applied'["freq"] = applied["freq"]
          /\ ("freq" \in lost' <=> "freq" \in lost)
      <4>1. "freq" \in Settings \ {c} /\ "freq" \notin TunerGains
        BY <2>1, SettingNames DEF TunerGains
      <4>2. UNCHANGED posted BY <1>10 DEF PerformSet
      <4>3. QED BY <3>1, <3>2, <4>1, <4>2
    <3>6. LnaBound' BY <1>1, <1>6, <3>5 DEF SInv, LnaBound, gui
    <3>7. QED BY <1>3, <1>4, <3>4, <3>6 DEF SInv
  <2>5. QED BY <1>10, <2>3, <2>4 DEF PerformSet
<1>11. QED BY <1>8, <1>9, <1>10

LEMMA RunSInv ==
    ASSUME IInv, Types, Recorded, SInv, run PROVE SInv'
<1> USE DEF gui, queue, flags, server
(* what happens before the model is constructed, and after the loop *)
<1>1. ASSUME UNCHANGED <<guiPc, request, follow, shown, applied>>,
             pc' \in Early => pc \in Early, pc' \notin Operating
      PROVE  SInv'
  BY <1>1 DEF SInv, AtFirst, AskedIsShown, Agreement, LnaBound, Calling
(* what neither begins nor ends the carrying out of a request *)
<1>2. ASSUME UNCHANGED <<guiPc, request, follow, shown, lnaMax, posted, model, applied, lost>>,
             pc \in Operating, pc' \in Operating, Done' <=> Done
      PROVE  SInv'
  <2>1. AtFirst' BY <1>2 DEF AtFirst, Early, Operating, Loop, Working
  <2>2. AskedIsShown' BY <1>2 DEF SInv, AskedIsShown, Calling
  <2>3. LnaBound' BY <1>2 DEF SInv, LnaBound
  <2>4. Agreement' BY <1>2 DEF SInv, Agreement, UnderWay, Calling
  <2>5. QED BY <2>1, <2>2, <2>3, <2>4 DEF SInv
<1>3. CASE Load BY <1>1, <1>3 DEF Load, Early, Operating, Loop, Working
<1>4. CASE OpenApi BY <1>1, <1>4 DEF OpenApi, Early, Operating, Loop, Working
<1>5. CASE CheckVersion BY <1>1, <1>5 DEF CheckVersion, Early, Operating, Loop, Working
<1>6. CASE SelectDevice BY <1>1, <1>6 DEF SelectDevice, Early, Operating, Loop, Working
<1>7. CASE CreateRsp BY <1>7, CreateRspSInv
<1>8. CASE Succeed BY <1>2, <1>8 DEF Succeed, Operating, Loop, Working, Done, Calling
<1>9. CASE TakeJob BY <1>2, <1>9 DEF TakeJob, Operating, Loop, Working, Done, Calling
<1>10. CASE PopRequest BY <1>2, <1>10 DEF PopRequest, Operating, Loop, Working, Done, Calling
<1>11. CASE PerformRestart \/ PerformStop \/ PerformSet BY <1>11, PerformSInv
<1>12. CASE ReceiverRuns BY <1>2, <1>12 DEF ReceiverRuns, Operating, Loop, Working, Done, Calling
<1>13. CASE Answer BY <1>2, <1>13 DEF Answer, Operating, Loop, Working, Done, Calling
<1>14. CASE LeaveLoop BY <1>1, <1>14 DEF LeaveLoop, Early, Operating, Loop, Working
<1>15. CASE CloseApi BY <1>1, <1>15 DEF CloseApi, Early, Operating, Loop, Working
<1>16. CASE Uninit BY <1>1, <1>16 DEF Uninit, Early, Operating, Loop, Working
<1>17. CASE GiveBack BY <1>1, <1>17 DEF GiveBack, Early, Operating, Loop, Working
<1>18. CASE releaseLibrary BY <1>1, <1>18 DEF releaseLibrary, Early, Operating, Loop, Working
<1>19. QED BY <1>3, <1>4, <1>5, <1>6, <1>7, <1>8, <1>9, <1>10, <1>11, <1>12, <1>13, <1>14, <1>15,
              <1>16, <1>17, <1>18 DEF run, SetUp, Serve, TidyUp

LEMMA HandlersSInv ==
    ASSUME IInv, Types, SInv, Handlers PROVE SInv'
<1> USE DEF queue, flags, server, Call
<1>1. UNCHANGED <<shown, lnaMax, applied, lost, model, pc>>
  BY DEF Handlers, Constructed, Throw, PushRequest, ReleaseJob, Return, SendFollow, Deleted
<1>2. AtFirst' BY <1>1 DEF SInv, AtFirst
<1>3. ASSUME UNCHANGED posted PROVE LnaBound' BY <1>1, <1>3 DEF SInv, LnaBound
<1>4. CASE Constructed
  <2>1. AskedIsShown' BY <1>1, <1>4 DEF SInv, AskedIsShown, Constructed, Calling
  <2>2. Agreement' BY <1>1, <1>4 DEF SInv, Agreement, Constructed, UnderWay, Calling
  <2>3. QED BY <1>2, <1>3, <1>4, <2>1, <2>2 DEF SInv, Constructed
<1>5. CASE Throw \/ Deleted
  <2>1. pc' \notin Operating BY <1>1, <1>5 DEF Throw, Deleted, Operating, Loop, Working
  <2>2. AskedIsShown' BY <1>1, <1>5 DEF SInv, AskedIsShown, Throw, Deleted, Calling
  <2>3. QED BY <1>2, <2>1, <2>2 DEF SInv, Agreement, LnaBound
<1>6. CASE PushRequest \/ ReleaseJob
  <2>1. Calling /\ Calling' /\ UNCHANGED <<request, follow, posted, answered>>
        /\ guiPc' \notin {"constructing", "idle"}
    BY <1>6 DEF PushRequest, ReleaseJob, Calling
  <2>2. AskedIsShown' BY <1>1, <2>1 DEF SInv, AskedIsShown
  <2>3. Done' <=> Done BY <1>1, <2>1 DEF Done
  <2>4. Agreement' BY <1>1, <2>1, <2>3 DEF SInv, Agreement, UnderWay
  <2>5. QED BY <1>2, <1>3, <2>1, <2>2, <2>4 DEF SInv
<1>7. CASE Return
  <2>1. guiPc = "wait" /\ guiPc' = (IF follow = NoRequest THEN "idle" ELSE "follow")
        /\ UNCHANGED <<follow, posted>> /\ (answered \/ ~threadRuns)
    BY <1>7 DEF Return
  <2>2. Done
    BY <2>1 DEF IInv, DuringCalls, Told, Pushed, Taken, Completed, Done, Calling
  <2>3. ~Calling' BY <2>1 DEF Calling
  <2>4. AskedIsShown' BY <1>1, <2>1, <2>3 DEF SInv, AskedIsShown
  <2>5. Agreement' BY <1>1, <2>2, <2>3 DEF SInv, Agreement, UnderWay
  <2>6. QED BY <1>2, <1>3, <2>1, <2>4, <2>5 DEF SInv
<1>8. CASE SendFollow
  <2>1. guiPc = "follow" /\ guiPc' = "push" /\ request' = follow /\ follow' = NoRequest
        /\ UNCHANGED posted
    BY <1>8 DEF SendFollow
  <2>2. follow = Request("GRdB", shown["GRdB"])
    <3>1. follow # NoRequest BY <2>1, RequestParts DEF Types
    <3>2. QED BY <3>1 DEF SInv, AskedIsShown
  <2>3. request'.value = shown[Target(request')] BY <2>1, <2>2 DEF Request, Target
  <2>4. AskedIsShown' BY <1>1, <2>1, <2>3 DEF AskedIsShown
  <2>5. Agreement' BY <1>1, <2>1 DEF SInv, Agreement, UnderWay, Calling
  <2>6. QED BY <1>2, <1>3, <2>1, <2>4, <2>5 DEF SInv
<1>9. QED BY <1>4, <1>5, <1>6, <1>7, <1>8 DEF Handlers

(* A change by the user, or by the bounds of the widget. *)
LEMMA UserSInv ==
    ASSUME IInv, Types, SInv, User \/ set_lnabounds PROVE SInv'
<1> USE DEF queue, flags, server, Call, Untouched
<1>1. guiPc = "idle" /\ UNCHANGED <<pc, model, applied>>
  BY DEF User, restartReader, stopReader, setVFOFrequency, SetGain, SetSwitch, Delete,
         set_lnabounds
<1>2. pc = "waiting" /\ answered = FALSE /\ ~Calling /\ follow = NoRequest
  BY <1>1 DEF IInv, BetweenCalls, NoneMade, Calling, SInv, AskedIsShown
<1>3. \A x \in Settings : x \in lost \/ shown[x] = applied[x]
  BY <1>2 DEF SInv, Agreement, UnderWay, Operating, Loop
<1>4. AtFirst' BY <1>1, <1>2 DEF AtFirst, Early
<1>5. ASSUME UNCHANGED <<shown, lnaMax, posted, lost>> PROVE LnaBound'
  BY <1>1, <1>5 DEF SInv, LnaBound
(* a setting is changed, and asked for *)
<1>6. ASSUME NEW x \in Settings, NEW r,
             guiPc' = "push", request' = r, UNCHANGED <<answered, lost>>,
             r.cmd # "stop", Target(r) = x, r.value = shown'[x],
             \A y \in Settings \ {x} : shown'[y] = shown[y],
             follow' = NoRequest \/ follow' = Request("GRdB", shown'["GRdB"])
      PROVE  AskedIsShown' /\ Agreement'
  <2>1. ~Done' BY <1>1, <1>2, <1>6 DEF Done
  <2>2. UnderWay(x)' BY <1>6, <2>1 DEF UnderWay, Calling
  <2>3. \A y \in Settings : y \in lost' \/ shown'[y] = applied'[y] \/ UnderWay(y)'
    <3>1. ASSUME NEW y \in Settings PROVE y \in lost' \/ shown'[y] = applied'[y] \/ UnderWay(y)'
      <4>1. CASE y = x BY <2>2, <4>1
      <4>2. CASE y # x BY <1>1, <1>3, <1>6, <4>2
      <4>3. QED BY <4>1, <4>2
    <3>2. QED BY <3>1
  <2>4. AskedIsShown' BY <1>6 DEF AskedIsShown
  <2>5. QED BY <2>3, <2>4 DEF Agreement
(* a setting is changed, and not asked for *)
<1>7. ASSUME NEW x \in Settings, guiPc' = "idle", lost' = lost \cup {x}, UNCHANGED follow,
             \A y \in Settings \ {x} : shown'[y] = shown[y]
      PROVE  AskedIsShown' /\ Agreement'
  BY <1>1, <1>2, <1>3, <1>7 DEF AskedIsShown, Agreement, Calling
<1>8. CASE restartReader
  <2>1. "freq" \in Settings BY SettingNames
  <2>2. Target(Request("restart", shown["freq"])) = "freq" BY DEF Target, Request
  <2>3. AskedIsShown' /\ Agreement'
    BY <1>2, <1>6, <1>8, <2>1, <2>2 DEF restartReader, Request
  <2>4. QED BY <1>4, <1>5, <1>8, <2>3 DEF restartReader, SInv
<1>9. CASE stopReader
  <2>1. request'.cmd = "stop" BY <1>9 DEF stopReader, Request
  <2>2. AskedIsShown' BY <1>2, <1>9, <2>1 DEF AskedIsShown, stopReader
  <2>3. Agreement' BY <1>1, <1>3, <1>9 DEF Agreement, stopReader
  <2>4. QED BY <1>4, <1>5, <1>9, <2>2, <2>3 DEF stopReader, SInv
<1>10. ASSUME NEW f \in Frequencies, setVFOFrequency(f) PROVE SInv'
  <2>1. "freq" \in Settings /\ "lna" \in Settings BY SettingNames
  <2>2. shown' = [shown EXCEPT !["freq"] = f] BY <1>10 DEF setVFOFrequency
  <2>3. shown'["freq"] = f /\ \A y \in Settings \ {"freq"} : shown'[y] = shown[y]
    BY <2>1, <2>2 DEF Types, Possible
  <2>4. Target(Request("restart", f)) = "freq" /\ Request("restart", f).value = f
        /\ Request("restart", f).cmd # "stop"
    BY DEF Target, Request
  <2>5. AskedIsShown' /\ Agreement'
    BY <1>2, <1>6, <1>10, <2>1, <2>3, <2>4 DEF setVFOFrequency
  <2>6. LnaBound' BY <1>1, <1>10, <2>1, <2>3 DEF SInv, LnaBound, setVFOFrequency
  <2>7. QED BY <1>4, <2>5, <2>6 DEF SInv
<1>11. ASSUME NEW x \in {"GRdB", "lna"}, NEW v \in Chosen[x], SetGain(x, v) PROVE SInv'
  <2>1. x \in Settings /\ "lna" \in Settings /\ x # "freq" BY SettingNames
  <2>2. shown' = [shown EXCEPT ![x] = v] /\ (x = "lna" => v <= lnaMax)
        /\ UNCHANGED <<follow, lnaMax, posted>>
    BY <1>11 DEF SetGain
  <2>3. shown'[x] = v /\ \A y \in Settings \ {x} : shown'[y] = shown[y]
    BY <2>1, <2>2 DEF Types, Possible
  <2>4. Target(Request(x, v)) = x /\ Request(x, v).value = v /\ Request(x, v).cmd # "stop"
    BY DEF Target, Request
  <2>5. shown["lna"] <= lnaMax => shown'["lna"] <= lnaMax BY <2>1, <2>2, <2>3
  <2>6. CASE receiverRuns
    <3>1. guiPc' = "push" /\ request' = Request(x, v) /\ UNCHANGED <<answered, lost>>
      BY <1>11, <2>6 DEF SetGain
    <3>2. AskedIsShown' /\ Agreement' BY <1>2, <1>6, <2>1, <2>2, <2>3, <2>4, <3>1
    <3>3. LnaBound' BY <1>1, <2>2, <2>5, <3>1 DEF SInv, LnaBound
    <3>4. QED BY <1>4, <3>2, <3>3 DEF SInv
  <2>7. CASE ~receiverRuns
    <3>1. guiPc' = "idle" /\ lost' = lost \cup {x} BY <1>1, <1>11, <2>7 DEF SetGain
    <3>2. AskedIsShown' /\ Agreement' BY <1>7, <2>1, <2>2, <2>3, <3>1
    <3>3. LnaBound' BY <1>1, <2>2, <2>5, <3>1 DEF SInv, LnaBound
    <3>4. QED BY <1>4, <3>2, <3>3 DEF SInv
  <2>8. QED BY <2>6, <2>7
<1>12. ASSUME NEW x \in {"agc"} \cup Options, SetSwitch(x) PROVE SInv'
  <2>1. x \in Settings /\ "lna" \in Settings /\ "GRdB" \in Settings
        /\ x # "lna" /\ x # "GRdB" /\ x # "stop" /\ x # "restart"
    BY SettingNames
  <2>2. shown' = [shown EXCEPT ![x] = 1 - shown[x]] /\ UNCHANGED <<lnaMax, posted, lost>>
    BY <1>12 DEF SetSwitch
  <2>3. shown'[x] = 1 - shown[x] /\ \A y \in Settings \ {x} : shown'[y] = shown[y]
    BY <2>1, <2>2 DEF Types, Possible
  <2>4. /\ Target(Request(x, 1 - shown[x])) = x /\ Request(x, 1 - shown[x]).cmd # "stop"
        /\ Request(x, 1 - shown[x]).value = shown'[x]
    BY <2>1, <2>3 DEF Target, Request
  <2>5. follow' = NoRequest \/ follow' = Request("GRdB", shown'["GRdB"])
    BY <1>12, <2>1, <2>3 DEF SetSwitch
  <2>6. guiPc' = "push" /\ request' = Request(x, 1 - shown[x]) /\ UNCHANGED answered
    BY <1>12 DEF SetSwitch
  <2>7. AskedIsShown' /\ Agreement'
    BY <1>6, <2>1, <2>2, <2>3, <2>4, <2>5, <2>6
  <2>8. LnaBound' BY <1>1, <2>1, <2>2, <2>3 DEF SInv, LnaBound
  <2>9. QED BY <1>4, <2>7, <2>8 DEF SInv
<1>13. CASE Delete
  <2>1. guiPc' = "deleting" /\ UNCHANGED <<follow, shown, lnaMax, posted, lost>>
    BY <1>13 DEF Delete
  <2>2. AskedIsShown' BY <1>2, <2>1 DEF AskedIsShown, Calling
  <2>3. Agreement' BY <1>1, <1>3, <2>1 DEF Agreement
  <2>4. QED BY <1>4, <1>5, <2>1, <2>2, <2>3 DEF SInv
<1>14. CASE set_lnabounds
  <2> DEFINE h == Head(posted)
  <2>1. "lna" \in Settings /\ "freq" \in Settings BY SettingNames
  <2>2. posted # <<>> /\ posted' = Tail(posted) /\ lnaMax' = h /\ UNCHANGED follow
    BY <1>14 DEF set_lnabounds
  <2>3. h \in Nat
    <3>1. h \in LnaReached BY <2>2, HeadTailProperties DEF Types
    <3>2. QED BY <2>1, <3>1, ValuesOf, ValuesNat
  <2>4. shown["lna"] \in Nat BY <2>1 DEF Types, Possible
  <2>5. "freq" \notin lost =>
           \/ posted' = <<>> /\ lnaMax' = Rsp[model].announced[applied["freq"]]
           \/ posted' # <<>> /\ posted'[Len(posted')] = Rsp[model].announced[applied["freq"]]
    <3>1. "freq" \notin lost => posted[Len(posted)] = Rsp[model].announced[applied["freq"]]
      BY <1>2, <2>2 DEF SInv, LnaBound, Operating, Loop
    <3>2. \/ Tail(posted) = <<>> /\ h = posted[Len(posted)]
          \/ Tail(posted) # <<>> /\ Tail(posted)[Len(Tail(posted))] = posted[Len(posted)]
      BY <2>2, LastOfTail DEF Types
    <3>3. QED BY <2>2, <3>1, <3>2
  <2> HIDE DEF h
  <2>6. CASE shown["lna"] <= h
    <3>1. UNCHANGED <<shown, guiPc, lost>> BY <1>14, <2>6 DEF set_lnabounds, h
    <3>2. AskedIsShown' BY <1>1, <1>2, <2>2, <3>1 DEF AskedIsShown, Calling
    <3>3. Agreement' BY <1>1, <1>3, <3>1 DEF Agreement
    <3>4. LnaBound' BY <1>1, <2>2, <2>5, <2>6, <3>1 DEF LnaBound
    <3>5. QED BY <1>4, <3>2, <3>3, <3>4 DEF SInv
  <2>7. CASE ~(shown["lna"] <= h)
    <3>1. shown' = [shown EXCEPT !["lna"] = h] BY <1>14, <2>7 DEF set_lnabounds, h
    <3>2. shown'["lna"] = h /\ \A y \in Settings \ {"lna"} : shown'[y] = shown[y]
      BY <2>1, <3>1 DEF Types, Possible
    <3>3. shown'["lna"] <= lnaMax' BY <2>2, <2>3, <3>2
    <3>4. ("freq" \in lost' <=> "freq" \in lost) => LnaBound'
      BY <1>1, <2>5, <3>3 DEF LnaBound
    <3>5. CASE receiverRuns
      <4>1. guiPc' = "push" /\ request' = Request("lna", h) /\ UNCHANGED <<answered, lost>>
        BY <1>14, <2>7, <3>5 DEF set_lnabounds, h
      <4>2. Target(Request("lna", h)) = "lna" /\ Request("lna", h).value = h
            /\ Request("lna", h).cmd # "stop"
        BY DEF Target, Request
      <4>3. AskedIsShown' /\ Agreement' BY <1>2, <1>6, <2>1, <2>2, <3>2, <4>1, <4>2
      <4>4. QED BY <1>4, <3>4, <4>1, <4>3 DEF SInv
    <3>6. CASE ~receiverRuns
      <4>1. guiPc' = "idle" /\ lost' = lost \cup {"lna"}
        BY <1>1, <1>14, <2>7, <3>6 DEF set_lnabounds, h
      <4>2. AskedIsShown' /\ Agreement' BY <1>7, <2>1, <2>2, <3>2, <4>1
      <4>3. QED BY <1>4, <3>4, <4>1, <4>2 DEF SInv
    <3>7. QED BY <3>5, <3>6
  <2>8. QED BY <2>6, <2>7
<1>15. QED BY <1>8, <1>9, <1>10, <1>11, <1>12, <1>13, <1>14 DEF User

LEMMA NextSInv ==
    ASSUME IInv, Types, Recorded, SInv, [Next]_vars PROVE SInv'
<1>1. CASE UNCHANGED vars
  BY <1>1 DEF vars, gui, queue, flags, server, SInv, AtFirst, AskedIsShown, Agreement, LnaBound,
              UnderWay, Calling, Done
<1>2. QED BY <1>1, RunSInv, HandlersSInv, UserSInv DEF Next, Gone

(* For whatever models, settings, frequencies and bounds there are, and in
   whatever order changes, refusals and announced bounds come: when the GUI is
   idle and the bounds have arrived, what the widgets show is what the device
   has, unless the last change was refused or made while the receiver was
   stopped, and the lna is within the bound announced for the frequency; a
   gain that is refused, and stays in the record of both, upsets neither
   (sdrplay-handler-v3.cpp:195-209, 299-301, Rsp1A-handler.cpp:86-130,
   Rsp-device.cpp:174-188). *)
THEOREM ShownIsInEffect == Spec => []ShownIsApplied
<1>1. IInv /\ SInv => ShownIsApplied
  <2> SUFFICES ASSUME IInv, SInv, guiPc = "idle", posted = <<>>
               PROVE  /\ \A x \in Settings \ lost : shown[x] = applied[x]
                      /\ "freq" \notin lost => shown["lna"] <= Rsp[model].announced[applied["freq"]]
    BY DEF ShownIsApplied
  <2>1. pc \in Operating BY DEF IInv, BetweenCalls, Operating, Loop
  <2>2. ~Calling BY DEF Calling
  <2>3. QED BY <2>1, <2>2 DEF SInv, Agreement, LnaBound, UnderWay
<1>2. SInv /\ IInv /\ Types /\ Recorded /\ [Next]_vars => SInv' BY NextSInv
<1>3. QED BY InitSInv, SpecTypes, SpecRecorded, <1>1, <1>2, PTL DEF Spec

----------------------------------------------------------------------------
(* The device that is asked synchronously: what leaves it as it is, ... *)
LEMMA Stutters ==
    ASSUME UNCHANGED <<threadRuns, Asked, Done, State>>
    PROVE  [Device!Next]_(Device!vars)
BY DEF Device!vars

LEMMA StateParts ==
    /\ State.running = (receiverRuns \/ pc = "restarted")
    /\ State.settings = applied /\ State.gains = gains
BY DEF State, AsDevice

(* ... and what the steps of the server thread are to it. *)
LEMMA RunIsDevice ==
    ASSUME IInv, Types, Types', run PROVE [Device!Next]_(Device!vars)
<1> USE DEF gui, queue, flags, server
<1>1. ASSUME UNCHANGED <<guiPc, request, answered, threadRuns, receiverRuns, applied, gains>>,
             pc \notin {"restarted", "done"}, pc' \notin {"restarted", "done"}
      PROVE  [Device!Next]_(Device!vars)
  <2>1. UNCHANGED Asked BY <1>1 DEF Asked, Calling
  <2>2. UNCHANGED Done BY <1>1 DEF Done, Calling
  <2>3. UNCHANGED State BY <1>1 DEF State
  <2>4. QED BY <1>1, <2>1, <2>2, <2>3, Stutters
<1>2. CASE Load BY <1>1, <1>2 DEF Load
<1>3. CASE OpenApi BY <1>1, <1>3 DEF OpenApi
<1>4. CASE CheckVersion BY <1>1, <1>4 DEF CheckVersion
<1>5. CASE SelectDevice BY <1>1, <1>5 DEF SelectDevice
<1>6. CASE CreateRsp
  <2>1. /\ pc = "create" /\ pc' \in {"succeed", "closeAPI"}
        /\ UNCHANGED <<guiPc, request, answered, threadRuns, receiverRuns>>
    BY <1>6 DEF CreateRsp
  <2>2. threadRuns = FALSE /\ guiPc = "constructing"
    BY <2>1 DEF IInv, Places, BeforeCalls, BetweenCalls, DuringCalls, AfterCalls, GuiPcs,
                Working, TidyPc, SetUpPc
  <2>3. UNCHANGED Asked BY <2>1 DEF Asked, Calling
  <2>4. UNCHANGED Done BY <2>1, <2>2 DEF Done, Calling
  <2>5. State' \in DeviceStates
    BY <2>1 DEF State, AsDevice, Types, DeviceStates
  <2>6. Device!Prepare BY <2>1, <2>2, <2>3, <2>4, <2>5 DEF Device!Prepare
  <2>7. QED BY <2>6 DEF Device!Next
<1>7. CASE Succeed
  <2>1. /\ pc = "succeed" /\ pc' = "waiting" /\ threadRuns' = TRUE
        /\ UNCHANGED <<guiPc, request, answered, receiverRuns, applied, gains>>
    BY <1>7 DEF Succeed
  <2>2. threadRuns = FALSE
    BY <2>1 DEF IInv, Places, BeforeCalls, BetweenCalls, DuringCalls, AfterCalls, GuiPcs,
                Working, TidyPc, SetUpPc
  <2>3. UNCHANGED Asked BY <2>1 DEF Asked, Calling
  <2>4. UNCHANGED Done BY <2>1 DEF Done, Calling
  <2>5. UNCHANGED State BY <2>1 DEF State
  <2>6. Device!Open BY <2>1, <2>2, <2>3, <2>4, <2>5 DEF Device!Open
  <2>7. QED BY <2>6 DEF Device!Next
<1>8. CASE TakeJob BY <1>1, <1>8 DEF TakeJob
<1>9. CASE PopRequest BY <1>1, <1>9 DEF PopRequest
<1>10. ASSUME pc = "performing"
       PROVE  /\ Calling /\ current = request /\ answered = FALSE
              /\ request \in Requests /\ request # NoRequest
  <2>1. Calling /\ current = request /\ answered = FALSE
    BY <1>10 DEF IInv, Places, BeforeCalls, BetweenCalls, DuringCalls, AfterCalls, Calling,
                 NoneMade, Pushed, Told, Taken, Completed, GuiPcs, Working, SetUpPc, TidyPc
  <2>2. request \in Requests BY <2>1 DEF Types
  <2>3. QED BY <2>1, <2>2, RequestParts
<1>11. ASSUME pc = "performing", pc' \in {"restarted", "done"},
              UNCHANGED <<guiPc, request, threadRuns, answered>>, State' \in Carried(request, State)
       PROVE  [Device!Next]_(Device!vars)
  <2>1. Asked = request /\ Asked' = Asked BY <1>10, <1>11 DEF Asked, Calling
  <2>2. ~Done BY <1>10, <1>11 DEF Done
  <2>3. Done' = TRUE BY <1>10, <1>11 DEF Done, Calling
  <2>4. Device!Perform BY <1>10, <1>11, <2>1, <2>2, <2>3 DEF Device!Perform
  <2>5. QED BY <2>4 DEF Device!Next
<1>12. CASE PerformRestart
  <2>1. /\ pc = "performing" /\ current.cmd = "restart" /\ pc' = "restarted"
        /\ UNCHANGED <<guiPc, request, threadRuns, answered, receiverRuns>>
        /\ \/ applied' = [applied EXCEPT !["freq"] = current.value]
           \/ applied' = applied
        /\ gains' = gains
    BY <1>12 DEF PerformRestart
  <2>2. request.cmd = "restart" /\ current = request BY <1>10, <2>1
  <2>3. (receiverRuns' \/ pc' = "restarted") = TRUE BY <2>1
  <2>4. CASE applied' = [applied EXCEPT !["freq"] = current.value]
    <3>1. State' = AsDevice(TRUE, [State.settings EXCEPT !["freq"] = request.value], State.gains)
      BY <2>1, <2>2, <2>3, <2>4, StateParts DEF State
    <3>2. State' \in Carried(request, State) BY <2>2, <3>1 DEF Carried
    <3>3. QED BY <1>11, <2>1, <3>2
  <2>5. CASE applied' = applied
    <3>1. State' = AsDevice(TRUE, State.settings, State.gains)
      BY <2>1, <2>3, <2>5, StateParts DEF State
    <3>2. State' \in Carried(request, State) BY <2>2, <3>1 DEF Carried
    <3>3. QED BY <1>11, <2>1, <3>2
  <2>6. QED BY <2>1, <2>4, <2>5
<1>13. CASE ReceiverRuns
  <2>1. /\ pc = "restarted" /\ pc' = "done" /\ receiverRuns' = TRUE
        /\ UNCHANGED <<guiPc, request, threadRuns, answered, applied, gains>>
    BY <1>13 DEF ReceiverRuns
  <2>2. UNCHANGED Asked BY <2>1 DEF Asked, Calling
  <2>3. UNCHANGED Done BY <2>1 DEF Done, Calling
  <2>4. UNCHANGED State BY <2>1 DEF State
  <2>5. QED BY <2>1, <2>2, <2>3, <2>4, Stutters
<1>14. CASE PerformStop
  <2>1. /\ pc = "performing" /\ current.cmd = "stop" /\ pc' = "done" /\ receiverRuns' = FALSE
        /\ UNCHANGED <<guiPc, request, threadRuns, answered, applied, gains>>
    BY <1>14 DEF PerformStop
  <2>2. request.cmd = "stop" BY <1>10, <2>1
  <2>3. State' = AsDevice(FALSE, State.settings, State.gains)
    <3>1. (receiverRuns' \/ pc' = "restarted") = FALSE BY <2>1
    <3>2. QED BY <2>1, <3>1, StateParts DEF State
  <2>4. State' \in Carried(request, State) BY <2>2, <2>3 DEF Carried
  <2>5. QED BY <1>11, <2>1, <2>4
<1>15. CASE PerformSet
  <2>1. /\ pc = "performing" /\ current.cmd \in Settings /\ pc' = "done"
        /\ UNCHANGED <<guiPc, request, threadRuns, answered, receiverRuns>>
        /\ gains' = Entered(gains, current)
        /\ \/ applied' = TakenUp(applied, gains, current)
           \/ applied' = applied
    BY <1>15 DEF PerformSet
  <2>2. current = request /\ request.cmd # "stop" /\ request.cmd # "restart"
    BY <1>10, <2>1, SettingNames
  <2>3. (receiverRuns' \/ pc' = "restarted") = State.running
    <3>1. (receiverRuns' \/ pc' = "restarted") = (receiverRuns \/ pc = "restarted") BY <2>1
    <3>2. QED BY <3>1, StateParts
  <2>4. gains' = Entered(State.gains, request) BY <2>1, <2>2, StateParts
  <2>5. CASE applied' = TakenUp(applied, gains, current)
    <3>1. applied' = TakenUp(State.settings, State.gains, request) BY <2>2, <2>5, StateParts
    <3>2. State' = AsDevice(State.running, TakenUp(State.settings, State.gains, request),
                            Entered(State.gains, request))
      BY <2>3, <2>4, <3>1 DEF State
    <3>3. State' \in Carried(request, State) BY <2>2, <3>2 DEF Carried
    <3>4. QED BY <1>11, <2>1, <3>3
  <2>6. CASE applied' = applied
    <3>1. State' = AsDevice(State.running, State.settings, Entered(State.gains, request))
      BY <2>3, <2>4, <2>6, StateParts DEF State
    <3>2. State' \in Carried(request, State) BY <2>2, <3>1 DEF Carried
    <3>3. QED BY <1>11, <2>1, <3>2
  <2>7. QED BY <2>1, <2>5, <2>6
<1>16. CASE Answer
  <2>1. /\ pc = "done" /\ pc' = "waiting" /\ answered' = TRUE
        /\ UNCHANGED <<guiPc, request, threadRuns, receiverRuns, applied, gains>>
    BY <1>16 DEF Answer
  <2>2. UNCHANGED Asked BY <2>1 DEF Asked, Calling
  <2>3. UNCHANGED Done BY <2>1 DEF Done, Calling
  <2>4. UNCHANGED State BY <2>1 DEF State
  <2>5. QED BY <2>1, <2>2, <2>3, <2>4, Stutters
<1>17. CASE LeaveLoop BY <1>1, <1>17 DEF LeaveLoop
<1>18. CASE CloseApi BY <1>1, <1>18 DEF CloseApi
<1>19. CASE Uninit BY <1>1, <1>19 DEF Uninit
<1>20. CASE GiveBack BY <1>1, <1>20 DEF GiveBack
<1>21. CASE releaseLibrary BY <1>1, <1>21 DEF releaseLibrary
<1>22. QED BY <1>2, <1>3, <1>4, <1>5, <1>6, <1>7, <1>8, <1>9, <1>12, <1>13, <1>14, <1>15, <1>16,
              <1>17, <1>18, <1>19, <1>20, <1>21 DEF run, SetUp, Serve, TidyUp

(* What the GUI thread's steps are to it. *)
LEMMA GuiIsDevice ==
    ASSUME IInv, Types, Types', Handlers \/ User \/ set_lnabounds
    PROVE  [Device!Next]_(Device!vars)
<1> USE DEF queue, flags, server, Call, Untouched
<1>1. ASSUME ~Calling, ~Calling', UNCHANGED <<threadRuns, receiverRuns, pc, applied, gains>>
      PROVE  [Device!Next]_(Device!vars)
  <2>1. UNCHANGED Asked BY <1>1 DEF Asked
  <2>2. UNCHANGED Done BY <1>1 DEF Done
  <2>3. UNCHANGED State BY <1>1 DEF State
  <2>4. QED BY <1>1, <2>1, <2>2, <2>3, Stutters
<1>2. ASSUME Calling, Calling', UNCHANGED <<request, answered, threadRuns, receiverRuns, pc, applied, gains>>
      PROVE  [Device!Next]_(Device!vars)
  <2>1. UNCHANGED Asked BY <1>2 DEF Asked
  <2>2. UNCHANGED Done BY <1>2 DEF Done
  <2>3. UNCHANGED State BY <1>2 DEF State
  <2>4. QED BY <1>2, <2>1, <2>2, <2>3, Stutters
(* a call *)
<1>3. ASSUME guiPc \in {"idle", "follow"}, guiPc' = "push",
             UNCHANGED <<answered, threadRuns, receiverRuns, pc, applied, gains>>
      PROVE  [Device!Next]_(Device!vars)
  <2>1. threadRuns = TRUE /\ pc = "waiting" /\ answered = FALSE
    BY <1>3 DEF IInv, BetweenCalls, NoneMade, Types
  <2>2. Asked = NoRequest BY <1>3 DEF Asked, Calling
  <2>3. Asked' \in Requests BY <1>3 DEF Asked, Calling, Types
  <2>4. Done' = FALSE BY <1>3, <2>1 DEF Done
  <2>5. UNCHANGED State BY <1>3 DEF State
  <2>6. Device!Ask BY <1>3, <2>1, <2>2, <2>3, <2>4, <2>5 DEF Device!Ask
  <2>7. QED BY <2>6 DEF Device!Next
<1>4. CASE Constructed BY <1>1, <1>4 DEF Constructed, Calling
<1>5. CASE Throw BY <1>1, <1>5 DEF Throw, Calling
<1>6. CASE PushRequest BY <1>2, <1>6 DEF PushRequest, Calling
<1>7. CASE ReleaseJob BY <1>2, <1>7 DEF ReleaseJob, Calling
<1>8. CASE Return
  <2>1. /\ guiPc = "wait" /\ guiPc' \in {"idle", "follow"} /\ (answered \/ ~threadRuns)
        /\ UNCHANGED <<threadRuns, receiverRuns, pc, applied, gains>>
    BY <1>8 DEF Return
  <2>2. answered = TRUE
    BY <2>1 DEF IInv, DuringCalls, Told, Pushed, Taken, Completed
  <2>3. Calling /\ ~Calling' BY <2>1 DEF Calling
  <2>4. Asked = request /\ Asked' = NoRequest BY <2>3 DEF Asked
  <2>5. request # NoRequest BY <2>3, RequestParts DEF Types
  <2>6. Done /\ Done' = FALSE BY <2>2, <2>3 DEF Done
  <2>7. UNCHANGED State BY <2>1 DEF State
  <2>8. Device!Return BY <2>1, <2>4, <2>5, <2>6, <2>7 DEF Device!Return
  <2>9. QED BY <2>8 DEF Device!Next
<1>9. CASE SendFollow BY <1>3, <1>9 DEF SendFollow
<1>10. CASE Deleted BY <1>1, <1>10 DEF Deleted, Calling
<1>11. CASE restartReader BY <1>3, <1>11 DEF restartReader
<1>12. CASE stopReader BY <1>3, <1>12 DEF stopReader
<1>13. ASSUME NEW f \in Frequencies, setVFOFrequency(f) PROVE [Device!Next]_(Device!vars)
  BY <1>3, <1>13 DEF setVFOFrequency
<1>14. ASSUME NEW x \in {"GRdB", "lna"}, NEW v \in Chosen[x], SetGain(x, v)
       PROVE  [Device!Next]_(Device!vars)
  <2>1. CASE receiverRuns BY <1>3, <1>14, <2>1 DEF SetGain
  <2>2. CASE ~receiverRuns BY <1>1, <1>14, <2>2 DEF SetGain, Calling
  <2>3. QED BY <2>1, <2>2
<1>15. ASSUME NEW x \in {"agc"} \cup Options, SetSwitch(x) PROVE [Device!Next]_(Device!vars)
  BY <1>3, <1>15 DEF SetSwitch
<1>16. CASE Delete
  <2>1. /\ guiPc = "idle" /\ guiPc' = "deleting" /\ threadRuns' = FALSE
        /\ UNCHANGED <<receiverRuns, pc, applied, gains>>
    BY <1>16 DEF Delete
  <2>2. threadRuns = TRUE BY <2>1 DEF IInv, BetweenCalls, Types
  <2>3. ~Calling /\ ~Calling' BY <2>1 DEF Calling
  <2>4. Asked = NoRequest /\ Asked' = NoRequest BY <2>3 DEF Asked
  <2>5. UNCHANGED Done BY <2>3 DEF Done
  <2>6. UNCHANGED State BY <2>1 DEF State
  <2>7. Device!Close BY <2>1, <2>2, <2>4, <2>5, <2>6 DEF Device!Close
  <2>8. QED BY <2>7 DEF Device!Next
<1>17. CASE set_lnabounds
  <2>1. guiPc = "idle" /\ guiPc' \in {"idle", "push"}
        /\ UNCHANGED <<answered, threadRuns, receiverRuns, pc, applied, gains>>
    BY <1>17 DEF set_lnabounds
  <2>2. CASE guiPc' = "idle" BY <1>1, <2>1, <2>2 DEF Calling
  <2>3. CASE guiPc' = "push" BY <1>3, <2>1, <2>3
  <2>4. QED BY <2>1, <2>2, <2>3
<1>18. QED BY <1>4, <1>5, <1>6, <1>7, <1>8, <1>9, <1>10, <1>11, <1>12, <1>13, <1>14, <1>15, <1>16,
              <1>17 DEF Handlers, User

(* "Communication with that thread is synchronous!": whatever models, settings
   and bounds there are, each request is carried out exactly once, between the
   call and its return (sdrplay-handler-v3.cpp:286-288). *)
THEOREM Synchronous == Spec => IsSynchronous
<1>1. Init => Device!Init
  <2> SUFFICES ASSUME Init PROVE Device!Init OBVIOUS
  <2>1. Types BY InitTypes
  <2>2. threadRuns = FALSE /\ guiPc = "constructing" BY DEF Init
  <2>3. Asked = NoRequest /\ Done = FALSE BY <2>2 DEF Asked, Done, Calling
  <2>4. State \in DeviceStates
    <3>1. receiverRuns = FALSE /\ pc = "load" BY DEF Init
    <3>2. QED BY <2>1, <3>1 DEF Types, State, AsDevice, DeviceStates
  <2>5. QED BY <2>2, <2>3, <2>4 DEF Device!Init
<1>2. IInv /\ Types /\ (IInv /\ Types)' /\ [Next]_vars => [Device!Next]_(Device!vars)
  <2> SUFFICES ASSUME IInv, Types, Types', [Next]_vars PROVE [Device!Next]_(Device!vars)
    OBVIOUS
  <2>1. CASE UNCHANGED vars
    <3>1. UNCHANGED <<guiPc, request, answered, threadRuns, receiverRuns, pc, applied, gains>>
      BY <2>1 DEF vars, gui, queue, flags, server
    <3>2. UNCHANGED Asked BY <3>1 DEF Asked, Calling
    <3>3. UNCHANGED Done BY <3>1 DEF Done, Calling
    <3>4. UNCHANGED State BY <3>1 DEF State
    <3>5. QED BY <3>1, <3>2, <3>3, <3>4, Stutters
  <2>2. CASE run BY <2>2, RunIsDevice
  <2>3. CASE Handlers \/ User \/ set_lnabounds BY <2>3, GuiIsDevice
  <2>4. QED BY <2>1, <2>2, <2>3 DEF Next, Gone
<1>3. QED BY <1>1, <1>2, SpecTypes, PTL DEF Spec, IsSynchronous, Device!Spec
=============================================================================
