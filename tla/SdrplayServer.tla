---------------------------- MODULE SdrplayServer ----------------------------
(***************************************************************************)
(* The handler of the SDRplay devices (sdrplay-handler-v3.cpp with the     *)
(* classes of the Rsp models).  All calls of the library are made by one   *)
(* thread, which the GUI thread sends requests to, through a queue without *)
(* a lock, and waits for; the requests are on the stack of the GUI thread. *)
(* The thread announces by queued signals how far the lna can be set, and  *)
(* the widget that is clamped by that sends a request of its own.          *)
(*                                                                         *)
(* The library is external: any call of it may fail.                       *)
(***************************************************************************)
EXTENDS Naturals, Sequences, FiniteSets

CONSTANTS Models,          (* of those below, the ones that may be found   *)
          Frequencies,     (* in MHz; StartFrequency is none of them       *)
          Gains,           (* values for GRdB                              *)
          LnaStates,       (* values the user chooses for the lna          *)
          Options,         (* switches: bias tee, antenna, ppm             *)
          MaxPosted,       (* bound: signals queued for the widget         *)
          NoRequest

StartFrequency == 14                \* KHz (14070)

ASSUME ServerAssumption ==
    /\ Models \subseteq {"RSP1", "RSP1A", "RSPII", "RSPDuo", "RSPDx"} /\ Models # {}
    /\ Frequencies \subseteq Nat \ {StartFrequency} /\ Frequencies # {}
    /\ Gains \subseteq Nat /\ Gains # {} /\ LnaStates \subseteq Nat /\ LnaStates # {}
    /\ Options \cap {"freq", "GRdB", "lna", "agc", "restart", "stop"} = {}
    /\ NoRequest \notin [cmd : {"restart", "stop"} \cup Options \cup {"GRdB", "lna", "agc"},
                         value : Nat]

Settings == {"freq", "GRdB", "lna", "agc"} \cup Options

----------------------------------------------------------------------------
(* The models: the bound the constructor takes for the lna at the start, what it
   then clamps a higher one to, whether it announces that bound, and the bound
   it announces for a frequency.  (Most of them are numbers of states, which is
   one more than the highest state.) *)
Rsp1   == [start |-> 4, clamped |-> 4, announces |-> TRUE,
           announced |-> [f \in Frequencies |-> 3]]
Rsp1A  == [start |-> 7, clamped |-> 7, announces |-> TRUE,
           announced |-> [f \in Frequencies |-> IF f < 60 THEN 7 ELSE IF f < 1000 THEN 10 ELSE 9]]
RspII  == [start |-> 9, clamped |-> 8, announces |-> FALSE,
           announced |-> [f \in Frequencies |-> IF f < 420 THEN 9 ELSE 6]]
RspDuo == [start |-> 10, clamped |-> 10, announces |-> TRUE,
           announced |-> [f \in Frequencies |-> IF f < 60 THEN 7 ELSE IF f < 1000 THEN 10 ELSE 9]]
RspDx  == [start |-> 19, clamped |-> 18, announces |-> TRUE,
           announced |-> [f \in Frequencies |->
              IF f < 60 THEN 19 ELSE IF f < 250 THEN 27 ELSE IF f < 420 THEN 28
              ELSE IF f < 1000 THEN 21 ELSE 19]]

Rsp == [RSP1 |-> Rsp1, RSP1A |-> Rsp1A, RSPII |-> RspII, RSPDuo |-> RspDuo, RSPDx |-> RspDx]

Smaller(a, b) == IF a < b THEN a ELSE b

(* Every value the lna setting can get to. *)
LnaReached == LnaStates \cup {3}
              \cup UNION {{Rsp[m].start, Rsp[m].clamped} \cup
                          {Rsp[m].announced[f] : f \in Frequencies} : m \in Models}
Highest    == 99                    \* of the widget, before anything is announced

Values == [x \in Settings |-> CASE x = "freq" -> Frequencies \cup {StartFrequency}
                                [] x = "GRdB" -> Gains
                                [] x = "lna"  -> LnaReached
                                [] OTHER      -> {0, 1}]
TunerGains == {"GRdB", "lna"}       \* of one record, handed over as a whole
Possible == {s \in [Settings -> Nat] : \A x \in Settings : s[x] \in Values[x]}

Request(c, v) == [cmd |-> c, value |-> v]
Requests == {Request("stop", 0)}
            \cup {Request("restart", f) : f \in Frequencies}
            \cup UNION {{Request(x, v) : v \in Values[x]} : x \in Settings \ {"freq"}}

VARIABLES
    \* the GUI thread
    guiPc, request,  (* the request it waits for                           *)
    follow,          (* the request set_agcControl sends next, if any      *)
    shown,           (* the widgets' settings, and vfoFrequency            *)
    lnaMax,          (* the upper bound of lnaGainSetting                  *)
    posted,          (* set_lnabounds signals queued for it                *)
    \* between the threads
    server_queue, serverjobs,
    answered,        (* waiter of the request                              *)
    threadRuns, receiverRuns, failFlag, successFlag,
    \* the server thread
    pc, current,     (* the request it works on                            *)
    model,
    held,            (* what it has to give back: library, api, lock, ...  *)
    applied,         (* what the library was told, and took                *)
    gains,           (* tunerParams.gain, of which that may be more        *)
    \* history
    lost             (* settings whose last change the device did not get  *)

gui    == <<guiPc, request, follow, shown, lnaMax>>
queue  == <<server_queue, serverjobs, answered>>
flags  == <<threadRuns, receiverRuns, failFlag, successFlag>>
server == <<pc, current, model, held, applied, gains>>
vars   == <<gui, posted, queue, flags, server, lost>>

(* The constructor takes the settings from the file and starts the thread,
   which resets its flags. *)
Init ==
    /\ guiPc = "constructing" /\ request = NoRequest /\ follow = NoRequest
    /\ shown \in {[x \in Settings |-> CASE x = "freq" -> f [] x = "GRdB" -> g [] x = "lna" -> n
                                       [] x = "agc" -> a [] OTHER -> o[x]] :
                  f \in Frequencies, g \in Gains, n \in LnaStates, a \in {0, 1},
                  o \in [Options -> {0, 1}]}
    /\ lnaMax = Highest /\ posted = <<>>
    /\ server_queue = <<>> /\ serverjobs = 0 /\ answered = FALSE
    /\ threadRuns = FALSE /\ receiverRuns = FALSE /\ failFlag = FALSE /\ successFlag = FALSE
    /\ pc = "load" /\ current = NoRequest /\ model \in Models /\ held = {}
    /\ applied = [shown EXCEPT !["freq"] = StartFrequency, !["lna"] = 3]
    /\ gains = [x \in TunerGains |-> applied[x]]
    /\ lost = {}

----------------------------------------------------------------------------
(* The server thread: run.  Each step of the set-up may fail. *)
Load ==
    /\ pc = "load" /\ held' = held \cup {"library"}
    /\ \/ pc' = "open" /\ UNCHANGED failFlag
       \/ pc' = "release library" /\ failFlag' = TRUE
    /\ UNCHANGED <<gui, posted, queue, threadRuns, receiverRuns, successFlag, current, model,
                   applied, gains, lost>>

OpenApi ==
    /\ pc = "open"
    /\ \/ pc' = "version" /\ held' = held \cup {"api"} /\ UNCHANGED failFlag
       \/ pc' = "release library" /\ failFlag' = TRUE /\ UNCHANGED held
    /\ UNCHANGED <<gui, posted, queue, threadRuns, receiverRuns, successFlag, current, model,
                   applied, gains, lost>>

CheckVersion ==
    /\ pc = "version"
    /\ \/ pc' = "select" /\ held' = held \cup {"lock"}
       \/ pc' = "closeAPI" /\ UNCHANGED held
    /\ UNCHANGED <<gui, posted, queue, flags, current, model, applied, gains, lost>>

(* Mutant: the lock is forgotten when there is no device. *)
SelectDeviceKeepsLock ==
    /\ pc = "select"
    /\ \/ pc' = "create" /\ held' = (held \ {"lock"}) \cup {"device"}
       \/ pc' = "closeAPI" /\ UNCHANGED held
    /\ UNCHANGED <<gui, posted, queue, flags, current, model, applied, gains, lost>>

(* GetDevices, SelectDevice and UnlockDeviceApi; unlockDevice_closeAPI. *)
SelectDevice ==
    /\ pc = "select"
    /\ \/ pc' = "create" /\ held' = (held \ {"lock"}) \cup {"device"}
       \/ pc' = "closeAPI" /\ held' = held \ {"lock"}
    /\ UNCHANGED <<gui, posted, queue, flags, current, model, applied, gains, lost>>

(* The constructor of the model: the lna state is clamped, and it and the
   options are handed to the library, whatever becomes of that; the lna state
   stays in the record also when it is refused.  The device is tuned to
   StartFrequency, and the ppm left as they are.  (fails: what the library
   refuses) *)
CreateRsp ==
    /\ pc = "create"
    /\ \/ /\ pc' = "succeed" /\ held' = held \cup {"stream"}
          /\ \E fails \in {t \in SUBSET ({"lna"} \cup Options) :
                            \A x \in Options : x = "ppm" /\ shown[x] = 1 => x \in t} :
                LET state == IF shown["lna"] > Rsp[model].start THEN Rsp[model].clamped
                             ELSE shown["lna"]
                    taken == IF "lna" \in fails THEN 3 ELSE state
                IN  /\ gains' = [gains EXCEPT !["lna"] = state]
                    /\ applied' = [x \in Settings |->
                          CASE x = "lna" -> taken
                            [] x \in fails \cap Options -> 1 - shown[x]
                            [] OTHER -> applied[x]]
                    /\ lost' = fails \cup {"freq"}
                               \cup (IF taken # shown["lna"] THEN {"lna"} ELSE {})
          /\ posted' = IF Rsp[model].announces THEN <<Rsp[model].start>> ELSE <<>>
       \/ pc' = "closeAPI" /\ UNCHANGED <<held, applied, gains, lost, posted>>
    /\ UNCHANGED <<gui, queue, flags, current, model>>

Succeed ==
    /\ pc = "succeed"
    /\ threadRuns' = TRUE /\ successFlag' = TRUE /\ pc' = "waiting"
    /\ UNCHANGED <<gui, posted, queue, receiverRuns, failFlag, current, model, held, applied, gains,
                   lost>>

CloseApi ==
    /\ pc = "closeAPI" /\ failFlag' = TRUE /\ pc' = "give back"
    /\ UNCHANGED <<gui, posted, queue, threadRuns, receiverRuns, successFlag, current, model,
                   held, applied, gains, lost>>

(* normal_exit: Uninit, which ends the stream. *)
Uninit ==
    /\ pc = "uninit" /\ held' = held \ {"stream"} /\ pc' = "give back"
    /\ UNCHANGED <<gui, posted, queue, flags, current, model, applied, gains, lost>>

(* ReleaseDevice and Close *)
GiveBack ==
    /\ pc = "give back" /\ held' = held \ {"device", "api"} /\ pc' = "release library"
    /\ UNCHANGED <<gui, posted, queue, flags, current, model, applied, gains, lost>>

releaseLibrary ==
    /\ pc = "release library" /\ held' = held \ {"library"} /\ pc' = "ended"
    /\ UNCHANGED <<gui, posted, queue, flags, current, model, applied, gains, lost>>

----------------------------------------------------------------------------
(* The loop of run.  A request is waited for, ... *)
TakeJob ==
    /\ pc = "waiting" /\ serverjobs > 0
    /\ serverjobs' = serverjobs - 1 /\ pc' = "popping"
    /\ UNCHANGED <<gui, posted, server_queue, answered, flags, current, model, held, applied, gains,
                   lost>>

(* ... or, when threadRuns is seen to be false, no more; *)
LeaveLoop ==
    /\ pc = "waiting" /\ ~threadRuns /\ pc' = "uninit"
    /\ UNCHANGED <<gui, posted, queue, flags, current, model, held, applied, gains, lost>>

(* Mutant: the caller is answered when its request is taken. *)
PopRequestAnswering ==
    /\ pc = "popping" /\ server_queue # <<>>
    /\ current' = Head(server_queue) /\ server_queue' = Tail(server_queue)
    /\ answered' = TRUE /\ pc' = "performing"
    /\ UNCHANGED <<gui, posted, serverjobs, flags, model, held, applied, gains, lost>>

(* it is taken from the queue; *)
PopRequest ==
    /\ pc = "popping" /\ server_queue # <<>>
    /\ current' = Head(server_queue) /\ server_queue' = Tail(server_queue)
    /\ pc' = "performing"
    /\ UNCHANGED <<gui, posted, serverjobs, answered, flags, model, held, applied, gains,
                   lost>>

(* it is carried out: restart of the model, ... *)
PerformRestart ==
    /\ pc = "performing" /\ current.cmd = "restart"
    /\ \/ /\ applied' = [applied EXCEPT !["freq"] = current.value]
          /\ lost' = lost \ {"freq"}
          /\ posted' = Append(posted, Rsp[model].announced[current.value])
       \/ lost' = lost \cup {"freq"} /\ UNCHANGED <<applied, posted>>
    /\ pc' = "restarted"
    /\ UNCHANGED <<gui, queue, flags, current, model, held, gains>>

(* (the receiver runs then, whether the device was restarted or not) *)
ReceiverRuns ==
    /\ pc = "restarted" /\ receiverRuns' = TRUE /\ pc' = "done"
    /\ UNCHANGED <<gui, posted, queue, threadRuns, failFlag, successFlag, current, model, held,
                   applied, gains, lost>>

(* Mutant: the caller of stopReader is not answered. *)
PerformStopUnanswered ==
    /\ pc = "performing" /\ current.cmd = "stop"
    /\ receiverRuns' = FALSE /\ pc' = "waiting" /\ current' = NoRequest
    /\ UNCHANGED <<gui, posted, queue, threadRuns, failFlag, successFlag, model, held, applied,
                   gains, lost>>

PerformStop ==
    /\ pc = "performing" /\ current.cmd = "stop"
    /\ receiverRuns' = FALSE /\ pc' = "done"
    /\ UNCHANGED <<gui, posted, queue, threadRuns, failFlag, successFlag, current, model, held,
                   applied, gains, lost>>

(* ... or one of the settings.  Either gain is entered into the record of both,
   and stays there when it is refused: the next that is taken takes it along; *)
Entered(g, r) == [x \in TunerGains |-> IF x = r.cmd THEN r.value ELSE g[x]]
TakenUp(s, g, r) ==
    [x \in Settings |-> IF x = r.cmd THEN r.value
                        ELSE IF {x, r.cmd} \subseteq TunerGains THEN g[x] ELSE s[x]]

(* Mutant: a gain is handed over without the other. *)
PerformSetAlone ==
    /\ pc = "performing" /\ current.cmd \in Settings
    /\ gains' = Entered(gains, current)
    /\ \/ /\ applied' = [applied EXCEPT ![current.cmd] = current.value]
          /\ lost' = lost \ {current.cmd}
       \/ lost' = lost \cup {current.cmd} /\ UNCHANGED applied
    /\ pc' = "done"
    /\ UNCHANGED <<gui, posted, queue, flags, current, model, held>>

PerformSet ==
    /\ pc = "performing" /\ current.cmd \in Settings
    /\ gains' = Entered(gains, current)
    /\ \/ /\ applied' = TakenUp(applied, gains, current)
          /\ lost' = {x \in lost \ {current.cmd} :
                        ~({x, current.cmd} \subseteq TunerGains /\ gains[x] = shown[x])}
       \/ lost' = lost \cup {current.cmd} /\ UNCHANGED applied
    /\ pc' = "done"
    /\ UNCHANGED <<gui, posted, queue, flags, current, model, held>>

(* and the caller is told. *)
Answer ==
    /\ pc = "done"
    /\ answered' = TRUE /\ current' = NoRequest /\ pc' = "waiting"
    /\ UNCHANGED <<gui, posted, server_queue, serverjobs, flags, model, held, applied, gains,
                   lost>>

SetUp   == Load \/ OpenApi \/ CheckVersion \/ SelectDevice \/ CreateRsp \/ Succeed
Serve   == TakeJob \/ PopRequest \/ PerformRestart \/ ReceiverRuns \/ PerformStop \/ PerformSet
           \/ Answer
TidyUp  == LeaveLoop \/ CloseApi \/ Uninit \/ GiveBack \/ releaseLibrary
run     == SetUp \/ Serve \/ TidyUp

----------------------------------------------------------------------------
(* The GUI thread.  The constructor waits for the set-up; after a failure it
   waits for the thread to end before it throws. *)
Constructed ==
    /\ guiPc = "constructing" /\ successFlag /\ ~failFlag /\ guiPc' = "idle"
    /\ UNCHANGED <<request, follow, shown, lnaMax, posted, queue, flags, server, lost>>

Throw ==
    /\ guiPc = "constructing" /\ failFlag /\ pc = "ended" /\ guiPc' = "thrown"
    /\ UNCHANGED <<request, follow, shown, lnaMax, posted, queue, flags, server, lost>>

(* messageHandler: the request is pushed, ... *)
Call(r) == guiPc' = "push" /\ request' = r /\ UNCHANGED answered

PushRequest ==
    /\ guiPc = "push"
    /\ server_queue' = Append(server_queue, request) /\ guiPc' = "release"
    /\ UNCHANGED <<request, follow, shown, lnaMax, posted, serverjobs, answered, flags, server,
                   lost>>

(* ... the server told, ... *)
ReleaseJob ==
    /\ guiPc = "release"
    /\ serverjobs' = serverjobs + 1 /\ guiPc' = "wait"
    /\ UNCHANGED <<request, follow, shown, lnaMax, posted, server_queue, answered, flags, server,
                   lost>>

(* Mutant: the caller waits a second at most. *)
ReturnAfterAWhile ==
    /\ guiPc = "wait"
    /\ guiPc' = (IF follow = NoRequest THEN "idle" ELSE "follow")
    /\ request' = NoRequest /\ answered' = FALSE
    /\ UNCHANGED <<follow, shown, lnaMax, posted, server_queue, serverjobs, flags, server, lost>>

(* ... and waited for. *)
Return ==
    /\ guiPc = "wait" /\ (answered \/ ~threadRuns)
    /\ guiPc' = (IF follow = NoRequest THEN "idle" ELSE "follow")
    /\ request' = NoRequest /\ answered' = FALSE
    /\ UNCHANGED <<follow, shown, lnaMax, posted, server_queue, serverjobs, flags, server, lost>>

(* set_agcControl sends its second request. *)
SendFollow ==
    /\ guiPc = "follow" /\ Call(follow) /\ follow' = NoRequest
    /\ UNCHANGED <<shown, lnaMax, posted, server_queue, serverjobs, flags, server, lost>>

Untouched == UNCHANGED <<lnaMax, server_queue, serverjobs, flags, server>>

(* restartReader; while the receiver runs there is nothing to do. *)
restartReader ==
    /\ guiPc = "idle" /\ ~receiverRuns
    /\ Call(Request("restart", shown["freq"]))
    /\ Untouched /\ UNCHANGED <<follow, shown, posted, lost>>

stopReader ==
    /\ guiPc = "idle" /\ receiverRuns
    /\ Call(Request("stop", 0))
    /\ Untouched /\ UNCHANGED <<follow, shown, posted, lost>>

(* This restarts the receiver, also when it was stopped. *)
setVFOFrequency(f) ==
    /\ guiPc = "idle"
    /\ shown' = [shown EXCEPT !["freq"] = f] /\ Call(Request("restart", f))
    /\ Untouched /\ UNCHANGED <<follow, posted, lost>>

(* set_ifgainReduction and set_lnagainReduction: without the receiver the
   change is dropped. *)
SetGain(x, v) ==
    /\ guiPc = "idle" /\ x \in {"GRdB", "lna"} /\ shown[x] # v
    /\ x = "lna" => v <= lnaMax
    /\ shown' = [shown EXCEPT ![x] = v]
    /\ IF receiverRuns THEN Call(Request(x, v)) /\ UNCHANGED lost
       ELSE lost' = lost \cup {x} /\ UNCHANGED <<guiPc, request, answered>>
    /\ Untouched /\ UNCHANGED <<follow, posted>>

(* set_agcControl, set_biasT, set_ppmControl and set_selectAntenna; the agc,
   switched off, leaves the gain to what is set. *)
SetSwitch(x) ==
    /\ guiPc = "idle" /\ x \in {"agc"} \cup Options
    /\ shown' = [shown EXCEPT ![x] = 1 - @] /\ Call(Request(x, 1 - shown[x]))
    /\ follow' = IF x = "agc" /\ shown["agc"] = 1 THEN Request("GRdB", shown["GRdB"])
                 ELSE NoRequest
    /\ Untouched /\ UNCHANGED <<posted, lost>>

(* Mutant: the value is clamped with the signals of the widget blocked. *)
set_lnaboundsBlocked ==
    /\ guiPc = "idle" /\ posted # <<>>
    /\ posted' = Tail(posted) /\ lnaMax' = Head(posted)
    /\ shown' = [shown EXCEPT !["lna"] = Smaller(@, Head(posted))]
    /\ UNCHANGED <<guiPc, request, follow, queue, flags, server, lost>>

(* set_lnabounds, delivered by the event loop: a value above the new bound is
   changed to it, which is a change like the user's. *)
set_lnabounds ==
    /\ guiPc = "idle" /\ posted # <<>>
    /\ posted' = Tail(posted) /\ lnaMax' = Head(posted)
    /\ IF shown["lna"] <= Head(posted)
       THEN UNCHANGED <<shown, guiPc, request, answered, lost>>
       ELSE /\ shown' = [shown EXCEPT !["lna"] = Head(posted)]
            /\ IF receiverRuns
               THEN Call(Request("lna", Head(posted))) /\ UNCHANGED lost
               ELSE lost' = lost \cup {"lna"} /\ UNCHANGED <<guiPc, request, answered>>
    /\ UNCHANGED <<follow, server_queue, serverjobs, flags, server>>

(* The destructor; it waits for the thread. *)
Delete ==
    /\ guiPc = "idle" /\ threadRuns' = FALSE /\ guiPc' = "deleting"
    /\ UNCHANGED <<request, follow, shown, lnaMax, posted, queue, receiverRuns, failFlag,
                   successFlag, server, lost>>

Deleted ==
    /\ guiPc = "deleting" /\ pc = "ended" /\ guiPc' = "deleted" /\ posted' = <<>>
    /\ UNCHANGED <<request, follow, shown, lnaMax, queue, flags, server, lost>>

----------------------------------------------------------------------------
Chosen  == [GRdB |-> Gains, lna |-> LnaStates]
Bounded == Len(posted) < MaxPosted  \* the event loop delivers what is posted

User ==
    \/ restartReader /\ Bounded
    \/ stopReader
    \/ \E f \in Frequencies : setVFOFrequency(f) /\ Bounded
    \/ \E x \in {"GRdB", "lna"} : \E v \in Chosen[x] : SetGain(x, v)
    \/ \E x \in {"agc"} \cup Options : SetSwitch(x)
    \/ Delete

Handlers == Constructed \/ Throw \/ PushRequest \/ ReleaseJob \/ Return \/ SendFollow \/ Deleted

(* A handler whose constructor threw, or that is deleted, is no more. *)
Gone == guiPc \in {"thrown", "deleted"} /\ pc = "ended" /\ UNCHANGED vars

Next == run \/ Handlers \/ User \/ set_lnabounds \/ Gone

(* The threads are scheduled and the library returns from its calls. *)
Spec == Init /\ [][Next]_vars /\ WF_vars(run) /\ WF_vars(Handlers)

----------------------------------------------------------------------------
GuiPcs == {"constructing", "thrown", "idle", "push", "release", "wait", "follow", "deleting", "deleted"}
Pcs    == {"load", "open", "version", "select", "create", "succeed", "waiting", "popping",
           "performing", "restarted", "done", "closeAPI", "uninit", "give back",
           "release library", "ended"}

TypeOK ==
    /\ guiPc \in GuiPcs /\ pc \in Pcs
    /\ {request, follow, current} \subseteq Requests \cup {NoRequest}
    /\ shown \in Possible /\ applied \in Possible
    /\ gains \in [TunerGains -> Nat] /\ \A x \in TunerGains : gains[x] \in Values[x]
    /\ lnaMax \in LnaReached \cup {Highest} /\ posted \in Seq(LnaReached)
    /\ server_queue \in Seq(Requests) /\ serverjobs \in 0..1
    /\ {answered, threadRuns, receiverRuns, failFlag, successFlag} \subseteq BOOLEAN
    /\ model \in Models /\ held \subseteq {"library", "api", "lock", "device", "stream"}
    /\ lost \subseteq Settings

Calling == guiPc \in {"push", "release", "wait"}

(* A request is an object on the stack of the GUI thread: as long as it is in
   the queue, or the server works on it, messageHandler has not returned.  The
   queue has no lock: the two threads are never at it together, and the server
   finds a request in it when it is told of one ("here we could assert that the
   server_queue is not empty", sdrplay-handler-v3.cpp:174-209, 357-364,
   669-757). *)
RequestsLive ==
    /\ \A i \in DOMAIN server_queue : Calling /\ server_queue[i] = request
    /\ current # NoRequest => Calling /\ current = request
    /\ pc = "popping" => guiPc # "push" /\ server_queue # <<>>

(* Whatever stage the set-up failed at, and whenever the handler is deleted:
   when it is gone its thread has ended, and library, lock, device and stream
   have been given back (sdrplay-handler-v3.cpp:122-152,
   450-546, 761-791). *)
NothingHeldWhenGone ==
    guiPc \in {"thrown", "deleted"} => pc = "ended" /\ held = {}

(* What the widgets show is what the device has, unless the last change was
   made while the receiver was stopped, or was refused; and the lna is within
   the bound that was announced for the frequency the device has (a bound most
   models put one too high; none checks the state itself).  That holds whenever
   the GUI is idle and the bounds announced have arrived, in whatever order
   requests were made and signals delivered, also when a gain took along the
   other one, refused before (sdrplay-handler-v3.cpp:195-209, 299-301,
   Rsp1A-handler.cpp:86-130, Rsp-device.cpp:174-188). *)
ShownIsApplied ==
    guiPc = "idle" /\ posted = <<>> =>
       /\ \A x \in Settings \ lost : shown[x] = applied[x]
       /\ "freq" \notin lost => shown["lna"] <= Rsp[model].announced[applied["freq"]]

(* The device is used as if each request were carried out at once, exactly
   once, between the call and its return: "Communication with that thread is
   synchronous!" (sdrplay-handler-v3.cpp:286-288). *)
AsDevice(running, settings, g) == [running |-> running, settings |-> settings, gains |-> g]
DeviceStates == [running : BOOLEAN, settings : Possible, gains : [TunerGains -> Nat]]

Carried(r, s) ==
    IF r.cmd = "stop" THEN {AsDevice(FALSE, s.settings, s.gains)}
    ELSE IF r.cmd = "restart"
    THEN {AsDevice(TRUE, s.settings, s.gains),
          AsDevice(TRUE, [s.settings EXCEPT !["freq"] = r.value], s.gains)}
    ELSE {AsDevice(s.running, s.settings, Entered(s.gains, r)),
          AsDevice(s.running, TakenUp(s.settings, s.gains, r), Entered(s.gains, r))}

Asked == IF Calling THEN request ELSE NoRequest
Done  == Calling /\ (answered \/ pc \in {"restarted", "done"})
State == AsDevice(receiverRuns \/ pc = "restarted", applied, gains)

Device == INSTANCE SynchronousCall
             WITH NoRequest <- NoRequest, Requests <- Requests,
                  States <- DeviceStates,
                  Effect <- Carried,
                  open   <- threadRuns, asked <- Asked, done <- Done, state <- State

IsSynchronous == Device!Spec

(* Every call returns, and so does the destructor: the GUI never hangs (the
   library's calls returning). *)
EveryCallReturns == (Calling \/ guiPc = "deleting") ~> guiPc \in {"idle", "deleted"}
=============================================================================
