-------------------------- MODULE RdsGroupDecoder --------------------------
(***************************************************************************)
(* From RDS groups to the display (rds-groupdecoder.cpp): the processor    *)
(* thread decodes groups into the buffers for the station label and the    *)
(* radio text and sends what they hold to the GUI thread, which gets to it *)
(* later; on a change of frequency the GUI thread itself resets the same   *)
(* decoder, in the middle of whatever the processor is doing, and its      *)
(* signals then reach the display at once.                                 *)
(*                                                                         *)
(* A segment of a label is the station it is from; a segment of a text is  *)
(* [of, ab], the station and its text A or B.                              *)
(***************************************************************************)
EXTENDS Integers, Sequences, FiniteSets

CONSTANTS Stations,   (* each with a PI code of its own                    *)
          Segments,   (* NUMBER_OF_NAME_SEGMENTS                           *)
          Fragments,  (* NUM_OF_FRAGMENTS                                  *)
          Programmes, (* sets of the groups, [kind, seg], stations send    *)
          Blank,      (* spaces, and no station                            *)
          MaxEvents   (* bound: signals under way to the GUI               *)

ASSUME DecoderAssumption ==
    /\ Segments \in Nat /\ Fragments \in Nat
    /\ Blank \notin Stations \cup [of : Stations, ab : {0, 1}]

LabelSegs == 0..Segments - 1
TextSegs  == 0..Fragments - 1
NoLabel   == [i \in LabelSegs |-> Blank]
NoText    == [i \in TextSegs |-> Blank]

VARIABLES
    tuned,     (* the station the device is tuned to                       *)
    heard,     (* the station whose samples the processor has reached      *)
    airText,   (* which of its texts, A = 0 or B = 1, that station sends   *)
    programme, (* the groups the stations send                             *)
    \* the decoder, shared by both threads
    piCode, stationLabel, nameMarks, textABflag, textBuffer, textMarks,
    \* the processor thread
    pc, grp,
    \* the GUI thread
    guiPc, events, labelBox, textBox

decoderVars == <<piCode, stationLabel, nameMarks, textABflag, textBuffer, textMarks>>
labelVars   == <<stationLabel, nameMarks>>
textVars    == <<textABflag, textBuffer, textMarks>>
boxes       == <<labelBox, textBox>>
displayVars == <<tuned, heard, airText, programme, decoderVars, pc, grp, guiPc, events, boxes>>

Groups == [kind : {"name"}, of : Stations, seg : LabelSegs, ab : {0}]
          \cup [kind : {"text"}, of : Stations, seg : TextSegs, ab : {0, 1}]
WithoutGroup == [kind |-> "none"]

DecoderInit ==
    /\ tuned \in Stations /\ heard = tuned /\ airText \in {0, 1} /\ programme \in Programmes
    /\ piCode = Blank
    /\ stationLabel = NoLabel /\ nameMarks = {}
    /\ textABflag = -1 /\ textBuffer = NoText /\ textMarks = {}
    /\ pc = "wait" /\ grp = WithoutGroup
    /\ guiPc = "idle" /\ events = << >> /\ labelBox = NoLabel /\ textBox = NoText

----------------------------------------------------------------------------
(* The stores of reset, in order. *)
ClearPi == piCode' = Blank

(* Mutant: the label of the last station stays in the buffer. *)
ClearLabelForgotten == nameMarks' = {} /\ UNCHANGED stationLabel

ClearLabel == stationLabel' = NoLabel /\ nameMarks' = {}

ClearText == textABflag' = -1 /\ textBuffer' = NoText /\ textMarks' = {}

(* Signals emitted by the processor are queued for the GUI. *)
Queue(es) == Len(events) + Len(es) <= MaxEvents /\ events' = events \o es
SetLabel(l) == [box |-> "label", value |-> l]
SetText(t)  == [box |-> "text", value |-> t]

(* Mutant: the display is not told of the reset. *)
ResetSignalsForgotten == << >>

(* clearRadioText, setStationLabel (stationLabel) *)
ResetSignals == <<SetText(NoText), SetLabel(stationLabel)>>

----------------------------------------------------------------------------
(* The samples that were buffered before the change of frequency are used up. *)
CatchUp ==
    /\ heard # tuned /\ heard' = tuned /\ airText' \in {0, 1}
    /\ UNCHANGED <<tuned, programme, decoderVars, pc, grp, guiPc, events, boxes>>

(* The processor.  A group of the station heard is complete. *)
TakeGroup(g) ==
    /\ pc = "wait" /\ g.of = heard /\ [kind |-> g.kind, seg |-> g.seg] \in programme
    /\ g.kind = "text" => g.ab = airText
    /\ grp' = g /\ pc' = "check"
    /\ UNCHANGED <<tuned, heard, airText, programme, decoderVars, guiPc, events, boxes>>

Body == IF grp.kind = "name" THEN "name" ELSE "flag"

(* decode: a new PI code means a new station *)
CheckPi ==
    /\ pc = "check"
    /\ pc' = IF piCode = grp.of THEN Body ELSE "resetPi"
    /\ UNCHANGED <<tuned, heard, airText, programme, decoderVars, grp, guiPc, events,
                   boxes>>

ResetPi ==
    /\ pc = "resetPi" /\ ClearPi /\ pc' = "resetLabel"
    /\ UNCHANGED <<tuned, heard, airText, programme, labelVars, textVars, grp, guiPc,
                   events, boxes>>

ResetLabel ==
    /\ pc = "resetLabel" /\ ClearLabel /\ pc' = "resetText"
    /\ UNCHANGED <<tuned, heard, airText, programme, piCode, textVars, grp, guiPc,
                   events, boxes>>

ResetText ==
    /\ pc = "resetText" /\ ClearText /\ pc' = "resetEnd"
    /\ UNCHANGED <<tuned, heard, airText, programme, piCode, labelVars, grp, guiPc,
                   events, boxes>>

ResetEnd ==
    /\ pc = "resetEnd" /\ Queue(ResetSignals) /\ pc' = "newPi"
    /\ UNCHANGED <<tuned, heard, airText, programme, decoderVars, grp, guiPc, boxes>>

NewPi ==
    /\ pc = "newPi" /\ piCode' = grp.of /\ pc' = Body
    /\ UNCHANGED <<tuned, heard, airText, programme, labelVars, textVars, grp, guiPc,
                   events, boxes>>

(* addtoStationLabel: the segment is stored and the label shown; then the
   register, into which the code ors twice the index. *)
BitsOf(n) == {b \in 0..5 : (n \div 2^b) % 2 = 1}

StoreName ==
    /\ pc = "name"
    /\ stationLabel' = [stationLabel EXCEPT ![grp.seg] = grp.of]
    /\ Queue(<<SetLabel(stationLabel')>>)
    /\ pc' = "mark"
    /\ UNCHANGED <<tuned, heard, airText, programme, piCode, nameMarks, textVars, grp,
                   guiPc, boxes>>

MarkName ==
    /\ pc = "mark"
    /\ LET marks == (IF grp.seg = 0 THEN {} ELSE nameMarks) \cup BitsOf(2 * grp.seg)
           all   == marks = LabelSegs
       IN  /\ nameMarks' = IF all THEN {} ELSE marks
           /\ IF all THEN Queue(<<SetLabel(stationLabel)>>) ELSE UNCHANGED events
    /\ pc' = "wait" /\ grp' = WithoutGroup
    /\ UNCHANGED <<tuned, heard, airText, programme, piCode, stationLabel, textVars,
                   guiPc, boxes>>

(* Mutant: the buffer is kept when the station goes from text A to B. *)
CheckFlagKeepsBuffer ==
    /\ pc = "flag"
    /\ pc' = "text"
    /\ IF textABflag = grp.ab
       THEN UNCHANGED <<textVars, events>>
       ELSE /\ textABflag' = grp.ab /\ textMarks' = {} /\ UNCHANGED textBuffer
            /\ Queue(<<SetText(NoText)>>)
    /\ UNCHANGED <<tuned, heard, airText, programme, piCode, labelVars, grp, guiPc, boxes>>

(* Handle_RadioText: a change of the A/B flag means a new text *)
CheckFlag ==
    /\ pc = "flag"
    /\ pc' = "text"
    /\ IF textABflag = grp.ab
       THEN UNCHANGED <<textVars, events>>
       ELSE /\ textABflag' = grp.ab /\ textMarks' = {} /\ textBuffer' = NoText
            /\ Queue(<<SetText(NoText)>>)
    /\ UNCHANGED <<tuned, heard, airText, programme, piCode, labelVars, grp, guiPc, boxes>>

(* ... the fragment is stored, and the text shown: the fragments before this
   one if there is no gap, all of them once all are in or one ends the text *)
StoreText(ends) ==
    /\ pc = "text"
    /\ LET buffer == [textBuffer EXCEPT ![grp.seg] = [of |-> grp.of, ab |-> grp.ab]]
           marks  == textMarks \cup {grp.seg}
           before == [i \in TextSegs |-> IF i < grp.seg THEN buffer[i] ELSE Blank]
       IN  /\ textBuffer' = buffer /\ textMarks' = marks
           /\ Queue((IF marks = 0..grp.seg THEN <<SetText(before)>> ELSE << >>)
                    \o (IF ends \/ marks = TextSegs THEN <<SetText(buffer)>> ELSE << >>))
    /\ pc' = "wait" /\ grp' = WithoutGroup
    /\ UNCHANGED <<tuned, heard, airText, programme, piCode, labelVars, textABflag,
                   guiPc, boxes>>

Decode == \/ CheckPi \/ ResetPi \/ ResetLabel \/ ResetText \/ ResetEnd \/ NewPi
          \/ StoreName \/ MarkName \/ CheckFlag \/ \E ends \in BOOLEAN : StoreText(ends)
Processor == Decode \/ \E g \in Groups : TakeGroup(g)

----------------------------------------------------------------------------
(* The GUI thread.  setTuner changes the frequency; if the step is a big one
   triggerFrequencyChange resets the decoder. *)
Tune(s, big) ==
    /\ guiPc = "idle" /\ s # tuned
    /\ tuned' = s
    /\ guiPc' = IF big THEN "resetPi" ELSE "idle"
    /\ UNCHANGED <<heard, airText, programme, decoderVars, pc, grp, events, boxes>>

GuiResetPi ==
    /\ guiPc = "resetPi" /\ ClearPi /\ guiPc' = "resetLabel"
    /\ UNCHANGED <<tuned, heard, airText, programme, labelVars, textVars, pc, grp,
                   events, boxes>>

GuiResetLabel ==
    /\ guiPc = "resetLabel" /\ ClearLabel /\ guiPc' = "resetText"
    /\ UNCHANGED <<tuned, heard, airText, programme, piCode, textVars, pc, grp, events,
                   boxes>>

GuiResetText ==
    /\ guiPc = "resetText" /\ ClearText /\ guiPc' = "resetEnd"
    /\ UNCHANGED <<tuned, heard, airText, programme, piCode, labelVars, pc, grp, events,
                   boxes>>

(* The receiver lives in this thread, so its slots run at once. *)
GuiResetEnd ==
    /\ guiPc = "resetEnd" /\ guiPc' = "idle"
    /\ textBox' = NoText /\ labelBox' = stationLabel
    /\ UNCHANGED <<tuned, heard, airText, programme, decoderVars, pc, grp, events>>

(* The event loop delivers the oldest signal. *)
Show ==
    /\ guiPc = "idle" /\ events # << >>
    /\ LET e == Head(events)
       IN  IF e.box = "label" THEN labelBox' = e.value /\ UNCHANGED textBox
                              ELSE textBox' = e.value /\ UNCHANGED labelBox
    /\ events' = Tail(events)
    /\ UNCHANGED <<tuned, heard, airText, programme, decoderVars, pc, grp, guiPc>>

GuiReset == GuiResetPi \/ GuiResetLabel \/ GuiResetText \/ GuiResetEnd

(* The station starts another text. *)
NewText ==
    /\ (\E p \in programme : p.kind = "text") /\ airText' = 1 - airText
    /\ UNCHANGED <<tuned, heard, programme, decoderVars, pc, grp, guiPc, events, boxes>>

DecoderNext == \/ CatchUp \/ NewText \/ Processor \/ GuiReset \/ Show
        \/ \E s \in Stations, big \in BOOLEAN : Tune(s, big)

DecoderSpec == DecoderInit /\ [][DecoderNext]_displayVars

----------------------------------------------------------------------------
Labels == [LabelSegs -> Stations \cup {Blank}]
TextId == [of : Stations, ab : {0, 1}]
Texts  == [TextSegs -> TextId \cup {Blank}]

DecoderTypeOK ==
    /\ tuned \in Stations /\ heard \in Stations /\ airText \in {0, 1} /\ programme \in Programmes
    /\ piCode \in Stations \cup {Blank}
    /\ stationLabel \in Labels /\ nameMarks \in SUBSET (0..5)
    /\ textABflag \in {-1, 0, 1} /\ textBuffer \in Texts /\ textMarks \in SUBSET TextSegs
    /\ grp \in Groups \cup {WithoutGroup} /\ labelBox \in Labels /\ textBox \in Texts
    /\ \A i \in 1..Len(events) : events[i].value \in Labels \cup Texts

Of(buffer) == {buffer[i] : i \in DOMAIN buffer} \ {Blank}

(* No label ever shows segments of two stations, though the station, the
   decoder's buffers and the group in hand change under both threads' hands:
   the check of the PI code at the start of decode is enough
   (rds-groupdecoder.cpp:106-110, 184-205). *)
NoMixedLabel == Cardinality(Of(stationLabel)) <= 1 /\ Cardinality(Of(labelBox)) <= 1

(* No radio text shows fragments of two stations, or of both texts A and B
   (rds-groupdecoder.cpp:229-248). *)
NoMixedText == Cardinality(Of(textBuffer)) <= 1 /\ Cardinality(Of(textBox)) <= 1

(* Signals of the previous station that are still under way when the GUI has
   reset the display do put its texts back; but once the decoder has the PI
   code of the station tuned, and all signals are delivered, nothing of
   another station is on display (rds-groupdecoder.cpp:91-110). *)
ShowsStationTuned ==
    piCode = tuned /\ pc = "wait" /\ guiPc = "idle" /\ events = << >>
        => Of(labelBox) \subseteq {tuned} /\ \A t \in Of(textBox) : t.of = tuned
============================================================================
