---------------------------- MODULE FilterSetup ----------------------------
(***************************************************************************)
(* How a filter chosen in the GUI reaches the samples (fm-processor.cpp):  *)
(* the GUI thread stores the width and sets a marker, or switches the      *)
(* filter off; the processor thread looks at the marker before each block, *)
(* designs the filter, switches it on and clears the marker.  The input    *)
(* filter (setBandwidth) and the audio filter (setlfcutoff) work alike.    *)
(* Every load and store is a step, for the two threads share no lock.      *)
(***************************************************************************)
EXTENDS Naturals, Sequences

CONSTANTS Filters,   (* the filters, in the order run() looks at them      *)
          Widths,    (* the selectable widths                              *)
          Default    (* the width the constructor leaves, never selectable *)

Off == "Off"
FilterSet == {Filters[i] : i \in 1..Len(Filters)}

ASSUME FilterAssumption ==
    /\ Filters \in Seq(FilterSet) /\ Filters # <<>>
    /\ Off \notin Widths /\ Default \notin Widths

VARIABLES width,     (* fmBandwidth, lowPassFrequency                      *)
          newFilter, (* newInputFilter, newAudioFilter                     *)
          filterOn,  (* inputFilterOn, fmAudioFilterActive                 *)
          designed,  (* what setLowPass last computed                      *)
          pc,        (* <<step, index of the filter>> in run()             *)
          pending,   (* the filters whose width is stored and marker not   *)
          choice,    (* history: the last choice of the user               *)
          raced      (* history: one was made while another was taken up   *)

processorVars == <<designed, pc>>
shared        == <<width, newFilter, filterOn>>
filterVars    == <<shared, processorVars, pending, choice, raced>>

FilterInit ==
    /\ width     = [f \in FilterSet |-> Default]
    /\ newFilter = [f \in FilterSet |-> FALSE]
    /\ filterOn  = [f \in FilterSet |-> FALSE]
    /\ designed  = [f \in FilterSet |-> Default]
    /\ pc = <<"test", 1>>
    /\ pending = {}
    /\ choice = [f \in FilterSet |-> Off]
    /\ raced = FALSE

----------------------------------------------------------------------------
(* The processor is still going to act on an earlier choice for f. *)
TakingUp(f) == newFilter[f] \/ (pc[1] # "test" /\ Filters[pc[2]] = f)

(* setBandwidth ("Off"), setlfcutoff (-1) *)
SwitchOff(f) ==
    /\ pending = {}
    /\ filterOn' = [filterOn EXCEPT ![f] = FALSE]
    /\ choice' = [choice EXCEPT ![f] = Off]
    /\ raced' = (raced \/ TakingUp(f))
    /\ UNCHANGED <<width, newFilter, processorVars, pending>>

(* Mutant: the width is not stored, only the marker will be set. *)
StoreWidthForgotten(f, w) ==
    /\ pending = {}
    /\ pending' = {f}
    /\ choice' = [choice EXCEPT ![f] = w]
    /\ raced' = (raced \/ TakingUp(f))
    /\ UNCHANGED <<width, newFilter, filterOn, processorVars>>

(* setBandwidth and setlfcutoff with a width: first the width ... *)
StoreWidth(f, w) ==
    /\ pending = {}
    /\ width' = [width EXCEPT ![f] = w]
    /\ pending' = {f}
    /\ choice' = [choice EXCEPT ![f] = w]
    /\ raced' = (raced \/ TakingUp(f))
    /\ UNCHANGED <<newFilter, filterOn, processorVars>>

(* Mutant: the marker is set only when the filter has to be switched on. *)
SetMarkerWhenOff(f) ==
    /\ f \in pending
    /\ newFilter' = [newFilter EXCEPT ![f] = ~filterOn[f]]
    /\ pending' = {}
    /\ UNCHANGED <<width, filterOn, processorVars, choice, raced>>

(* ... then the marker. *)
SetMarker(f) ==
    /\ f \in pending
    /\ newFilter' = [newFilter EXCEPT ![f] = TRUE]
    /\ pending' = {}
    /\ UNCHANGED <<width, filterOn, processorVars, choice, raced>>

----------------------------------------------------------------------------
(* fmProcessor::run, before each block: for each filter in turn *)
Subject == Filters[pc[2]]
NextFilter == <<"test", IF pc[2] = Len(Filters) THEN 1 ELSE pc[2] + 1>>
TestMarker ==
    /\ pc[1] = "test"
    /\ pc' = IF newFilter[Subject] THEN <<"design", pc[2]>> ELSE NextFilter
    /\ UNCHANGED <<shared, designed, pending, choice, raced>>

(* setLowPass (fmBandwidth / 2, ...) *)
Design ==
    /\ pc[1] = "design"
    /\ designed' = [designed EXCEPT ![Subject] = width[Subject]]
    /\ pc' = <<"on", pc[2]>>
    /\ UNCHANGED <<shared, pending, choice, raced>>

SwitchOn ==
    /\ pc[1] = "on"
    /\ filterOn' = [filterOn EXCEPT ![Subject] = TRUE]
    /\ pc' = <<"clear", pc[2]>>
    /\ UNCHANGED <<width, newFilter, designed, pending, choice, raced>>

(* Mutant: the marker stays set and the filter is left for the next block. *)
ClearMarkerForgotten ==
    /\ pc[1] = "clear"
    /\ pc' = NextFilter
    /\ UNCHANGED <<shared, designed, pending, choice, raced>>

ClearMarker ==
    /\ pc[1] = "clear"
    /\ newFilter' = [newFilter EXCEPT ![Subject] = FALSE]
    /\ pc' = NextFilter
    /\ UNCHANGED <<width, filterOn, designed, pending, choice, raced>>

Processor == TestMarker \/ Design \/ SwitchOn \/ ClearMarker

Gui == \E f \in FilterSet :
          SwitchOff(f) \/ SetMarker(f) \/ \E w \in Widths : StoreWidth(f, w)

FilterNext == Processor \/ Gui

(* The device delivers samples, so the loop of run() turns; a slot of the
   GUI that has begun ends.  Nothing makes the user choose anything. *)
Fairness == /\ WF_filterVars(Processor)
            /\ \A f \in FilterSet : WF_filterVars(SetMarker(f))
FilterSpec == FilterInit /\ [][FilterNext]_filterVars /\ Fairness

----------------------------------------------------------------------------
Applied(f, c) == IF c = Off THEN ~filterOn[f] ELSE filterOn[f] /\ designed[f] = c

FilterTypeOK ==
    /\ width \in [FilterSet -> Widths \cup {Default}]
    /\ designed \in [FilterSet -> Widths \cup {Default}]
    /\ newFilter \in [FilterSet -> BOOLEAN] /\ filterOn \in [FilterSet -> BOOLEAN]
    /\ pc \in {"test", "design", "on", "clear"} \X (1..Len(Filters))
    /\ pending \in SUBSET FilterSet
    /\ choice \in [FilterSet -> Widths \cup {Off}] /\ raced \in BOOLEAN

(* A filter that is switched on has been designed for a width the user once
   chose, never with the constructor's width, however the two threads
   interleave (fm-processor.cpp:236-237 against 400-403). *)
OnMeansChosen == \A f \in FilterSet : filterOn[f] => designed[f] \in Widths

(* As long as no choice was made while the processor was taking up another
   one, what the user leaves the selector at is what the samples go through
   from some time on (fm-processor.cpp:229-240, 399-411, 766-774). *)
ChoiceTakesEffect ==
    \A f \in FilterSet : \A c \in Widths \cup {Off} :
        <>[](choice[f] = c /\ ~raced) => <>[]Applied(f, c)

(* A choice costs one design: once the user leaves the selectors alone, the
   markers are cleared for good, and no block designs a filter again. *)
SettlesDown ==
    []<><<Gui>>_filterVars \/ \A f \in FilterSet : <>[](~newFilter[f])
============================================================================
