------------------------------ MODULE CalcSlots ------------------------------
(***************************************************************************)
(* The calculators of WabbitEmu.  Each document owns one slot of the array *)
(* calcs from calc_slot_new to calc_slot_free, and loads a rom or a saved  *)
(* state into it, any number of times.  A timer of the main thread runs    *)
(* every calculator that is active and running.  While a sheet shows the   *)
(* transfer of files, a thread of its own runs the calculator instead:     *)
(* windowDidLoad makes it inactive, and _sheetDidEnd active again.         *)
(*                                                                         *)
(* Inactive is also what calc_slot_new takes for free.  And the debugger's *)
(* step commands run the calculator on the main thread without looking     *)
(* whether it is active or running.                                        *)
(***************************************************************************)
EXTENDS Naturals

CONSTANTS MaxCalcs,   \* MAX_CALCS
          Windows     \* the documents

ASSUME SlotsAssumption == MaxCalcs \in Nat \ {0}

Slots == 0 .. MaxCalcs - 1

None == MaxCalcs   \* no slot

Files == {"unreadable", "unrecognized", "bad savestate", "good"}

VARIABLES calcs,      \* slot -> its calc_t: memory is what calc_init allocates
          own,        \* window -> the slot its RSCalculator points to
          sheet,      \* window -> its transfer
          debugger,   \* the windows with an open debugger
          failed,     \* history: slots where the last load has failed
          shared,     \* history: slots of two windows since they were free
          driven,     \* history: window -> what on the main thread has run its
                      \* calculator since its sheet began to send
          crashed     \* the slot whose memory was used and not there

vars == <<calcs, own, sheet, debugger, failed, shared, driven, crashed>>

Calc == [active : BOOLEAN, running : BOOLEAN, memory : BOOLEAN]

TypeOK ==
  /\ calcs \in [Slots -> Calc]
  /\ own \in [Windows -> Slots \cup {None}]
  /\ sheet \in [Windows -> {"none", "sending", "sent"}]
  /\ debugger \subseteq Windows
  /\ failed \subseteq Slots /\ shared \subseteq Slots
  /\ driven \in [Windows -> SUBSET {"timer", "debugger"}]
  /\ crashed \in Slots \cup {None}

Zeroed == [active |-> FALSE, running |-> FALSE, memory |-> FALSE]

Init ==
  /\ calcs = [s \in Slots |-> Zeroed]
  /\ own = [w \in Windows |-> None]
  /\ sheet = [w \in Windows |-> "none"]
  /\ debugger = {} /\ failed = {} /\ shared = {}
  /\ driven = [w \in Windows |-> {}]
  /\ crashed = None

IsOpen(w) == own[w] # None

Owners(s) == {w \in Windows : own[w] = s}

(* calc_slot_new: the first slot that is not active. *)
FreeSlot(s) == ~calcs[s].active /\ \A t \in 0 .. s - 1 : calcs[t].active

(* The memory is freed and the slot stays active. *)
LeakyFreed(c) == IF c.active THEN [c EXCEPT !.memory = FALSE] ELSE c

(* calc_slot_free. *)
Freed(c) == IF c.active THEN [c EXCEPT !.active = FALSE, !.memory = FALSE] ELSE c

(* loadRomOrSavestateAtURL: stop, rom_load and, if it succeeds, run. *)
Loaded(c, file) ==
  LET stopped == [c EXCEPT !.running = FALSE]
  IN  CASE file = "unreadable"    -> stopped
        [] file = "unrecognized"  -> Freed(stopped)
        [] file = "bad savestate" -> [Freed(stopped) EXCEPT !.active = TRUE]
        [] file = "good"          -> [active |-> TRUE, running |-> TRUE, memory |-> TRUE]

(* What is closed with a debugger runs before it is freed. *)
Closed(c, debugged) == Freed([c EXCEPT !.running = @ \/ debugged])

-----------------------------------------------------------------------------
(* A window that could not load gives up without its slot. *)
OpenLeaking(w, s, file) ==
  /\ ~IsOpen(w) /\ FreeSlot(s)
  /\ LET c == Loaded([Zeroed EXCEPT !.active = TRUE], file)
     IN  /\ calcs' = [calcs EXCEPT ![s] = c]
         /\ own' = IF file = "good" THEN [own EXCEPT ![w] = s] ELSE own
  /\ failed' = failed \ {s}
  /\ shared' = IF Owners(s) = {} THEN shared \ {s} ELSE shared \cup {s}
  /\ UNCHANGED <<sheet, debugger, driven, crashed>>

(* readFromURL.  If the file does not load, the RSCalculator is released   *)
(* and frees the slot.                                                     *)
Open(w, s, file) ==
  /\ ~IsOpen(w) /\ FreeSlot(s)
  /\ LET c == Loaded([Zeroed EXCEPT !.active = TRUE], file)
     IN  /\ calcs' = [calcs EXCEPT ![s] = IF file = "good" THEN c ELSE Freed(c)]
         /\ own' = IF file = "good" THEN [own EXCEPT ![w] = s] ELSE own
  /\ failed' = failed \ {s}
  /\ shared' = IF Owners(s) = {} THEN shared \ {s} ELSE shared \cup {s}
  /\ UNCHANGED <<sheet, debugger, driven, crashed>>

(* Another rom for an open window, which its sheet would keep from it. *)
Load(w, file) ==
  /\ IsOpen(w) /\ sheet[w] = "none"
  /\ calcs' = [calcs EXCEPT ![own[w]] = Loaded(@, file)]
  /\ failed' = IF file = "good" THEN failed \ {own[w]} ELSE failed \cup {own[w]}
  /\ UNCHANGED <<own, sheet, debugger, shared, driven, crashed>>

(* The calculator is only stopped. *)
StoppingTransfer(w) ==
  /\ IsOpen(w) /\ sheet[w] = "none"
  /\ sheet' = [sheet EXCEPT ![w] = "sending"]
  /\ calcs' = [calcs EXCEPT ![own[w]].running = FALSE]
  /\ UNCHANGED <<own, debugger, failed, shared, driven, crashed>>

(* _transferOtherFiles and windowDidLoad. *)
Transfer(w) ==
  /\ IsOpen(w) /\ sheet[w] = "none"
  /\ sheet' = [sheet EXCEPT ![w] = "sending"]
  /\ calcs' = [calcs EXCEPT ![own[w]].active = FALSE, ![own[w]].running = FALSE]
  /\ UNCHANGED <<own, debugger, failed, shared, driven, crashed>>

(* The thread sends its files through the calculator's link. *)
Send(w) ==
  /\ sheet[w] = "sending"
  /\ IF calcs[own[w]].memory
     THEN /\ sheet' = [sheet EXCEPT ![w] = "sent"]
          /\ driven' = [driven EXCEPT ![w] = {}]
          /\ UNCHANGED crashed
     ELSE crashed' = own[w] /\ UNCHANGED <<sheet, driven>>
  /\ UNCHANGED <<calcs, own, debugger, failed, shared>>

_sheetDidEnd(w) ==
  /\ sheet[w] = "sent"
  /\ sheet' = [sheet EXCEPT ![w] = "none"]
  /\ calcs' = [calcs EXCEPT ![own[w]].active = TRUE, ![own[w]].running = TRUE]
  /\ UNCHANGED <<own, debugger, failed, shared, driven, crashed>>

(* showDebugger, or one of the calculator's memory breakpoints: the window *)
(* controller is made, once, and stops the calculator.                     *)
showDebugger(w) ==
  /\ IsOpen(w) /\ w \notin debugger
  /\ debugger' = debugger \cup {w}
  /\ calcs' = [calcs EXCEPT ![own[w]].running = FALSE]
  /\ UNCHANGED <<own, sheet, failed, shared, driven, crashed>>

CloseDebugger(w) ==
  /\ w \in debugger
  /\ debugger' = debugger \ {w}
  /\ calcs' = [calcs EXCEPT ![own[w]].running = TRUE]
  /\ UNCHANGED <<own, sheet, failed, shared, driven, crashed>>

(* The document and its debugger are closed and the RSCalculator is gone. *)
Close(w) ==
  /\ IsOpen(w) /\ sheet[w] = "none"
  /\ calcs' = [calcs EXCEPT ![own[w]] = Closed(@, w \in debugger)]
  /\ own' = [own EXCEPT ![w] = None]
  /\ debugger' = debugger \ {w}
  /\ UNCHANGED <<sheet, failed, shared, driven, crashed>>

-----------------------------------------------------------------------------
(* The main thread runs the calculator of s, perhaps beside a thread that  *)
(* sends to it.                                                            *)
Drive(s, who) ==
  /\ IF calcs[s].memory
     THEN /\ driven' = [w \in Windows |->
                          driven[w] \cup IF sheet[w] = "sending" /\ own[w] = s
                                         THEN {who} ELSE {}]
          /\ UNCHANGED crashed
     ELSE crashed' = s /\ UNCHANGED driven
  /\ UNCHANGED <<calcs, own, sheet, debugger, failed, shared>>

(* The frame timer runs what is active and running. *)
calc_run_all(s) ==
  /\ calcs[s].active /\ calcs[s].running
  /\ Drive(s, "timer")

(* calc_run_tstates comes to a breakpoint and calls the document. *)
Breakpoint(w) ==
  /\ IsOpen(w)
  /\ calcs[own[w]] = [active |-> TRUE, running |-> TRUE, memory |-> TRUE]
  /\ calcs' = [calcs EXCEPT ![own[w]].running = FALSE]
  /\ debugger' = debugger \cup {w}
  /\ UNCHANGED <<own, sheet, failed, shared, driven, crashed>>

(* step, stepOver and stepOut of the debugger. *)
DebuggerStep(w) ==
  /\ w \in debugger
  /\ Drive(own[w], "debugger")

WindowStep(w) ==
  \/ \E s \in Slots, file \in Files : Open(w, s, file)
  \/ \E file \in Files : Load(w, file)
  \/ Transfer(w) \/ Send(w) \/ _sheetDidEnd(w)
  \/ showDebugger(w) \/ CloseDebugger(w) \/ Breakpoint(w) \/ DebuggerStep(w)
  \/ Close(w)

Next ==
  /\ crashed = None
  /\ \/ \E w \in Windows : WindowStep(w)
     \/ \E s \in Slots : calc_run_all(s)

Spec == Init /\ [][Next]_vars

-----------------------------------------------------------------------------
(***************************************************************************)
(* No slot is lost: an active one belongs to an open window, whatever      *)
(* loads failed and however windows came to share slots, so a window is    *)
(* refused only where MAX_CALCS others are open.                           *)
(***************************************************************************)
NoSlotLost == \A s \in Slots : calcs[s].active => Owners(s) # {}

(***************************************************************************)
(* The frame timer does not run a calculator while a thread is sending to  *)
(* it, even if its debugger is opened, stopped and closed meanwhile.  The  *)
(* exception is a slot that two windows share since one was opened during  *)
(* a transfer.  Nothing keeps the debugger's steps from running it.        *)
(***************************************************************************)
OneDriver ==
  \A w \in Windows :
    sheet[w] = "sending" /\ "timer" \in driven[w] => own[w] \in shared

(***************************************************************************)
(* Memory that is not there is only used in a slot where the last load has *)
(* failed with the window left open, or that two windows have come to      *)
(* share.                                                                  *)
(***************************************************************************)
CrashExplained == crashed # None => crashed \in failed \cup shared

=============================================================================
