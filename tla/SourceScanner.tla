---------------------------- MODULE SourceScanner ----------------------------
(***************************************************************************)
(* WabbitCode's scan of one source file.  Every edit restarts a timer;     *)
(* when it fires, the main thread cancels the operations of the last scan  *)
(* and queues three new ones, each with a copy of the text: the tokens     *)
(* and, after them, the symbols and the folds, which look up the tokens of *)
(* the scanner.  At most two operations run at once.  An operation looks   *)
(* whether it is cancelled between its passes; after the last look it sets *)
(* the scanner's properties one by one, and it always posts its            *)
(* notification, whose observers read the properties on the main thread.   *)
(*                                                                         *)
(* A text is the number of edits it has seen.  What NSOperationQueue does  *)
(* is modelled by its documentation: a cancelled operation that has not    *)
(* started waits for nothing and does not run its main.                    *)
(***************************************************************************)
EXTENDS Naturals, FiniteSets

CONSTANT MaxEdits   \* bound on the edits

ASSUME EditsAssumption == MaxEdits \in Nat

Texts == 0 .. MaxEdits

Scans == 1 .. MaxEdits + 1

Kinds == {"tokens", "symbols", "folds"}

(* What an operation sets first and what last: the names stand for         *)
(* symbolsSortedByName and the dictionaries set after it.                  *)
Parts == {"tokens", "calledLabels", "symbols", "names", "folds"}

First == [tokens |-> "tokens", symbols |-> "symbols", folds |-> "folds"]

Last == [tokens |-> "calledLabels", symbols |-> "names", folds |-> "folds"]

Stages == {"none", "waiting", "running", "first", "last", "posting", "done"}

VARIABLES text,     \* the text storage
          timer,    \* _scanTimer: nil, set, or spent: fired and not let go
          latest,   \* the scans that were started
          copy,     \* scan -> the text its operations have copied
          op,       \* scan -> kind -> how far the operation is
          seen,     \* scan -> kind -> the text of the tokens it looks up,
                    \* while it runs
          results,  \* part -> the text, and the text of the tokens, it is from
          pending,  \* DidFinishScanningSymbols is on its way to the main thread
          shown,    \* the names the navigator has last read
          overtaken,\* history: operations superseded after their last look
          late      \* history: parts that such an operation was the last to set

scanVars == <<text, timer, latest, copy, op, seen, results, pending, shown, overtaken, late>>

ScanTypeOK ==
  /\ text \in Texts /\ shown \in Texts
  /\ timer \in {"nil", "set", "spent"}
  /\ latest \in Scans
  /\ copy \in [Scans -> Texts]
  /\ op \in [Scans -> [Kinds -> Stages]]
  /\ seen \in [Scans -> [Kinds -> Texts]]
  /\ results \in [Parts -> [text : Texts, tokens : Texts]]
  /\ pending \in BOOLEAN /\ late \subseteq Parts
  /\ overtaken \subseteq Scans \X Kinds

(* A file has been opened: its first scan is queued. *)
ScanInit ==
  /\ text = 0 /\ timer = "nil" /\ latest = 1
  /\ copy = [g \in Scans |-> 0]
  /\ op = [g \in Scans |-> [k \in Kinds |-> IF g = 1 THEN "waiting" ELSE "none"]]
  /\ seen = [g \in Scans |-> [k \in Kinds |-> 0]]
  /\ results = [p \in Parts |-> [text |-> 0, tokens |-> 0]]
  /\ pending = FALSE /\ shown = 0 /\ late = {} /\ overtaken = {}

-----------------------------------------------------------------------------
(* _textStorageDidProcessEditing: the timer is set or put off. *)
Edit ==
  /\ text < MaxEdits
  /\ text' = text + 1
  /\ timer' = IF timer = "nil" THEN "set" ELSE timer
  /\ UNCHANGED <<latest, copy, op, seen, results, pending, shown, overtaken, late>>

isCancelled(g) == g < latest

(* The operations that look no more whether they are cancelled. *)
Committed == {x \in Scans \X Kinds : op[x[1]][x[2]] \in {"first", "last"}}

(* The timer has fired and is not let go. *)
KeepingScan ==
  /\ timer = "set" /\ timer' = "spent"
  /\ latest' = latest + 1
  /\ copy' = [copy EXCEPT ![latest + 1] = text]
  /\ op' = [op EXCEPT ![latest + 1] = [k \in Kinds |-> "waiting"]]
  /\ overtaken' = overtaken \cup Committed
  /\ UNCHANGED <<text, seen, results, pending, shown, late>>

(* The timer fires: one scan is cancelled and the next one queued. *)
scanTokens ==
  /\ timer = "set" /\ timer' = "nil"
  /\ latest' = latest + 1
  /\ copy' = [copy EXCEPT ![latest + 1] = text]
  /\ op' = [op EXCEPT ![latest + 1] = [k \in Kinds |-> "waiting"]]
  /\ overtaken' = overtaken \cup Committed
  /\ UNCHANGED <<text, seen, results, pending, shown, late>>

Active == {x \in Scans \X Kinds : op[x[1]][x[2]] \in {"running", "first", "last", "posting"}}

Move(g, k, stage) == op' = [op EXCEPT ![g][k] = stage]

(* No operation waits for another. *)
HastyIsReady(g, k) == TRUE

isReady(g, k) == k = "tokens" \/ op[g]["tokens"] = "done" \/ isCancelled(g)

(* The queue starts an operation, which takes the scanner's tokens.  A     *)
(* cancelled one is done at once.                                          *)
Start(g, k) ==
  /\ op[g][k] = "waiting" /\ isReady(g, k) /\ Cardinality(Active) < 2
  /\ Move(g, k, IF isCancelled(g) THEN "done" ELSE "running")
  /\ seen' = IF k = "tokens" \/ isCancelled(g) THEN seen
             ELSE [seen EXCEPT ![g][k] = results["tokens"].text]
  /\ UNCHANGED <<text, timer, latest, copy, results, pending, shown, overtaken, late>>

(* It does not look. *)
BlindCheck(g, k) ==
  /\ op[g][k] = "running"
  /\ Move(g, k, IF k = "folds" THEN "last" ELSE "first")
  /\ UNCHANGED <<text, timer, latest, copy, seen, results, pending, shown, overtaken, late>>

(* The last time it looks whether it is cancelled. *)
Check(g, k) ==
  /\ op[g][k] = "running"
  /\ Move(g, k, IF isCancelled(g) THEN "posting" ELSE IF k = "folds" THEN "last" ELSE "first")
  /\ UNCHANGED <<text, timer, latest, copy, seen, results, pending, shown, overtaken, late>>

(* Two of the properties it sets, or the only one. *)
Publish(g, k) ==
  /\ op[g][k] \in {"first", "last"}
  /\ LET p == IF op[g][k] = "first" THEN First[k] ELSE Last[k]
     IN  /\ results' = [results EXCEPT ![p] = [text   |-> copy[g],
                                               tokens |-> IF k = "tokens" THEN copy[g]
                                                          ELSE seen[g][k]]]
         /\ late' = IF <<g, k>> \in overtaken THEN late \cup {p} ELSE late \ {p}
  /\ Move(g, k, IF op[g][k] = "first" THEN "last" ELSE "posting")
  /\ UNCHANGED <<text, timer, latest, copy, seen, pending, shown, overtaken>>

(* A cancelled operation has nothing to say. *)
SilentPost(g, k) ==
  /\ op[g][k] = "posting"
  /\ pending' = (pending \/ (k = "symbols" /\ ~isCancelled(g)))
  /\ Move(g, k, "done")
  /\ seen' = [seen EXCEPT ![g][k] = 0]
  /\ UNCHANGED <<text, timer, latest, copy, results, shown, overtaken, late>>

(* Nobody keeps what the other two notifications tell. *)
Post(g, k) ==
  /\ op[g][k] = "posting"
  /\ pending' = (pending \/ k = "symbols")
  /\ Move(g, k, "done")
  /\ seen' = [seen EXCEPT ![g][k] = 0]
  /\ UNCHANGED <<text, timer, latest, copy, results, shown, overtaken, late>>

(* The observers, on the main thread, read the scanner. *)
DidFinishScanningSymbols ==
  /\ pending /\ pending' = FALSE
  /\ shown' = results["names"].text
  /\ UNCHANGED <<text, timer, latest, copy, op, seen, results, overtaken, late>>

Operation(g, k) == Start(g, k) \/ Check(g, k) \/ Publish(g, k) \/ Post(g, k)

ScanNext ==
  \/ Edit
  \/ scanTokens
  \/ \E g \in Scans, k \in Kinds : Operation(g, k)
  \/ DidFinishScanningSymbols

ScanSpec == ScanInit /\ [][ScanNext]_scanVars

(* The timer fires once the user pauses, and the queue and the main thread *)
(* keep working.                                                           *)
FairScanSpec ==
  /\ ScanSpec
  /\ WF_scanVars(scanTokens)
  /\ \A g \in Scans, k \in Kinds : WF_scanVars(Operation(g, k))
  /\ WF_scanVars(DidFinishScanningSymbols)

-----------------------------------------------------------------------------
Quiet ==
  /\ timer # "set" /\ ~pending
  /\ \A g \in Scans, k \in Kinds : op[g][k] \in {"none", "done"}

(***************************************************************************)
(* When nothing is left to do, everything the scanner holds is of the text *)
(* on the screen and was found with the tokens of that text, however edits *)
(* and operations were interleaved.  The exception is the one the code     *)
(* leaves open: an operation superseded after its last look at isCancelled *)
(* may set its results after those of its successor.                       *)
(***************************************************************************)
UpToDate ==
  Quiet => \A p \in Parts \ late :
             /\ results[p].text = text
             /\ "tokens" \notin late => results[p].tokens = text

(***************************************************************************)
(* The symbols and folds that are still wanted are never looked up in the  *)
(* tokens of another text, unless a superseded operation has set them.     *)
(***************************************************************************)
TokensFit ==
  \A g \in Scans, k \in {"symbols", "folds"} :
    op[g][k] \in {"running", "first", "last"} /\ ~isCancelled(g)
      => seen[g][k] = copy[g] \/ "tokens" \in late

(***************************************************************************)
(* Even then the navigator shows what the scanner holds: whichever         *)
(* operation sets the names last posts after it.                           *)
(***************************************************************************)
NavigatorFollows == Quiet => shown = results["names"].text

(* After the last edit the scanner's results become those of the text. *)
ScanSettles == <>[](\A p \in Parts \ late : results[p].text = text)

=============================================================================
