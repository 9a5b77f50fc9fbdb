---------------------------- MODULE HarnessTurn ----------------------------
(***************************************************************************)
(* One turn of a vendor's CLI run as it is, with the turn's catalogue      *)
(* served to it over MCP (createMcpHarnessRuntime, runHarness). The CLI    *)
(* keeps its own loop: its calls leave over the port, and its output is    *)
(* read only for the turn's ending. A session harness is let go by closing *)
(* its input; a one-shot one has it closed from the start.                 *)
(***************************************************************************)
EXTENDS McpServer

CONSTANTS
    Vendor,          (* whose CLI it is                                        *)
    None

Protocols == INSTANCE VendorProtocols

ASSUME HarnessTurnAssumption ==
    /\ Vendor \in Protocols!Vendors
    /\ None \notin {"complete", "failed", "escalate", "thrown"}

VARIABLES
    at,            (* where run is                                             *)
    session,       (* keepStdinOpen                                            *)
    child,         (* the process: none yet, up, told to stop, or gone         *)
    exitCode,      (* how it went                                              *)
    inputEnded,
    idle,          (* is the idle timer armed                                  *)
    quiet,         (* has it written nothing for idleTimeoutMs                 *)
    terminal,      (* the ending its output stated                             *)
    spoke,         (* has it written a frame                                   *)
    ending,        (* runHarness's outcome                                     *)
    outcome,       (* run's                                                    *)
    counted,       (* callsAfterEscalation, on an escalated outcome            *)
    aborted

processVars == <<child, exitCode, inputEnded, idle, quiet, terminal, spoke>>
runVars == <<at, ending, outcome, counted>>
vars == <<serverVars, processVars, runVars, session, aborted>>

TypeOK ==
    /\ ServerTypeOK
    /\ at \in {"binding", "scratch", "launching", "running", "settling", "closing", "done"}
    /\ session \in BOOLEAN
    /\ child \in {"none", "up", "stopping", "gone"}
    /\ exitCode \in {None, "zero", "other", "error"}
    /\ inputEnded \in BOOLEAN /\ idle \in BOOLEAN /\ quiet \in BOOLEAN /\ spoke \in BOOLEAN
    /\ terminal \in {None, "complete", "failed"}
    /\ ending \in {None, "complete", "failed"}
    /\ outcome \in {None, "complete", "failed", "escalate", "thrown"}
    /\ aborted \in BOOLEAN

Init ==
    /\ ServerInit
    /\ at = "binding"
    /\ session \in BOOLEAN
    /\ child = "none" /\ exitCode = None
    /\ inputEnded = FALSE /\ idle = FALSE /\ quiet = FALSE
    /\ terminal = None /\ spoke = FALSE
    /\ ending = None /\ outcome = None /\ counted = 0
    /\ aborted = FALSE

-----------------------------------------------------------------------------
(* The run                                                                 *)

throwsFrom(place) ==
    /\ at' = place /\ outcome' = "thrown"
    /\ UNCHANGED <<ending, counted>>

Binds ==
    /\ at = "binding"
    /\ \/ bound' = TRUE /\ at' = "scratch" /\ UNCHANGED <<ending, outcome, counted>>
       \/ throwsFrom("done") /\ UNCHANGED bound
    /\ UNCHANGED <<tools, closed, post, reached, latch, processVars, session, aborted>>

(* mkdtemp, which nothing in run catches.                                  *)
MakesScratch ==
    /\ at = "scratch"
    /\ \/ at' = "launching" /\ UNCHANGED <<ending, outcome, counted>>
       \/ throwsFrom("done")
    /\ UNCHANGED <<serverVars, processVars, session, aborted>>

(* The finally: the bridge is shut, and in the same stretch the requests   *)
(* are aborted, the port is let go and its connections are closed.         *)
Closes == closed' = TRUE /\ bound' = FALSE

(* Mutant: the timer waits for a first sign of life.                       *)
armedByOutput == FALSE

armed == session

(* The configuration is written and the process started, unless a file     *)
(* cannot be, or the turn is aborted already.                              *)
Launches ==
    /\ at = "launching" /\ ~aborted
    /\ at' = "running"
    /\ child' = "up"
    /\ inputEnded' = ~session /\ idle' = armed /\ quiet' = FALSE
    /\ UNCHANGED <<serverVars, exitCode, terminal, spoke, ending, outcome, counted, session, aborted>>

LaunchFails ==
    /\ at = "launching"
    /\ throwsFrom("closing")
    /\ Closes
    /\ UNCHANGED <<tools, post, reached, latch, processVars, session, aborted>>

(* The outcome of a harness that is gone.                                  *)
endingOf ==
    IF exitCode = "error" THEN "failed"
    ELSE IF terminal # None THEN terminal
    ELSE IF exitCode = "zero" THEN "complete" ELSE "failed"

Reaps ==
    /\ at = "running" /\ child = "gone"
    /\ inputEnded' = TRUE /\ idle' = FALSE /\ quiet' = FALSE
    /\ IF aborted
       THEN throwsFrom("closing") /\ Closes
       ELSE /\ at' = "settling" /\ ending' = endingOf
            /\ UNCHANGED <<outcome, counted, bound, closed>>
    /\ UNCHANGED <<tools, post, reached, latch, child, exitCode, terminal, spoke, session, aborted>>

(* Mutant: what the harness says of its turn is what is reported.          *)
settlesAsStated == ending

(* EscalationLatch.settle.                                                 *)
settled == IF asked THEN "escalate" ELSE ending

(* The catalogue's hash was awaited, with the port still open. Nothing is  *)
(* awaited from here until the bridge is closed.                           *)
Settles ==
    /\ at = "settling"
    /\ at' = "closing"
    /\ outcome' = settled /\ counted' = afterwards
    /\ Closes
    /\ UNCHANGED <<tools, post, reached, latch, processVars, ending, session, aborted>>

(* http.close has resolved; rm may throw, and is then what run ends with.  *)
Removes ==
    /\ at = "closing"
    /\ \/ at' = "done" /\ UNCHANGED <<ending, outcome, counted>>
       \/ throwsFrom("done")
    /\ UNCHANGED <<serverVars, processVars, session, aborted>>

-----------------------------------------------------------------------------
(* The process                                                             *)

running == child \in {"up", "stopping"}

(* What its frame means: a last word, or nothing this turn is ended by.    *)
meaning(word) ==
    IF word = "progress" THEN None
    ELSE LET step == Protocols!endingStep(Vendor, word) IN IF step = "none" THEN None ELSE step

firstEnding(word) == IF terminal # None THEN terminal ELSE meaning(word)

(* onFrame. The first ending stated is the turn's; with it the input is    *)
(* closed, and without it the timer starts again (touch).                  *)
Speaks(word) ==
    /\ running /\ at = "running"
    /\ spoke' = TRUE
    /\ terminal' = firstEnding(word)
    /\ inputEnded' = (inputEnded \/ terminal' # None)
    /\ idle' = (session /\ ~inputEnded') /\ quiet' = FALSE
    /\ UNCHANGED <<serverVars, runVars, child, exitCode, session, aborted>>

(* onDiagnostic: what it writes to its error output restarts the timer.    *)
Mutters ==
    /\ running /\ at = "running"
    /\ idle' = (session /\ ~inputEnded) /\ quiet' = FALSE
    /\ UNCHANGED <<serverVars, runVars, child, exitCode, inputEnded, terminal, spoke, session,
                   aborted>>

(* Time passes over an open session without a word from its harness.       *)
Lapses ==
    /\ session /\ at = "running" /\ running /\ ~inputEnded
    /\ ~quiet /\ quiet' = TRUE
    /\ UNCHANGED <<serverVars, runVars, child, exitCode, inputEnded, idle, terminal, spoke,
                   session, aborted>>

(* The timer runs out only where idleTimeoutMs have passed since it was    *)
(* last set: a harness that writes in time puts it off for good.           *)
IdleFires ==
    /\ idle /\ quiet
    /\ idle' = FALSE /\ inputEnded' = TRUE
    /\ UNCHANGED <<serverVars, runVars, child, exitCode, quiet, terminal, spoke, session, aborted>>

Exits(code) ==
    /\ running
    /\ code = "error" => ~spoke
    /\ child' = "gone" /\ exitCode' = code
    /\ UNCHANGED <<serverVars, runVars, inputEnded, idle, quiet, terminal, spoke, session,
                   aborted>>

(* The turn's signal ends the process, and nothing else here.              *)
Aborts ==
    /\ ~aborted
    /\ aborted' = TRUE
    /\ child' = IF child = "up" THEN "stopping" ELSE child
    /\ UNCHANGED <<serverVars, runVars, exitCode, inputEnded, idle, quiet, terminal, spoke,
                   session>>

-----------------------------------------------------------------------------
Server == (\E p \in Posts : Serves(p)) /\ UNCHANGED <<processVars, runVars, session, aborted>>

(* Whoever holds the port: the harness, or what it left running.           *)
Client ==
    /\ \E p \in Posts, body \in Bodies : Arrives(p, body)
    /\ UNCHANGED <<processVars, runVars, session, aborted>>

Next ==
    \/ Binds \/ MakesScratch \/ Launches \/ LaunchFails \/ Reaps \/ Settles \/ Removes
    \/ \E word \in Protocols!lastWords(Vendor) \union {"progress"} : Speaks(word)
    \/ Mutters \/ Lapses \/ IdleFires
    \/ \E code \in {"zero", "other", "error"} : Exits(code)
    \/ Aborts \/ Server \/ Client

(* What run awaits settles, time passes, a timer whose time has come       *)
(* fires, and a harness whose input has ended, or that is told to stop,    *)
(* exits. Nothing else is assumed of it: one that goes on writing keeps    *)
(* the timer from ever being due.                                          *)
Fairness ==
    /\ WF_vars(Binds) /\ WF_vars(MakesScratch) /\ WF_vars(Launches \/ LaunchFails)
    /\ WF_vars(Reaps) /\ WF_vars(Settles) /\ WF_vars(Removes)
    /\ WF_vars(Lapses) /\ WF_vars(IdleFires)
    /\ WF_vars((inputEnded \/ child = "stopping") /\ \E code \in {"zero", "other"} : Exits(code))

Spec == Init /\ [][Next]_vars /\ Fairness

-----------------------------------------------------------------------------
(* Properties                                                              *)

(* A turn that returns ends escalated exactly if an ask of the harness's   *)
(* was taken, whatever the harness made of it, though the ask came as it   *)
(* wound down or its answer was never delivered; and the record counts     *)
(* each call it made after (EscalationLatch.settle).                       *)
AskIsHonoured ==
    outcome \notin {None, "thrown"} =>
      /\ outcome = "escalate" <=> Cardinality(answersOf("accepted")) = 1
      /\ outcome = "escalate" => askNoted /\ counted = Cardinality(answersOf("escalation_pending"))

(* An open session that nobody has stopped, whose harness has stated no    *)
(* ending and has been writing.                                            *)
writesOn == session /\ at = "running" /\ ~aborted /\ terminal = None /\ ~quiet

(* The run ends, though nobody stops the turn: a harness that falls silent *)
(* with its session open, whenever it does, is told that its input is over *)
(* (keepStdinOpen, idleTimeoutMs). The one exception is the code's: each   *)
(* frame and each piece of error output restarts the timer (touch), so a   *)
(* harness that writes on and on without stating an ending is ended only   *)
(* by the turn's deadline.                                                 *)
RunEnds == <>(at = "done") \/ []<>writesOn

(* mcp-runtime.ts: "Nothing outlives the turn -- not the catalogue, not    *)
(* the port, not the generated configuration".                             *)
NothingOutlivesTheTurn == at = "done" => ~bound

=============================================================================
