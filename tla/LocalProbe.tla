----------------------------- MODULE LocalProbe ------------------------------
(***************************************************************************)
(* The local tests of the desktop's first page: the command run_probe      *)
(* (apps/desktop/src-tauri/src/lib.rs) starts a process, waits for it and  *)
(* takes the result from a file.  The process is dx-probe                  *)
(* (native/transport/src/main.rs), which for the tests with pictures       *)
(* starts the macOS helper and reads a second file, or for the input test  *)
(* the helper itself (native/platform-macos/Sources/Probe.swift).          *)
(*                                                                         *)
(* Both files are named by the kind of test alone.  A process outlives the *)
(* one that started it: one whose application has quit goes on, and so     *)
(* does a helper whose dx-probe has crashed, with the pipe the application *)
(* waits on.                                                               *)
(***************************************************************************)
EXTENDS Integers, FiniteSets

CONSTANTS
    Kind,      \* tests offered
    Caller,    \* calls of run_probe that may be under way at once
    Run,       \* processes, each started once
    MaxQuits,  \* bound on the times the application quits and is opened again
    None

ASSUME ProbeAssumption ==
    /\ Kind \subseteq {"transport", "synthetic", "capture", "input"}
    /\ None \notin Run
    /\ MaxQuits \in Nat

VARIABLES
    busy,      \* LabState.busy
    calls,     \* Caller -> where its run_probe is
    report,    \* Kind -> the file the application reads
    native,    \* Kind -> the file dx-probe reads
    process,   \* Run -> the process that run_probe started
    helper,    \* Run -> the helper that dx-probe started
    received,  \* runs whose frames came back through WebRTC
    tested,    \* history: Run -> what its test found
    answer,    \* history: the last reply of run_probe
    quits

files == <<report, native>>
runs  == <<process, helper, received, tested>>
app   == <<busy, calls, answer>>
vars  == <<app, files, runs, quits>>

------------------------------------------------------------------------------
Result == {"passed", "failed"}

File(by, result) == [by |-> by, result |-> result]
NoFile == File(None, "none")

Call   == [stage : {"idle", "cleaning", "asking", "launching", "waiting"},
           kind : Kind \cup {None}, run : Run \cup {None}]
CallAt(stage, kind, run) == [stage |-> stage, kind |-> kind, run |-> run]
NoCall == CallAt("idle", None, None)

Process   == [stage : {"unused", "connecting", "streaming", "testing",
                       "reporting", "reported", "gone"},
              kind : Kind \cup {None},
              outcome : Result \cup {"none"},
              ok : BOOLEAN]
ProcessAt(stage, kind, outcome, ok) ==
    [stage |-> stage, kind |-> kind, outcome |-> outcome, ok |-> ok]
NoProcess == ProcessAt("unused", None, "none", FALSE)

Helper == {"none", "running", "reported", "ended", "crashed"}

\* What a reply says, of which run, and who wrote the file it was taken from
Answer(run, by, result) == [run |-> run, by |-> by, result |-> result]
NoAnswer == Answer(None, None, "none")

NeedsHelper     == Kind \ {"transport"}
NeedsPermission == Kind \cap {"capture", "input"}

At(c, stage)   == calls[c].stage = stage
To(c, stage)   == calls' = [calls EXCEPT ![c] = CallAt(stage, calls[c].kind, calls[c].run)]
In(r, stage)   == process[r].stage = stage
HelperAlive(r) == helper[r] \in {"running", "reported"}
Alive(r)       == HelperAlive(r) \/ process[r].stage \notin {"unused", "gone"}

\* The call returns, and the flag is cleared after it.
Returns(c, a) ==
    /\ calls'  = [calls EXCEPT ![c] = NoCall]
    /\ busy'   = FALSE
    /\ answer' = a

Error(c) == Answer(calls[c].run, None, "error")

------------------------------------------------------------------------------
(* run_probe *)

\* A call that finds the flag set is refused at once.
Called(c, k) ==
    /\ At(c, "idle") /\ ~busy
    /\ busy' = TRUE
    /\ calls' = [calls EXCEPT ![c] = CallAt("cleaning", k, None)]
    /\ UNCHANGED <<answer, files, runs, quits>>

\* Mutant: only the application's own old file is removed.
Cleaned_KeepsNative(c) ==
    LET k == calls[c].kind IN
    /\ At(c, "cleaning")
    /\ report' = [report EXCEPT ![k] = NoFile]
    /\ To(c, IF k \in NeedsHelper THEN "asking" ELSE "launching")
    /\ UNCHANGED <<busy, answer, native, runs, quits>>

Cleaned(c) ==
    LET k == calls[c].kind IN
    /\ At(c, "cleaning")
    /\ report' = [report EXCEPT ![k] = NoFile]
    /\ native' = [native EXCEPT ![k] = NoFile]
    /\ To(c, IF k \in NeedsHelper THEN "asking" ELSE "launching")
    /\ UNCHANGED <<busy, answer, runs, quits>>

\* No directory, or one of the two files cannot be removed.
CleaningFails(c) ==
    LET k == calls[c].kind IN
    /\ At(c, "cleaning")
    /\ \/ UNCHANGED report
       \/ report' = [report EXCEPT ![k] = NoFile]
    /\ Returns(c, Error(c))
    /\ UNCHANGED <<native, runs, quits>>

Permitted(c) ==
    /\ At(c, "asking")
    /\ To(c, "launching")
    /\ UNCHANGED <<busy, answer, files, runs, quits>>

\* Saved like a result, which may itself fail
Blocked(c) ==
    LET k == calls[c].kind IN
    /\ At(c, "asking") /\ k \in NeedsPermission
    /\ \/ /\ report' = [report EXCEPT ![k] = File(None, "blocked")]
          /\ Returns(c, Answer(None, None, "blocked"))
       \/ /\ UNCHANGED report
          /\ Returns(c, Error(c))
    /\ UNCHANGED <<native, runs, quits>>

Launched(c, r) ==
    LET k == calls[c].kind IN
    /\ At(c, "launching") /\ In(r, "unused")
    /\ calls'   = [calls EXCEPT ![c] = CallAt("waiting", k, r)]
    /\ process' = [process EXCEPT ![r] =
                      ProcessAt(IF k = "input" THEN "testing" ELSE "connecting", k, "none", FALSE)]
    /\ UNCHANGED <<busy, answer, files, helper, received, tested, quits>>

\* Mutant: an early return leaves the flag set.
NotLaunched_KeepsFlag(c) ==
    /\ At(c, "asking") \/ At(c, "launching")
    /\ calls' = [calls EXCEPT ![c] = NoCall] /\ answer' = Error(c)
    /\ UNCHANGED <<busy, files, runs, quits>>

\* A component is missing, says nothing of its permissions, or does not start.
NotLaunched(c) ==
    /\ At(c, "asking") \/ At(c, "launching")
    /\ Returns(c, Error(c))
    /\ UNCHANGED <<files, runs, quits>>

\* read_probe_result of a file that is there
ProbeResult(file, ok) == IF file.result = "passed" /\ ~ok THEN "failed" ELSE file.result

\* Mutant: only the process is waited for.
Collected_ProcessOnly(c) ==
    LET r == calls[c].run
        f == report[calls[c].kind] IN
    /\ At(c, "waiting") /\ In(r, "gone")
    /\ Returns(c, IF f = NoFile THEN Error(c)
                  ELSE Answer(r, f.by, ProbeResult(f, process[r].ok)))
    /\ UNCHANGED <<files, runs, quits>>

\* output() waits for the process, and for everyone who holds its error pipe.
Collected(c) ==
    LET r == calls[c].run
        f == report[calls[c].kind] IN
    /\ At(c, "waiting") /\ ~Alive(r)
    /\ Returns(c, IF f = NoFile THEN Error(c)
                  ELSE Answer(r, f.by, ProbeResult(f, process[r].ok)))
    /\ UNCHANGED <<files, runs, quits>>

\* The application quits, or crashes, and is opened again.
Quit ==
    /\ quits < MaxQuits
    /\ quits'  = quits + 1
    /\ busy'   = FALSE
    /\ calls'  = [c \in Caller |-> NoCall]
    /\ answer' = NoAnswer
    /\ UNCHANGED <<files, runs>>

------------------------------------------------------------------------------
(* dx-probe *)

Moves(r, stage, outcome, ok) ==
    process' = [process EXCEPT ![r] = ProcessAt(stage, process[r].kind, outcome, ok)]

Outcome(r, result) == Moves(r, "reporting", result, FALSE)

\* The echo has come back over the data channel.
Connected(r) ==
    /\ In(r, "connecting")
    /\ IF process[r].kind = "transport"
         THEN /\ Outcome(r, "passed")
              /\ tested' = [tested EXCEPT ![r] = "passed"]
              /\ UNCHANGED helper
         ELSE /\ Moves(r, "streaming", "none", FALSE)
              /\ helper'  = [helper EXCEPT ![r] = "running"]
              /\ UNCHANGED tested
    /\ UNCHANGED <<app, files, received, quits>>

\* No candidates or no echo in time, or no helper to start
ConnectionFails(r) ==
    /\ In(r, "connecting")
    /\ Outcome(r, "failed")
    /\ UNCHANGED <<app, files, helper, received, tested, quits>>

FrameReturns(r) ==
    /\ In(r, "streaming") /\ helper[r] = "running"
    /\ received' = received \cup {r}
    /\ UNCHANGED <<app, files, process, helper, tested, quits>>

\* The helper's pipe has ended: its exit code and its file decide.
Judged(r) ==
    /\ In(r, "streaming") /\ ~HelperAlive(r)
    /\ Outcome(r, IF /\ helper[r] = "ended"
                     /\ native[process[r].kind].result = "passed"
                     /\ r \in received
                  THEN "passed" ELSE "failed")
    /\ UNCHANGED <<app, files, helper, received, tested, quits>>

\* The deadline of the test, or a frame of a wrong length: the helper is killed.
StreamFails(r) ==
    /\ In(r, "streaming") /\ HelperAlive(r)
    /\ Outcome(r, "failed")
    /\ helper' = [helper EXCEPT ![r] = "crashed"]
    /\ UNCHANGED <<app, files, received, tested, quits>>

Reported(r) ==
    /\ In(r, "reporting")
    /\ Moves(r, "reported", process[r].outcome, FALSE)
    /\ report'  = [report EXCEPT ![process[r].kind] = File(r, process[r].outcome)]
    /\ UNCHANGED <<app, native, helper, received, tested, quits>>

\* A failed test is a failed process; the input test's helper ends well with any.
Exits(r) ==
    /\ In(r, "reported")
    /\ Moves(r, "gone", process[r].outcome,
             process[r].kind = "input" \/ process[r].outcome = "passed")
    /\ UNCHANGED <<app, files, helper, received, tested, quits>>

\* Also when the report cannot be written; half a report is as good as none.
Crashes(r) ==
    /\ process[r].stage \notin {"unused", "gone"}
    /\ Moves(r, "gone", process[r].outcome, FALSE)
    /\ \/ UNCHANGED report
       \/ /\ In(r, "reporting")
          /\ report' = [report EXCEPT ![process[r].kind] = NoFile]
    /\ UNCHANGED <<app, native, helper, received, tested, quits>>

------------------------------------------------------------------------------
(* The macOS helper *)

\* With dx-probe: the test passes only if frames came back and were decoded.  The
\* file is replaced at once, or not at all if it cannot be written.
HelperReports(r) ==
    /\ helper[r] = "running"
    /\ helper' = [helper EXCEPT ![r] = "reported"]
    /\ \E result \in IF r \in received THEN Result ELSE {"failed"} :
         /\ tested' = [tested EXCEPT ![r] = result]
         /\ \/ native' = [native EXCEPT ![process[r].kind] = File(r, result)]
            \/ UNCHANGED native
    /\ UNCHANGED <<app, report, process, received, quits>>

HelperExits(r) ==
    /\ helper[r] = "reported"
    /\ helper' = [helper EXCEPT ![r] = "ended"]
    /\ UNCHANGED <<app, files, process, received, tested, quits>>

HelperCrashes(r) ==
    /\ HelperAlive(r)
    /\ helper' = [helper EXCEPT ![r] = "crashed"]
    /\ UNCHANGED <<app, files, process, received, tested, quits>>

\* On its own: the input test
InputTested(r) ==
    /\ In(r, "testing")
    /\ \E result \in Result :
         /\ Moves(r, "reported", result, FALSE)
         /\ tested'  = [tested EXCEPT ![r] = result]
         /\ \/ report' = [report EXCEPT !["input"] = File(r, result)]
            \/ UNCHANGED report
    /\ UNCHANGED <<app, native, helper, received, quits>>

------------------------------------------------------------------------------
Init ==
    /\ busy = FALSE
    /\ calls = [c \in Caller |-> NoCall]
    /\ report = [k \in Kind |-> NoFile] /\ native = [k \in Kind |-> NoFile]
    /\ process = [r \in Run |-> NoProcess]
    /\ helper = [r \in Run |-> "none"]
    /\ received = {}
    /\ tested = [r \in Run |-> "none"]
    /\ answer = NoAnswer
    /\ quits = 0

CallMoves(c) ==
    \/ Cleaned(c) \/ CleaningFails(c) \/ Permitted(c) \/ Blocked(c)
    \/ NotLaunched(c) \/ Collected(c)
    \/ \E r \in Run : Launched(c, r)

ProcessMoves(r) ==
    \/ Connected(r) \/ ConnectionFails(r) \/ Judged(r) \/ StreamFails(r)
    \/ Reported(r) \/ Exits(r) \/ Crashes(r) \/ InputTested(r)

HelperMoves(r) == HelperReports(r) \/ HelperExits(r) \/ HelperCrashes(r)

Next ==
    \/ \E c \in Caller : CallMoves(c) \/ \E k \in Kind : Called(c, k)
    \/ \E r \in Run : ProcessMoves(r) \/ HelperMoves(r) \/ FrameReturns(r)
    \/ Quit

Spec == Init /\ [][Next]_vars

------------------------------------------------------------------------------
(* Properties *)

\* Every variable has its type; only a helper that was started returns frames.
TypeOK ==
    /\ busy \in BOOLEAN
    /\ calls \in [Caller -> Call]
    /\ report \in [Kind -> [by : Run \cup {None}, result : Result \cup {"blocked", "none"}]]
    /\ native \in [Kind -> [by : Run \cup {None}, result : Result \cup {"none"}]]
    /\ process \in [Run -> Process]
    /\ helper \in [Run -> Helper]
    /\ received \subseteq {r \in Run : helper[r] # "none"}
    /\ tested \in [Run -> Result \cup {"none"}]
    /\ answer \in [run : Run \cup {None}, by : Run \cup {None},
                   result : Result \cup {"none", "error", "blocked"}]
    /\ quits \in 0 .. MaxQuits

\* The first page can always try again: the flag is set exactly while some call of
\* run_probe is under way, so no way out of the blocking closure leaves it set and
\* none clears it under a call that still runs.
FlagHasAnOwner == busy <=> \E c \in Caller : ~At(c, "idle")

\* While the application stays open no two tests run at once, a helper that has
\* outlived its dx-probe included.
OneTestAtATime == quits = 0 => Cardinality({r \in Run : Alive(r)}) <= 1

\* "keeps specific report and cannot claim success": while the application stays
\* open a result that is shown was written by this very run, never taken from an
\* older file, and is a success only if this run's test passed; and, even if a
\* process of an application that has quit writes its success over the file, a
\* process that ended badly never counts as passed.
ResultsAreOwn ==
    /\ quits = 0 => answer.by \in {None, answer.run}
    /\ answer.result = "passed" =>
         /\ process[answer.run].ok
         /\ quits = 0 => tested[answer.run] = "passed"

==============================================================================
