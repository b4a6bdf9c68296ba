--------------------------- MODULE LocalProbeProofs ---------------------------
(***************************************************************************)
(* The local tests for any kinds, callers and runs and any number of       *)
(* restarts of the application.                                            *)
(***************************************************************************)
EXTENDS LocalProbe, FiniteSetTheorems, TLAPS

\* At most one call is under way, and the flag says so.
OneCall ==
    /\ FlagHasAnOwner
    /\ \A c, d \in Caller : ~At(c, "idle") /\ ~At(d, "idle") => c = d

\* What the stages of a process and of its helper say of each other
Shaped(r) ==
    /\ In(r, "unused") => helper[r] = "none"
    /\ process[r].stage \in {"connecting", "testing"} => helper[r] = "none"
    /\ process[r].stage \in {"unused", "connecting", "streaming", "testing"} =>
         process[r].outcome = "none"
    /\ HelperAlive(r) => /\ process[r].stage \in {"streaming", "gone"}
                         /\ process[r].outcome = "none"
    /\ ~In(r, "unused") => process[r].kind \in Kind
    /\ In(r, "testing") => process[r].kind = "input"
    /\ process[r].ok => In(r, "gone")

\* The files of kind k are run r's own, and say no more than its test did.
Own(k, r) ==
    /\ report[k].by \in {None, r}
    /\ report[k].result = "passed" => tested[r] = "passed"
    /\ native[k].result = "passed" => tested[r] = "passed"
    /\ process[r].outcome = "passed" => tested[r] = "passed"
    /\ (\/ HelperAlive(r)
        \/ process[r].stage \in {"connecting", "streaming", "testing", "reporting"})
       => report[k] = NoFile
    /\ helper[r] \in {"none", "running"} => native[k].result # "passed"

\* Where a call is tells its kind and run, and what the files hold.
CallOK(c) ==
    LET k == calls[c].kind
        r == calls[c].run IN
    /\ ~At(c, "idle") => k \in Kind
    /\ ~At(c, "idle") /\ ~At(c, "waiting") => r = None
    /\ At(c, "waiting") => r \in Run
    /\ quits = 0 =>
         /\ At(c, "asking") \/ At(c, "launching") => report[k] = NoFile /\ native[k] = NoFile
         /\ At(c, "waiting") => process[r].kind = k /\ ~In(r, "unused") /\ Own(k, r)

\* While the application stays open every process is waited for.
Awaited ==
    quits = 0 => \A r \in Run : Alive(r) => \E c \in Caller : At(c, "waiting") /\ calls[c].run = r

\* What was shown as passed still holds of the run it is about.
Deserved ==
    /\ quits = 0 => answer.by \in {None, answer.run}
    /\ answer.result = "passed" =>
         /\ answer.run \in Run /\ In(answer.run, "gone") /\ process[answer.run].ok
         /\ quits = 0 => tested[answer.run] = "passed" /\ ~HelperAlive(answer.run)

\* The invariant: the parts above, for every run and call
ProbeInv ==
    /\ TypeOK /\ OneCall /\ Awaited /\ Deserved
    /\ \A r \in Run : Shaped(r)
    /\ \A c \in Caller : CallOK(c)

------------------------------------------------------------------------------
(* The processes *)

\* What a step of run r, or of its helper, may change
Framed(r) ==
    /\ UNCHANGED <<app, quits>>
    /\ Alive(r) /\ ~In(r, "unused") /\ ~In(r, "unused")'
    /\ process'[r].kind = process[r].kind
    /\ In(r, "gone") => process'[r] = process[r]
    /\ \A q \in Run \ {r} : /\ process'[q] = process[q] /\ helper'[q] = helper[q]
                            /\ tested'[q] = tested[q]
    /\ \A k \in Kind \ {process[r].kind} : report'[k] = report[k] /\ native'[k] = native[k]

\* The types of what runs and their files are kept in
RunTypes ==
    /\ report \in [Kind -> [by : Run \cup {None}, result : Result \cup {"blocked", "none"}]]
    /\ native \in [Kind -> [by : Run \cup {None}, result : Result \cup {"none"}]]
    /\ process \in [Run -> Process]
    /\ helper \in [Run -> Helper]
    /\ received \subseteq {r \in Run : helper[r] # "none"}
    /\ tested \in [Run -> Result \cup {"none"}]

\* A step keeps the shape of its run, and its files honest.
RunStep(r) ==
    /\ Framed(r) /\ RunTypes' /\ Shaped(r)'
    /\ quits = 0 /\ Own(process[r].kind, r) => Own(process[r].kind, r)'


\* What Moves makes of one process, field by field.
LEMMA MovesTo ==
    ASSUME process \in [Run -> Process], NEW r \in Run,
           NEW stage \in {"unused", "connecting", "streaming", "testing", "reporting",
                          "reported", "gone"},
           NEW outcome \in Result \cup {"none"}, NEW ok \in BOOLEAN,
           Moves(r, stage, outcome, ok)
    PROVE  /\ process' \in [Run -> Process]
           /\ process'[r].stage = stage /\ process'[r].kind = process[r].kind
           /\ process'[r].outcome = outcome /\ process'[r].ok = ok
           /\ \A q \in Run \ {r} : process'[q] = process[q]
<1>1. process[r].kind \in Kind \cup {None}
  BY DEF Process
<1>2. ProcessAt(stage, process[r].kind, outcome, ok) \in Process
  BY <1>1 DEF Process, ProcessAt
<1>3. process' = [process EXCEPT ![r] = ProcessAt(stage, process[r].kind, outcome, ok)]
  BY DEF Moves
<1>4. process'[r] = ProcessAt(stage, process[r].kind, outcome, ok)
  BY <1>3
<1>5. process' \in [Run -> Process] /\ \A q \in Run \ {r} : process'[q] = process[q]
  BY <1>2, <1>3
<1> QED BY <1>4, <1>5 DEF ProcessAt

\* One step per way a process or its helper moves.
LEMMA RunsStep ==
    ASSUME ProbeAssumption, RunTypes, NEW r \in Run, Shaped(r),
           ProcessMoves(r) \/ HelperMoves(r) \/ FrameReturns(r)
    PROVE  RunStep(r)
<1> DEFINE k == process[r].kind
<1>1. /\ process[r] \in Process /\ helper[r] \in Helper /\ k \in Kind \cup {None}
      /\ process[r].outcome \in Result \cup {"none"} /\ process[r].ok \in BOOLEAN
      /\ tested[r] \in Result \cup {"none"}
      /\ None \notin Run
  BY DEF RunTypes, Process, ProbeAssumption
<1>2. CASE Connected(r)
  <2>1. /\ process[r].stage = "connecting" /\ helper[r] = "none" /\ k \in Kind
        /\ UNCHANGED <<app, quits, report, native, received>>
    BY <1>2 DEF Connected, Shaped, In, files
  <2>2. CASE k = "transport"
    <3>1. /\ Moves(r, "reporting", "passed", FALSE) /\ UNCHANGED helper
          /\ tested' = [tested EXCEPT ![r] = "passed"]
      BY <1>2, <2>2 DEF Connected, Outcome
    <3>2. /\ process' \in [Run -> Process]
          /\ process'[r].stage = "reporting" /\ process'[r].kind = process[r].kind
          /\ process'[r].outcome = "passed" /\ process'[r].ok = FALSE
          /\ \A q \in Run \ {r} : process'[q] = process[q]
      BY <3>1, MovesTo DEF RunTypes, Result
    <3>3. Framed(r) /\ RunTypes'
      BY <1>1, <2>1, <3>1, <3>2 DEF Framed, RunTypes, Alive, In, Result
    <3>4. Shaped(r)' /\ (Own(k, r) => Own(k, r)')
      BY <1>1, <2>1, <3>1, <3>2 DEF Shaped, Own, In, HelperAlive, RunTypes
    <3> QED BY <3>2, <3>3, <3>4 DEF RunStep
  <2>3. CASE k # "transport"
    <3>1. /\ Moves(r, "streaming", "none", FALSE) /\ UNCHANGED tested
          /\ helper' = [helper EXCEPT ![r] = "running"]
      BY <1>2, <2>3 DEF Connected
    <3>2. /\ process' \in [Run -> Process]
          /\ process'[r].stage = "streaming" /\ process'[r].kind = process[r].kind
          /\ process'[r].outcome = "none" /\ process'[r].ok = FALSE
          /\ \A q \in Run \ {r} : process'[q] = process[q]
      BY <3>1, MovesTo DEF RunTypes
    <3>3. Framed(r) /\ RunTypes'
      BY <1>1, <2>1, <3>1, <3>2 DEF Framed, RunTypes, Alive, In, Helper
    <3>4. Shaped(r)' /\ (Own(k, r) => Own(k, r)')
      BY <1>1, <2>1, <3>1, <3>2 DEF Shaped, Own, In, HelperAlive, RunTypes
    <3> QED BY <3>2, <3>3, <3>4 DEF RunStep
  <2> QED BY <2>2, <2>3
<1>3. CASE ConnectionFails(r)
  <2>1. /\ process[r].stage = "connecting" /\ helper[r] = "none" /\ k \in Kind
        /\ UNCHANGED <<app, quits, report, native, received, helper, tested>>
        /\ Moves(r, "reporting", "failed", FALSE)
    BY <1>3 DEF ConnectionFails, Shaped, In, files, Outcome
  <2>2. /\ process' \in [Run -> Process]
        /\ process'[r].stage = "reporting" /\ process'[r].kind = process[r].kind
        /\ process'[r].outcome = "failed" /\ process'[r].ok = FALSE
        /\ \A q \in Run \ {r} : process'[q] = process[q]
    BY <2>1, MovesTo DEF RunTypes, Result
  <2>3. Framed(r) /\ RunTypes'
    BY <1>1, <2>1, <2>2 DEF Framed, RunTypes, Alive, In
  <2>4. Shaped(r)' /\ (Own(k, r) => Own(k, r)')
    BY <1>1, <2>1, <2>2 DEF Shaped, Own, In, HelperAlive
  <2> QED BY <2>2, <2>3, <2>4 DEF RunStep
<1>4. CASE Judged(r)
  <2>1. PICK result \in Result :
          /\ Moves(r, "reporting", result, FALSE)
          /\ result = "passed" => helper[r] = "ended" /\ native[k].result = "passed"
    BY <1>4 DEF Judged, Outcome, Result
  <2>2. /\ process[r].stage = "streaming" /\ ~HelperAlive(r) /\ k \in Kind
        /\ UNCHANGED <<app, quits, report, native, received, helper, tested>>
    BY <1>4 DEF Judged, Shaped, In, files
  <2>3. /\ process' \in [Run -> Process]
        /\ process'[r].stage = "reporting" /\ process'[r].kind = process[r].kind
        /\ process'[r].outcome = result /\ process'[r].ok = FALSE
        /\ \A q \in Run \ {r} : process'[q] = process[q]
    BY <2>1, MovesTo DEF RunTypes
  <2>4. Framed(r) /\ RunTypes'
    BY <1>1, <2>2, <2>3 DEF Framed, RunTypes, Alive, In
  <2>5. Shaped(r)' /\ (Own(k, r) => Own(k, r)')
    BY <1>1, <2>1, <2>2, <2>3 DEF Shaped, Own, In, HelperAlive
  <2> QED BY <2>3, <2>4, <2>5 DEF RunStep
<1>5. CASE StreamFails(r)
  <2>1. /\ process[r].stage = "streaming" /\ HelperAlive(r) /\ k \in Kind
        /\ UNCHANGED <<app, quits, report, native, received, tested>>
        /\ helper' = [helper EXCEPT ![r] = "crashed"]
        /\ Moves(r, "reporting", "failed", FALSE)
    BY <1>5 DEF StreamFails, Shaped, In, files, Outcome
  <2>2. /\ process' \in [Run -> Process]
        /\ process'[r].stage = "reporting" /\ process'[r].kind = process[r].kind
        /\ process'[r].outcome = "failed" /\ process'[r].ok = FALSE
        /\ \A q \in Run \ {r} : process'[q] = process[q]
    BY <2>1, MovesTo DEF RunTypes, Result
  <2>3. Framed(r) /\ RunTypes'
    BY <1>1, <2>1, <2>2 DEF Framed, RunTypes, Alive, In, Helper
  <2>4. Shaped(r)' /\ (Own(k, r) => Own(k, r)')
    BY <1>1, <2>1, <2>2 DEF Shaped, Own, In, HelperAlive, RunTypes
  <2> QED BY <2>2, <2>3, <2>4 DEF RunStep
<1>6. CASE Reported(r)
  <2>1. /\ process[r].stage = "reporting" /\ ~HelperAlive(r) /\ k \in Kind
        /\ UNCHANGED <<app, quits, native, received, helper, tested>>
        /\ report' = [report EXCEPT ![k] = File(r, process[r].outcome)]
        /\ Moves(r, "reported", process[r].outcome, FALSE)
    BY <1>6 DEF Reported, Shaped, In
  <2>2. /\ process' \in [Run -> Process]
        /\ process'[r].stage = "reported" /\ process'[r].kind = process[r].kind
        /\ process'[r].outcome = process[r].outcome /\ process'[r].ok = FALSE
        /\ \A q \in Run \ {r} : process'[q] = process[q]
    BY <1>1, <2>1, MovesTo DEF RunTypes
  <2>3. File(r, process[r].outcome) \in [by : Run \cup {None}, result : Result \cup {"blocked", "none"}]
    BY <1>1 DEF File
  <2>4. Framed(r) /\ RunTypes'
    BY <1>1, <2>1, <2>2, <2>3 DEF Framed, RunTypes, Alive, In
  <2>5. Shaped(r)'
    BY <1>1, <2>1, <2>2 DEF Shaped, In, HelperAlive
  <2>6. report'[k].by = r /\ report'[k].result = process[r].outcome
    BY <2>1 DEF RunTypes, File
  <2>7. Own(k, r) => Own(k, r)'
    BY <1>1, <2>1, <2>2, <2>6 DEF Own, HelperAlive
  <2> QED BY <2>2, <2>4, <2>5, <2>7 DEF RunStep
<1>7. CASE Exits(r)
  <2>1. PICK ok \in BOOLEAN : Moves(r, "gone", process[r].outcome, ok)
    BY <1>7 DEF Exits
  <2>2. /\ process[r].stage = "reported" /\ ~HelperAlive(r) /\ k \in Kind
        /\ UNCHANGED <<app, quits, report, native, received, helper, tested>>
    BY <1>7 DEF Exits, Shaped, In, files
  <2>3. /\ process' \in [Run -> Process]
        /\ process'[r].stage = "gone" /\ process'[r].kind = process[r].kind
        /\ process'[r].outcome = process[r].outcome
        /\ \A q \in Run \ {r} : process'[q] = process[q]
    <3>1. /\ process \in [Run -> Process] /\ process[r].outcome \in Result \cup {"none"}
          /\ "gone" \in {"unused", "connecting", "streaming", "testing", "reporting",
                         "reported", "gone"}
      BY <1>1 DEF RunTypes
    <3>2. \/ Moves(r, "gone", process[r].outcome, TRUE)
          \/ Moves(r, "gone", process[r].outcome, FALSE)
      BY <2>1
    <3> QED BY <3>1, <3>2, MovesTo
  <2>4. Framed(r) /\ RunTypes'
    BY <1>1, <2>2, <2>3 DEF Framed, RunTypes, Alive, In
  <2>5. Shaped(r)' /\ (Own(k, r) => Own(k, r)')
    BY <1>1, <2>2, <2>3 DEF Shaped, Own, In, HelperAlive
  <2> QED BY <2>3, <2>4, <2>5 DEF RunStep
<1>8. CASE Crashes(r)
  <2>1. /\ process[r].stage \notin {"unused", "gone"} /\ k \in Kind
        /\ UNCHANGED <<app, quits, native, received, helper, tested>>
        /\ report' = report \/ report' = [report EXCEPT ![k] = NoFile]
    BY <1>8 DEF Crashes, Shaped, In
  <2>2. /\ process' \in [Run -> Process]
        /\ process'[r].stage = "gone" /\ process'[r].kind = process[r].kind
        /\ process'[r].outcome = process[r].outcome /\ process'[r].ok = FALSE
        /\ \A q \in Run \ {r} : process'[q] = process[q]
    <3>1. Moves(r, "gone", process[r].outcome, FALSE)
      BY <1>8 DEF Crashes
    <3> QED BY <1>1, <3>1, MovesTo DEF RunTypes
  <2>3. NoFile \in [by : Run \cup {None}, result : Result \cup {"blocked", "none"}]
    BY DEF NoFile, File
  <2>4. report' \in [Kind -> [by : Run \cup {None}, result : Result \cup {"blocked", "none"}]]
    BY <2>1, <2>3 DEF RunTypes
  <2>5. report'[k] \in {report[k], NoFile} /\ \A j \in Kind \ {k} : report'[j] = report[j]
    BY <2>1 DEF RunTypes
  <2>6. Framed(r) /\ RunTypes'
    BY <1>1, <2>1, <2>2, <2>4, <2>5 DEF Framed, RunTypes, Alive, In
  <2>7. Shaped(r)'
    BY <1>1, <2>1, <2>2 DEF Shaped, In, HelperAlive
  <2>8. Own(k, r) => Own(k, r)'
    BY <1>1, <2>1, <2>2, <2>5 DEF Own, HelperAlive, NoFile, File
  <2> QED BY <2>2, <2>6, <2>7, <2>8 DEF RunStep
<1>9. CASE InputTested(r)
  <2>1. PICK result \in Result :
          /\ Moves(r, "reported", result, FALSE)
          /\ tested' = [tested EXCEPT ![r] = result]
          /\ report' = report \/ report' = [report EXCEPT ![k] = File(r, result)]
    BY <1>9 DEF InputTested, Shaped, In
  <2>2. /\ process[r].stage = "testing" /\ helper[r] = "none" /\ k \in Kind
        /\ UNCHANGED <<app, quits, native, received, helper>>
    BY <1>9 DEF InputTested, Shaped, In
  <2>3. /\ process' \in [Run -> Process]
        /\ process'[r].stage = "reported" /\ process'[r].kind = process[r].kind
        /\ process'[r].outcome = result /\ process'[r].ok = FALSE
        /\ \A q \in Run \ {r} : process'[q] = process[q]
    BY <2>1, MovesTo DEF RunTypes
  <2>4. File(r, result) \in [by : Run \cup {None}, result : Result \cup {"blocked", "none"}]
    BY DEF File
  <2>5. report' \in [Kind -> [by : Run \cup {None}, result : Result \cup {"blocked", "none"}]]
    BY <2>1, <2>4 DEF RunTypes
  <2>6. /\ report'[k] \in {report[k], File(r, result)}
        /\ \A j \in Kind \ {k} : report'[j] = report[j]
    BY <2>1, <2>2 DEF RunTypes
  <2>7. Framed(r) /\ RunTypes'
    BY <1>1, <2>1, <2>2, <2>3, <2>5, <2>6 DEF Framed, RunTypes, Alive, In
  <2>8. Shaped(r)'
    BY <1>1, <2>2, <2>3 DEF Shaped, In, HelperAlive
  <2>9. tested'[r] = result
    BY <2>1 DEF RunTypes
  <2>10. Own(k, r) => Own(k, r)'
    BY <1>1, <2>2, <2>3, <2>6, <2>9 DEF Own, HelperAlive, NoFile, File
  <2> QED BY <2>3, <2>7, <2>8, <2>10 DEF RunStep
\* From here on the process itself does not move.
<1>10. CASE HelperReports(r)
  <2>1. PICK result \in Result :
          /\ tested' = [tested EXCEPT ![r] = result]
          /\ native' = native \/ native' = [native EXCEPT ![k] = File(r, result)]
    BY <1>10 DEF HelperReports, Result
  <2>2. /\ helper[r] = "running" /\ HelperAlive(r) /\ k \in Kind
        /\ process[r].stage \in {"streaming", "gone"} /\ process[r].outcome = "none"
        /\ UNCHANGED <<app, quits, report, received, process>>
        /\ helper' = [helper EXCEPT ![r] = "reported"]
    BY <1>10 DEF HelperReports, Shaped, In, HelperAlive
  <2>3. File(r, result) \in [by : Run \cup {None}, result : Result \cup {"none"}]
    BY DEF File
  <2>4. native' \in [Kind -> [by : Run \cup {None}, result : Result \cup {"none"}]]
    BY <2>1, <2>3 DEF RunTypes
  <2>5. /\ native'[k] \in {native[k], File(r, result)}
        /\ \A j \in Kind \ {k} : native'[j] = native[j]
    BY <2>1, <2>2 DEF RunTypes
  <2>6. helper'[r] = "reported" /\ tested'[r] = result
    BY <2>1, <2>2 DEF RunTypes
  <2>7. Framed(r) /\ RunTypes'
    BY <1>1, <2>1, <2>2, <2>4, <2>5 DEF Framed, RunTypes, Alive, In, Helper
  <2>8. Shaped(r)'
    BY <1>1, <2>2, <2>6 DEF Shaped, In, HelperAlive
  <2>9. Own(k, r) => Own(k, r)'
    BY <1>1, <2>2, <2>5, <2>6 DEF Own, HelperAlive, NoFile, File
  <2> QED BY <2>2, <2>7, <2>8, <2>9 DEF RunStep
<1>11. CASE HelperExits(r) \/ HelperCrashes(r)
  <2>1. PICK to \in {"ended", "crashed"} :
          /\ HelperAlive(r) /\ k \in Kind
          /\ process[r].stage \in {"streaming", "gone"} /\ process[r].outcome = "none"
          /\ UNCHANGED <<app, quits, report, native, received, process, tested>>
          /\ helper' = [helper EXCEPT ![r] = to]
    BY <1>11 DEF HelperExits, HelperCrashes, Shaped, In, HelperAlive, files
  <2>2. helper'[r] = to
    BY <2>1 DEF RunTypes
  <2>3. Framed(r) /\ RunTypes'
    BY <1>1, <2>1 DEF Framed, RunTypes, Alive, In, Helper
  <2>4. Shaped(r)' /\ (Own(k, r) => Own(k, r)')
    BY <1>1, <2>1, <2>2 DEF Shaped, Own, In, HelperAlive
  <2> QED BY <2>1, <2>3, <2>4 DEF RunStep
<1>12. CASE FrameReturns(r)
  <2>1. /\ process[r].stage = "streaming" /\ helper[r] = "running" /\ k \in Kind
        /\ UNCHANGED <<app, quits, report, native, process, helper, tested>>
        /\ received' = received \cup {r}
    BY <1>12 DEF FrameReturns, Shaped, In, files
  <2>2. Framed(r) /\ RunTypes'
    BY <1>1, <2>1 DEF Framed, RunTypes, Alive, In
  <2>3. Shaped(r)' /\ (Own(k, r) => Own(k, r)')
    BY <2>1 DEF Shaped, Own, In, HelperAlive
  <2> QED BY <2>1, <2>2, <2>3 DEF RunStep
<1> QED BY <1>2, <1>3, <1>4, <1>5, <1>6, <1>7, <1>8, <1>9, <1>10, <1>11, <1>12
        DEF ProcessMoves, HelperMoves

\* Every process and its files belong to the one call that is under way.
LEMMA RunStepKeepsInv ==
    ASSUME ProbeAssumption, ProbeInv, NEW r \in Run, RunStep(r)
    PROVE  ProbeInv'
<1> DEFINE k == process[r].kind
<1>1. /\ TypeOK /\ OneCall /\ Awaited /\ Deserved /\ Framed(r) /\ None \notin Run
      /\ \A c \in Caller : CallOK(c)
      /\ \A q \in Run : Shaped(q)
  BY DEF ProbeInv, RunStep, ProbeAssumption
<1>2. /\ busy' = busy /\ calls' = calls /\ answer' = answer /\ quits' = quits
      /\ Alive(r) /\ ~In(r, "unused") /\ ~In(r, "unused")' /\ process'[r].kind = k
      /\ In(r, "gone") => process'[r] = process[r]
      /\ \A q \in Run \ {r} : /\ process'[q] = process[q] /\ helper'[q] = helper[q]
                              /\ tested'[q] = tested[q]
      /\ \A j \in Kind \ {k} : report'[j] = report[j] /\ native'[j] = native[j]
  BY <1>1 DEF Framed, app
<1>3. TypeOK'
  BY <1>1, <1>2 DEF RunStep, RunTypes, TypeOK
<1>4. OneCall'
  BY <1>1, <1>2 DEF OneCall, FlagHasAnOwner, At
<1>5. \A q \in Run : Alive(q)' => Alive(q)
  BY <1>2 DEF Alive, HelperAlive
<1>6. Awaited'
  BY <1>1, <1>2, <1>5 DEF Awaited, At
<1>7. \A q \in Run : Shaped(q)'
  <2> SUFFICES ASSUME NEW q \in Run PROVE Shaped(q)'
    OBVIOUS
  <2>1. CASE q = r
    BY <2>1 DEF RunStep
  <2>2. CASE q # r
    BY <1>1, <1>2, <2>2 DEF Shaped, In, HelperAlive
  <2> QED BY <2>1, <2>2
<1>8. Deserved'
  <2>1. answer.result = "passed" /\ answer.run = r =>
          /\ In(r, "gone") /\ process'[r] = process[r] /\ HelperAlive(r)
    BY <1>1, <1>2 DEF Deserved, Alive, In
  <2>2. answer.result = "passed" /\ answer.run = r => quits # 0
    BY <1>1, <2>1 DEF Deserved
  <2> QED BY <1>1, <1>2, <2>1, <2>2 DEF Deserved, In, HelperAlive
<1>9. ASSUME NEW c \in Caller PROVE CallOK(c)'
  <2>1. CASE quits # 0
    BY <1>1, <1>2, <2>1 DEF CallOK, At
  <2>2. CASE quits = 0 /\ ~At(c, "idle")
    <3>1. PICK d \in Caller : At(d, "waiting") /\ calls[d].run = r
      BY <1>1, <1>2, <2>2 DEF Awaited
    <3>2. d = c
      BY <1>1, <2>2, <3>1 DEF OneCall, At
    <3>3. At(c, "waiting") /\ calls[c].run = r /\ calls[c].kind = k
      BY <1>1, <2>2, <3>1, <3>2 DEF CallOK
    <3>4. Own(k, r)'
      BY <1>1, <2>2, <3>3 DEF CallOK, RunStep
    <3> QED BY <1>1, <1>2, <2>2, <3>3, <3>4 DEF CallOK, At, Own, HelperAlive
  <2>3. CASE At(c, "idle")
    BY <1>1, <1>2, <2>3 DEF CallOK, At
  <2> QED BY <2>1, <2>2, <2>3
<1> QED BY <1>3, <1>4, <1>6, <1>7, <1>8, <1>9 DEF ProbeInv

------------------------------------------------------------------------------
(* The calls *)

\* What one caller's step leaves to be shown: the others are idle.
LEMMA OneCallMoves ==
    ASSUME OneCall, NEW c \in Caller, calls \in [Caller -> Call], busy \in BOOLEAN,
           ~At(c, "idle") \/ ~busy, NEW x \in Call,
           calls' = [calls EXCEPT ![c] = x], busy' \in BOOLEAN, busy' <=> x.stage # "idle"
    PROVE  /\ calls' \in [Caller -> Call] /\ calls'[c] = x
           /\ OneCall' /\ \A d \in Caller \ {c} : CallOK(d)'
           /\ \A d \in Caller \ {c} : At(d, "idle")
<1>1. \A d \in Caller \ {c} : At(d, "idle")
  BY DEF OneCall, FlagHasAnOwner
<1>2. /\ calls' \in [Caller -> Call] /\ calls'[c] = x
      /\ \A d \in Caller \ {c} : calls'[d] = calls[d]
  OBVIOUS
<1>3. \A d \in Caller \ {c} : At(d, "idle")'
  BY <1>1, <1>2 DEF At
<1>4. (busy <=> \E d \in Caller : ~At(d, "idle"))'
  BY <1>2, <1>3 DEF At
<1>5. OneCall'
  BY <1>3, <1>4 DEF OneCall, FlagHasAnOwner
<1>6. \A d \in Caller \ {c} : CallOK(d)'
  BY <1>3 DEF CallOK, At
<1> QED BY <1>1, <1>2, <1>5, <1>6

\* Until its process is started a call has nobody alive.
LEMMA NobodyIsAlive ==
    ASSUME ProbeInv, NEW c \in Caller, ~At(c, "idle") \/ ~busy, quits = 0,
           ~At(c, "waiting") \/ ~Alive(calls[c].run)
    PROVE  \A q \in Run : ~Alive(q)
<1>1. \A d \in Caller \ {c} : At(d, "idle")
  BY DEF ProbeInv, OneCall, FlagHasAnOwner
<1>2. \A d \in Caller \ {c} : ~At(d, "waiting")
  BY <1>1 DEF At
<1> QED BY <1>2 DEF ProbeInv, Awaited

\* Every way out of a call, once its answer deserves to be shown.
LEMMA CallReturns ==
    ASSUME ProbeAssumption, ProbeInv, NEW c \in Caller, ~At(c, "idle"),
           NEW a \in [run : Run \cup {None}, by : Run \cup {None},
                      result : Result \cup {"none", "error", "blocked"}],
           Returns(c, a), UNCHANGED <<native, runs, quits>>,
           report' \in [Kind -> [by : Run \cup {None}, result : Result \cup {"blocked", "none"}]],
           ~At(c, "waiting") \/ ~Alive(calls[c].run),
           quits = 0 => a.by \in {None, a.run},
           a.result = "passed" =>
             /\ a.run \in Run /\ In(a.run, "gone") /\ process[a.run].ok
             /\ quits = 0 => tested[a.run] = "passed" /\ ~HelperAlive(a.run)
    PROVE  ProbeInv'
<1>1. /\ calls' = [calls EXCEPT ![c] = NoCall] /\ busy' = FALSE /\ answer' = a
      /\ process' = process /\ helper' = helper /\ received' = received /\ tested' = tested
      /\ native' = native /\ quits' = quits
  BY DEF Returns, runs
<1>2. NoCall \in Call /\ NoCall.stage = "idle"
  BY DEF NoCall, CallAt, Call
<1>3. OneCall /\ calls \in [Caller -> Call] /\ busy \in BOOLEAN
  BY DEF ProbeInv, TypeOK
<1>4. /\ calls' \in [Caller -> Call] /\ calls'[c] = NoCall
      /\ OneCall' /\ \A d \in Caller \ {c} : CallOK(d)'
  BY <1>1, <1>2, <1>3, OneCallMoves
<1>5. CallOK(c)'
  BY <1>2, <1>4 DEF CallOK, At
<1>6. TypeOK'
  BY <1>1, <1>4 DEF ProbeInv, TypeOK
<1>7. Awaited'
  <2>1. quits = 0 => \A q \in Run : ~Alive(q)
    BY NobodyIsAlive
  <2> QED BY <1>1, <2>1 DEF Awaited, Alive, In, HelperAlive
<1>8. \A q \in Run : Shaped(q)'
  BY <1>1 DEF ProbeInv, Shaped, In, HelperAlive
<1>9. Deserved'
  BY <1>1 DEF Deserved, In, HelperAlive
<1> QED BY <1>4, <1>5, <1>6, <1>7, <1>8, <1>9 DEF ProbeInv

\* Every way on, up to the start of the process.
LEMMA CallGoesOn ==
    ASSUME ProbeAssumption, ProbeInv, NEW c \in Caller, ~At(c, "idle") \/ ~busy,
           NEW stage \in {"cleaning", "asking", "launching"}, NEW k \in Kind,
           calls' = [calls EXCEPT ![c] = CallAt(stage, k, None)],
           busy' = TRUE, UNCHANGED <<answer, runs, quits>>,
           ~At(c, "waiting"),
           report' \in [Kind -> [by : Run \cup {None}, result : Result \cup {"blocked", "none"}]],
           native' \in [Kind -> [by : Run \cup {None}, result : Result \cup {"none"}]],
           quits = 0 /\ stage # "cleaning" => report'[k] = NoFile /\ native'[k] = NoFile
    PROVE  ProbeInv'
<1> DEFINE x == CallAt(stage, k, None)
<1>1. /\ answer' = answer /\ process' = process /\ helper' = helper
      /\ received' = received /\ tested' = tested /\ quits' = quits
  BY DEF runs
<1>2. x \in Call /\ x.stage # "idle" /\ x.stage = stage /\ x.kind = k /\ x.run = None
  BY DEF CallAt, Call
<1> HIDE DEF x
<1>3. OneCall /\ calls \in [Caller -> Call] /\ busy \in BOOLEAN
  BY DEF ProbeInv, TypeOK
<1>4. /\ calls' \in [Caller -> Call] /\ calls'[c] = x
      /\ OneCall' /\ \A d \in Caller \ {c} : CallOK(d)'
  BY <1>2, <1>3, OneCallMoves DEF x
<1>5. CallOK(c)'
  BY <1>1, <1>2, <1>4 DEF CallOK, At
<1>6. TypeOK'
  BY <1>1, <1>4 DEF ProbeInv, TypeOK
<1>7. Awaited'
  <2>1. quits = 0 => \A q \in Run : ~Alive(q)
    BY NobodyIsAlive
  <2> QED BY <1>1, <2>1 DEF Awaited, Alive, In, HelperAlive
<1>8. \A q \in Run : Shaped(q)'
  BY <1>1 DEF ProbeInv, Shaped, In, HelperAlive
<1>9. Deserved'
  BY <1>1 DEF ProbeInv, Deserved, In, HelperAlive
<1> QED BY <1>4, <1>5, <1>6, <1>7, <1>8, <1>9 DEF ProbeInv

\* One step per action of a call.
LEMMA CallsKeepInv ==
    ASSUME ProbeAssumption, ProbeInv, NEW c \in Caller,
           CallMoves(c) \/ (\E k \in Kind : Called(c, k))
    PROVE  ProbeInv'
<1> DEFINE kind == calls[c].kind
           run == calls[c].run
           Reports == [Kind -> [by : Run \cup {None}, result : Result \cup {"blocked", "none"}]]
           Natives == [Kind -> [by : Run \cup {None}, result : Result \cup {"none"}]]
           Answers == [run : Run \cup {None}, by : Run \cup {None},
                       result : Result \cup {"none", "error", "blocked"}]
<1>1. /\ OneCall /\ CallOK(c) /\ None \notin Run
      /\ calls \in [Caller -> Call] /\ calls[c] \in Call /\ busy \in BOOLEAN
      /\ kind \in Kind \cup {None} /\ run \in Run \cup {None}
      /\ report \in Reports /\ native \in Natives
      /\ ~At(c, "idle") => kind \in Kind /\ busy = TRUE
      /\ ~At(c, "idle") /\ ~At(c, "waiting") => run = None
  BY DEF ProbeInv, ProbeAssumption, TypeOK, Call, CallOK, OneCall, FlagHasAnOwner
<1>2. /\ NoFile \in [by : Run \cup {None}, result : Result \cup {"none"}]
      /\ NoFile \in [by : Run \cup {None}, result : Result \cup {"blocked", "none"}]
      /\ File(None, "blocked") \in [by : Run \cup {None}, result : Result \cup {"blocked", "none"}]
  BY DEF NoFile, File
<1>3. /\ Error(c) \in Answers /\ Error(c).by = None /\ Error(c).result # "passed"
      /\ Answer(None, None, "blocked") \in Answers
      /\ Answer(None, None, "blocked").by = None
      /\ Answer(None, None, "blocked").result # "passed"
  BY <1>1 DEF Error, Answer
<1>4. ASSUME NEW k \in Kind, Called(c, k) PROVE ProbeInv'
  <2>1. /\ ~busy /\ At(c, "idle") /\ busy' = TRUE /\ UNCHANGED <<answer, runs, quits>>
        /\ calls' = [calls EXCEPT ![c] = CallAt("cleaning", k, None)]
        /\ report' = report /\ native' = native
    BY <1>4 DEF Called, files
  <2>2. ~At(c, "waiting")
    BY <2>1 DEF At
  <2> QED BY <1>1, <2>1, <2>2, CallGoesOn
<1>5. CASE Cleaned(c)
  <2>1. PICK stage \in {"asking", "launching"} :
          calls' = [calls EXCEPT ![c] = CallAt(stage, kind, run)]
    BY <1>5 DEF Cleaned, To
  <2>2. /\ At(c, "cleaning") /\ busy' = busy /\ UNCHANGED <<answer, runs, quits>>
        /\ report' = [report EXCEPT ![kind] = NoFile]
        /\ native' = [native EXCEPT ![kind] = NoFile]
    BY <1>5 DEF Cleaned
  <2>3. ~At(c, "idle") /\ ~At(c, "waiting") /\ kind \in Kind /\ run = None /\ busy' = TRUE
    BY <1>1, <2>2 DEF At
  <2>4. /\ report' \in Reports /\ native' \in Natives
        /\ report'[kind] = NoFile /\ native'[kind] = NoFile
    BY <1>1, <1>2, <2>2, <2>3
  <2> QED BY <2>1, <2>2, <2>3, <2>4, CallGoesOn
<1>6. CASE CleaningFails(c)
  <2>1. /\ At(c, "cleaning") /\ Returns(c, Error(c)) /\ UNCHANGED <<native, runs, quits>>
        /\ report' = report \/ report' = [report EXCEPT ![kind] = NoFile]
    BY <1>6 DEF CleaningFails
  <2>2. ~At(c, "idle") /\ ~At(c, "waiting") /\ report' \in Reports
    BY <1>1, <1>2, <2>1 DEF At
  <2> QED BY <1>3, <2>1, <2>2, CallReturns
<1>7. CASE Permitted(c)
  <2>1. /\ At(c, "asking") /\ calls' = [calls EXCEPT ![c] = CallAt("launching", kind, run)]
        /\ busy' = busy /\ UNCHANGED <<answer, runs, quits>>
        /\ report' = report /\ native' = native
    BY <1>7 DEF Permitted, To, files
  <2>2. ~At(c, "idle") /\ ~At(c, "waiting") /\ kind \in Kind /\ run = None /\ busy' = TRUE
    BY <1>1, <2>1 DEF At
  <2>3. quits = 0 => report'[kind] = NoFile /\ native'[kind] = NoFile
    BY <1>1, <2>1 DEF CallOK
  <2> QED BY <1>1, <2>1, <2>2, <2>3, CallGoesOn
<1>8. CASE Blocked(c)
  <2>1. PICK a \in {Error(c), Answer(None, None, "blocked")} :
          /\ At(c, "asking") /\ Returns(c, a) /\ UNCHANGED <<native, runs, quits>>
          /\ report' = report \/ report' = [report EXCEPT ![kind] = File(None, "blocked")]
    BY <1>8 DEF Blocked
  <2>2. ~At(c, "idle") /\ ~At(c, "waiting") /\ report' \in Reports
    BY <1>1, <1>2, <2>1 DEF At
  <2>3. a \in Answers /\ a.by = None /\ a.result # "passed"
    BY <1>3
  <2> QED BY <2>1, <2>2, <2>3, CallReturns
<1>9. CASE NotLaunched(c)
  <2>1. /\ Returns(c, Error(c)) /\ UNCHANGED <<native, runs, quits>> /\ report' = report
        /\ ~At(c, "idle") /\ ~At(c, "waiting")
    BY <1>9 DEF NotLaunched, At, files
  <2> QED BY <1>1, <1>3, <2>1, CallReturns
<1>10. CASE Collected(c)
  <2> DEFINE f == report[kind]
             a == IF f = NoFile THEN Error(c)
                  ELSE Answer(run, f.by, ProbeResult(f, process[run].ok))
  <2>1. /\ At(c, "waiting") /\ ~Alive(run) /\ Returns(c, a)
        /\ UNCHANGED <<native, runs, quits>> /\ report' = report
    BY <1>10 DEF Collected, files
  <2>2. ~At(c, "idle") /\ kind \in Kind /\ run \in Run
    BY <1>1, <2>1 DEF At, CallOK
  <2>3. f \in [by : Run \cup {None}, result : Result \cup {"blocked", "none"}]
    BY <1>1, <2>2
  <2>4. CASE f = NoFile
    BY <1>1, <1>3, <2>1, <2>2, <2>4, CallReturns
  <2>5. CASE f # NoFile
    <3>1. a = Answer(run, f.by, ProbeResult(f, process[run].ok))
      BY <2>5
    <3>2. a \in Answers /\ a.run = run /\ a.by = f.by
      BY <2>2, <2>3, <3>1 DEF Answer, ProbeResult, Result
    <3>3. a.result = "passed" => f.result = "passed" /\ process[run].ok
      BY <3>1 DEF Answer, ProbeResult
    <3>4. process[run].ok => In(run, "gone")
      BY <2>2 DEF ProbeInv, Shaped
    <3>5. quits = 0 => Own(kind, run)
      BY <1>1, <2>1 DEF CallOK
    <3>6. quits = 0 => f.by \in {None, run} /\ (f.result = "passed" => tested[run] = "passed")
      BY <3>5 DEF Own
    <3>7. ~HelperAlive(run)
      BY <2>1 DEF Alive
    <3> HIDE DEF a, f
    <3> QED BY <1>1, <2>1, <2>2, <3>2, <3>3, <3>4, <3>6, <3>7, CallReturns
  <2> QED BY <2>4, <2>5
<1>11. ASSUME NEW r \in Run, Launched(c, r) PROVE ProbeInv'
  <2> DEFINE x == CallAt("waiting", kind, r)
             p == ProcessAt(IF kind = "input" THEN "testing" ELSE "connecting", kind, "none", FALSE)
  <2>1. /\ At(c, "launching") /\ In(r, "unused") /\ calls' = [calls EXCEPT ![c] = x]
        /\ process' = [process EXCEPT ![r] = p]
        /\ busy' = busy /\ answer' = answer /\ report' = report /\ native' = native
        /\ helper' = helper /\ received' = received /\ tested' = tested /\ quits' = quits
    BY <1>11 DEF Launched, files
  <2>2. ~At(c, "idle") /\ ~At(c, "waiting") /\ kind \in Kind /\ busy = TRUE
    BY <1>1, <2>1 DEF At
  <2>3. x \in Call /\ x.stage = "waiting" /\ x.kind = kind /\ x.run = r
    BY <2>2 DEF CallAt, Call
  <2>4. /\ p \in Process /\ p.stage \in {"testing", "connecting"} /\ p.kind = kind
        /\ p.outcome = "none" /\ p.ok = FALSE
        /\ p.stage = "testing" => kind = "input"
    BY <2>2 DEF ProcessAt, Process
  <2> HIDE DEF x, p
  <2>5. /\ calls' \in [Caller -> Call] /\ calls'[c] = x
        /\ OneCall' /\ \A d \in Caller \ {c} : CallOK(d)'
    BY <1>1, <2>1, <2>2, <2>3, OneCallMoves
  <2>6. /\ process' \in [Run -> Process] /\ process'[r] = p
        /\ \A q \in Run \ {r} : process'[q] = process[q]
    BY <2>1, <2>4 DEF ProbeInv, TypeOK
  <2>7. TypeOK'
    BY <2>1, <2>5, <2>6 DEF ProbeInv, TypeOK
  <2>8. helper[r] = "none" /\ \A q \in Run : Shaped(q)
    BY <2>1 DEF ProbeInv, Shaped
  <2>9. \A q \in Run : Shaped(q)'
    <3>1. Shaped(r)'
      BY <2>1, <2>2, <2>4, <2>6, <2>8 DEF Shaped, In, HelperAlive
    <3>2. \A q \in Run \ {r} : Shaped(q)'
      BY <2>1, <2>6, <2>8 DEF Shaped, In, HelperAlive
    <3> QED BY <3>1, <3>2
  <2>10. CallOK(c)'
    <3>1. quits = 0 => report[kind] = NoFile /\ native[kind] = NoFile
      BY <1>1, <2>1 DEF CallOK
    <3>2. NoFile.by = None /\ NoFile.result # "passed"
      BY DEF NoFile, File
    <3>3. quits = 0 => Own(kind, r)'
      <4> SUFFICES ASSUME quits = 0 PROVE Own(kind, r)'
        OBVIOUS
      <4>1. /\ report'[kind] = NoFile /\ native'[kind] = NoFile
            /\ process'[r].outcome = "none"
        BY <2>1, <2>4, <2>6, <3>1
      <4>2. calls'[c].kind = calls[c].kind
        BY <2>3, <2>5
      <4> QED BY <3>2, <4>1, <4>2 DEF Own
    <3> QED BY <2>1, <2>2, <2>3, <2>4, <2>5, <2>6, <3>3 DEF CallOK, At, In
  <2>11. Awaited'
    <3>1. quits = 0 => \A q \in Run : ~Alive(q)
      BY <2>2, NobodyIsAlive
    <3>2. quits = 0 => \A q \in Run \ {r} : ~Alive(q)'
      BY <2>1, <2>6, <3>1 DEF Alive, In, HelperAlive
    <3>3. At(c, "waiting")' /\ calls'[c].run = r
      BY <2>3, <2>5 DEF At
    <3> QED BY <2>1, <3>2, <3>3 DEF Awaited
  <2>12. Deserved'
    <3>1. answer.result = "passed" => answer.run \in Run \ {r}
      BY <2>1 DEF ProbeInv, Deserved, In
    <3> QED BY <2>1, <2>6, <3>1 DEF ProbeInv, Deserved, In, HelperAlive
  <2> QED BY <2>5, <2>7, <2>9, <2>10, <2>11, <2>12 DEF ProbeInv
<1> QED BY <1>4, <1>5, <1>6, <1>7, <1>8, <1>9, <1>10, <1>11 DEF CallMoves

\* A restart forgets the calls and lets the processes go on.
LEMMA QuitKeepsInv ==
    ASSUME ProbeAssumption, ProbeInv, Quit
    PROVE  ProbeInv'
<1>1. /\ quits' = quits + 1 /\ quits \in Nat /\ quits' \in 0 .. MaxQuits /\ quits' # 0
      /\ busy' = FALSE /\ answer' = NoAnswer
      /\ calls' = [c \in Caller |-> NoCall]
      /\ report' = report /\ native' = native /\ process' = process /\ helper' = helper
      /\ received' = received /\ tested' = tested
  BY DEF Quit, files, runs, ProbeInv, TypeOK, ProbeAssumption
<1>2. /\ NoCall \in Call /\ NoCall.stage = "idle"
      /\ NoAnswer \in [run : Run \cup {None}, by : Run \cup {None},
                       result : Result \cup {"none", "error", "blocked"}]
      /\ NoAnswer.result # "passed"
  BY DEF NoCall, CallAt, Call, NoAnswer, Answer
<1>3. TypeOK'
  BY <1>1, <1>2 DEF ProbeInv, TypeOK
<1>4. \A c \in Caller : At(c, "idle")'
  BY <1>1, <1>2 DEF At
<1>5. OneCall' /\ \A c \in Caller : CallOK(c)'
  BY <1>1, <1>4 DEF OneCall, FlagHasAnOwner, CallOK, At
<1>6. Awaited' /\ Deserved'
  BY <1>1, <1>2 DEF Awaited, Deserved
<1>7. \A q \in Run : Shaped(q)'
  BY <1>1 DEF ProbeInv, Shaped, In, HelperAlive
<1> QED BY <1>3, <1>5, <1>6, <1>7 DEF ProbeInv

\* The inductive invariant.
LEMMA ProbeInvariant == Spec => []ProbeInv
<1> USE ProbeAssumption
<1>1. Init => ProbeInv
  <2> SUFFICES ASSUME Init PROVE ProbeInv
    OBVIOUS
  <2>1. /\ NoCall \in Call /\ NoCall.stage = "idle" /\ NoProcess \in Process
        /\ NoProcess.stage = "unused" /\ NoProcess.outcome = "none" /\ NoProcess.ok = FALSE
        /\ NoFile \in [by : Run \cup {None}, result : Result \cup {"none"}]
        /\ NoFile \in [by : Run \cup {None}, result : Result \cup {"blocked", "none"}]
        /\ NoAnswer \in [run : Run \cup {None}, by : Run \cup {None},
                         result : Result \cup {"none", "error", "blocked"}]
        /\ NoAnswer.result = "none" /\ NoAnswer.by = None
    BY DEF NoCall, CallAt, Call, NoProcess, ProcessAt, Process, NoFile, File, NoAnswer, Answer
  <2>2. /\ busy = FALSE /\ quits = 0 /\ answer = NoAnswer /\ received = {}
        /\ calls = [c \in Caller |-> NoCall] /\ process = [r \in Run |-> NoProcess]
        /\ helper = [r \in Run |-> "none"] /\ tested = [r \in Run |-> "none"]
        /\ report = [k \in Kind |-> NoFile] /\ native = [k \in Kind |-> NoFile]
    BY DEF Init
  <2>3. TypeOK
    <3>1. busy \in BOOLEAN /\ calls \in [Caller -> Call] /\ process \in [Run -> Process]
      BY <2>1, <2>2
    <3>4. quits \in 0 .. MaxQuits
      BY <2>2 DEF ProbeAssumption
    <3>2. /\ helper \in [Run -> Helper] /\ tested \in [Run -> Result \cup {"none"}]
          /\ received \subseteq {r \in Run : helper[r] # "none"}
      BY <2>2 DEF Helper
    <3>3. /\ report \in [Kind -> [by : Run \cup {None}, result : Result \cup {"blocked", "none"}]]
          /\ native \in [Kind -> [by : Run \cup {None}, result : Result \cup {"none"}]]
      BY <2>1, <2>2
    <3> QED BY <2>1, <2>2, <3>1, <3>2, <3>3, <3>4 DEF TypeOK
  <2>4. (\A c \in Caller : At(c, "idle")) /\ (\A r \in Run : Shaped(r) /\ ~Alive(r))
    BY <2>1, <2>2 DEF At, Shaped, Alive, In, HelperAlive
  <2>5. OneCall /\ \A c \in Caller : CallOK(c)
    BY <2>2, <2>4 DEF OneCall, FlagHasAnOwner, CallOK, At
  <2> QED BY <2>1, <2>2, <2>3, <2>4, <2>5 DEF ProbeInv, Awaited, Deserved
<1>2. ProbeInv /\ [Next]_vars => ProbeInv'
  <2> SUFFICES ASSUME ProbeInv, [Next]_vars PROVE ProbeInv'
    OBVIOUS
  <2>1. ASSUME NEW r \in Run, ProcessMoves(r) \/ HelperMoves(r) \/ FrameReturns(r)
        PROVE  ProbeInv'
    <3>1. RunTypes /\ Shaped(r)
      BY DEF ProbeInv, TypeOK, RunTypes
    <3> QED BY <2>1, <3>1, RunsStep, RunStepKeepsInv
  <2>2. CASE UNCHANGED vars
    BY <2>2 DEF vars, app, files, runs, ProbeInv, TypeOK, OneCall, FlagHasAnOwner, Awaited,
                Deserved, Shaped, CallOK, Own, At, In, HelperAlive, Alive
  <2> QED BY <2>1, <2>2, CallsKeepInv, QuitKeepsInv DEF Next
<1> QED BY <1>1, <1>2, PTL DEF Spec

------------------------------------------------------------------------------
(* The theorems *)

\* Every variable has its type.
THEOREM ProbeTypeCorrect == Spec => []TypeOK
BY ProbeInvariant, PTL DEF ProbeInv

\* The flag of the first page is set exactly while a call is under way, whichever
\* of its ways out each call takes.
THEOREM FlagAlwaysHasAnOwner == Spec => []FlagHasAnOwner
<1>1. ProbeInv => FlagHasAnOwner
  BY DEF ProbeInv, OneCall
<1> QED BY <1>1, ProbeInvariant, PTL

\* Until the application quits no two tests ever run at once.
THEOREM OneTestAlways == Spec => []OneTestAtATime
<1>1. ProbeInv => OneTestAtATime
  <2> SUFFICES ASSUME ProbeInv, quits = 0
               PROVE  Cardinality({r \in Run : Alive(r)}) <= 1
    BY DEF OneTestAtATime
  <2> DEFINE Live == {r \in Run : Alive(r)}
  <2>1. \A q, r \in Live : q = r
    <3>1. \A q \in Live : \E c \in Caller : At(c, "waiting") /\ calls[c].run = q
      BY DEF ProbeInv, Awaited
    <3>2. \A c, d \in Caller : At(c, "waiting") /\ At(d, "waiting") => c = d
      BY DEF ProbeInv, OneCall, At
    <3> QED BY <3>1, <3>2
  <2>2. CASE Live = {}
    BY <2>2, FS_EmptySet
  <2>3. CASE Live # {}
    <3>1. PICK r \in Live : Live = {r}
      BY <2>1, <2>3
    <3>2. Cardinality({r}) = 1
      BY FS_Singleton
    <3> QED BY <3>1, <3>2
  <2> QED BY <2>2, <2>3
<1> QED BY <1>1, ProbeInvariant, PTL

\* What is shown as a test's result is that run's own, however often dx-probe or
\* its helper crashes between two steps.
THEOREM ResultsAreAlwaysOwn == Spec => []ResultsAreOwn
<1>1. ProbeInv => ResultsAreOwn
  BY DEF ProbeInv, Deserved, ResultsAreOwn
<1> QED BY <1>1, ProbeInvariant, PTL

==============================================================================
