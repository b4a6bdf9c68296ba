--------------------------- MODULE DesktopHostProofs --------------------------
(***************************************************************************)
(* The desktop host for any number of rooms, any length of grants, leases  *)
(* and delays: types, leases that end with their grants, the slot that     *)
(* reaches every running task, and the finality of a stop.                 *)
(***************************************************************************)
EXTENDS DesktopHost, TLAPS

------------------------------------------------------------------------------
(* The countdowns *)

\* A reply's time left, with the fraction of the current second, is whole seconds.
Aligned(ticks, f) == ticks > 0 => \E n \in Nat : ticks + f = n * TicksPerSecond

\* How much longer than the grant a lease may run by now
Lag(t) == IF t.pc = "answering" THEN AnswerDelay - t.wait ELSE AnswerDelay

\* What the countdowns of one task say of each other
TaskOK(s) ==
    LET t == task[s] IN
    /\ t \in Task
    /\ t.wait <= Greater(Patience, AnswerDelay)
    /\ t.pc = "answering" => t.wait <= AnswerDelay
    /\ Aligned(t.mail.left, fraction)
    /\ t.lease > 0 => t.lease < vouched[s] + Lag(t)

\* Of all of them
ClockInv ==
    /\ fraction \in 0 .. TicksPerSecond - 1
    /\ vouched \in [Session -> Ticks]
    /\ task \in [Session -> Task]
    /\ \A s \in Session : TaskOK(s)

\* The constants, and the products the types are made of.
LEMMA Bounds ==
    ASSUME TimeAssumption
    PROVE  /\ TicksPerSecond \in Nat \ {0} /\ Patience \in Nat \ {0} /\ AnswerDelay \in Nat
           /\ GrantLife \in Nat \ {0} /\ LeaseCap \in Nat \ {0}
           /\ GrantLife * TicksPerSecond \in Nat /\ LeaseCap * TicksPerSecond \in Nat
BY DEF TimeAssumption

\* A grant expires on a whole second, so what is left of it is aligned.
LEMMA RepliesAreAligned ==
    ASSUME TimeAssumption, fraction \in 0 .. TicksPerSecond - 1, NEW s \in Session,
           room[s].phase \in Phase, NEW reply \in Replies(s)
    PROVE  reply \in Mail /\ Aligned(reply.left, fraction)
<1> DEFINE Top == GrantLife * TicksPerSecond
<1>1. /\ TicksPerSecond \in Nat \ {0} /\ GrantLife \in Nat \ {0} /\ Top \in Nat
      /\ fraction \in Nat /\ fraction < TicksPerSecond
  BY Bounds
<1>2. CASE reply = Failure
  BY <1>1, <1>2 DEF Failure, Mail, Ticks, Aligned
<1>3. CASE reply \in Snapshots(s) /\ room[s].phase = "active"
  <2>1. PICK sec \in 1 .. GrantLife :
          reply = [phase |-> "active", left |-> sec * TicksPerSecond - fraction]
    BY <1>3 DEF Snapshots
  <2> DEFINE n == sec * TicksPerSecond
  <2>2. n \in Nat /\ n <= Top /\ n >= TicksPerSecond
    <3>1. (GrantLife - sec) * TicksPerSecond >= 0 /\ (sec - 1) * TicksPerSecond >= 0
      BY <1>1
    <3> QED BY <1>1, <3>1
  <2>3. n - fraction \in 0 .. Top
    <3> HIDE DEF n, Top
    <3> QED BY <1>1, <2>2
  <2>4. reply \in Mail
    BY <2>1, <2>3 DEF Mail, Ticks, Phase
  <2>5. reply.left + fraction = sec * TicksPerSecond
    <3> HIDE DEF n
    <3>1. reply.left = n - fraction
      BY <2>1 DEF n
    <3>2. reply.left + fraction = n
      BY <1>1, <2>2, <3>1
    <3> QED BY <3>2 DEF n
  <2> QED BY <2>4, <2>5 DEF Aligned
<1>4. CASE reply \in Snapshots(s) /\ room[s].phase # "active"
  <2>1. reply = [phase |-> room[s].phase, left |-> 0]
    BY <1>4 DEF Snapshots
  <2> QED BY <1>1, <2>1 DEF Mail, Ticks, Aligned
<1> QED BY <1>2, <1>3, <1>4 DEF Replies

\* A lease is never negative, never above its cap and ends before its grant.
LEMMA LeaseFits ==
    ASSUME TimeAssumption, fraction \in 0 .. TicksPerSecond - 1, NEW mail \in Mail,
           Aligned(mail.left, fraction), mail.left > 0
    PROVE  LeaseOf(mail) \in 0 .. LeaseCap * TicksPerSecond /\ LeaseOf(mail) < mail.left
<1> DEFINE T == TicksPerSecond
           left == mail.left
<1>1. /\ T \in Nat \ {0} /\ LeaseCap \in Nat \ {0} /\ fraction \in Nat /\ fraction < T
      /\ left \in Nat
  BY Bounds DEF Mail, Ticks
<1>2. PICK n \in Nat : left + fraction = n * T
  BY DEF Aligned
<1>3. n # 0
  BY <1>1, <1>2
<1>4. (left + fraction) \div T = n
  <2>1. (n * T) \div T = n
    BY <1>1
  <2> QED BY <1>2, <2>1
<1> DEFINE m == Lesser(n - 1, LeaseCap)
<1>5. m \in Nat /\ m <= n - 1 /\ m <= LeaseCap
  BY <1>1, <1>3 DEF Lesser
<1>6. LeaseOf(mail) = m * T
  BY <1>4 DEF LeaseOf
<1> HIDE DEF m
<1>7. m * T \in Nat /\ m * T <= (n - 1) * T /\ m * T <= LeaseCap * T
  <2>1. (n - 1 - m) * T >= 0 /\ (LeaseCap - m) * T >= 0
    BY <1>1, <1>5
  <2> QED BY <1>1, <1>5, <2>1
<1>8. (n - 1) * T = n * T - T
  BY <1>1
<1>9. (n - 1) * T < left
  <2> DEFINE p == n * T
  <2>1. p = left + fraction
    BY <1>2
  <2> HIDE DEF p
  <2>2. p - T < left
    BY <1>1, <2>1
  <2> QED BY <1>8, <2>2 DEF p
<1> QED BY <1>1, <1>6, <1>7, <1>9

TaskAt(pc, capture, lease, wait, mail) ==
    [pc |-> pc, capture |-> capture, lease |-> lease, wait |-> wait, mail |-> mail]

\* A step of one task, from what becomes of its fields.
LEMMA TaskMoves ==
    ASSUME TimeAssumption, ClockInv, NEW s \in Session,
           NEW pc \in Pc, NEW capture \in Capture,
           NEW lease \in 0 .. LeaseCap * TicksPerSecond, NEW wait \in Nat, NEW mail \in Mail,
           task' = [task EXCEPT ![s] = TaskAt(pc, capture, lease, wait, mail)],
           fraction' = fraction, vouched' \in [Session -> Ticks],
           \A r \in Session \ {s} : vouched'[r] = vouched[r],
           wait <= Greater(Patience, AnswerDelay),
           Aligned(mail.left, fraction),
           pc = "answering" => wait <= AnswerDelay,
           lease > 0 => lease < vouched'[s] + IF pc = "answering" THEN AnswerDelay - wait
                                              ELSE AnswerDelay
    PROVE  ClockInv'
<1> DEFINE t == TaskAt(pc, capture, lease, wait, mail)
<1>1. /\ t \in Task /\ t.pc = pc /\ t.lease = lease /\ t.wait = wait /\ t.mail = mail
  BY DEF TaskAt, Task
<1> HIDE DEF t
<1>2. /\ task' \in [Session -> Task] /\ task'[s] = t
      /\ \A r \in Session \ {s} : task'[r] = task[r]
  BY <1>1 DEF ClockInv, t
<1>3. Aligned(mail.left, fraction')
  BY DEF Aligned
<1>4. ASSUME NEW r \in Session PROVE TaskOK(r)'
  <2>1. CASE r = s
    <3>1. Lag(task[s])' = IF pc = "answering" THEN AnswerDelay - wait ELSE AnswerDelay
      BY <1>1, <1>2 DEF Lag
    <3>2. Aligned(task'[s].mail.left, fraction')
      BY <1>1, <1>2 DEF Aligned
    <3> QED BY <1>1, <1>2, <2>1, <3>1, <3>2 DEF TaskOK
  <2>2. CASE r # s
    <3>1. TaskOK(r) /\ task'[r] = task[r] /\ vouched'[r] = vouched[r]
      BY <1>2, <2>2 DEF ClockInv
    <3> QED BY <3>1 DEF TaskOK, Lag, Aligned
  <2> QED BY <2>1, <2>2
<1> QED BY <1>2, <1>4 DEF ClockInv

\* What is known of one task.
LEMMA TaskFacts ==
    ASSUME TimeAssumption, ClockInv, NEW s \in Session
    PROVE  LET t == task[s] IN
           /\ task \in [Session -> Task] /\ t \in Task
           /\ t.pc \in Pc /\ t.capture \in Capture
           /\ t.lease \in 0 .. LeaseCap * TicksPerSecond /\ t.lease \in Nat
           /\ t.wait \in Nat /\ t.mail \in Mail
           /\ t.wait <= Greater(Patience, AnswerDelay)
           /\ t.pc = "answering" => t.wait <= AnswerDelay
           /\ Aligned(t.mail.left, fraction)
           /\ vouched \in [Session -> Ticks] /\ vouched[s] \in Ticks /\ vouched[s] \in Nat
           /\ t.lease > 0 => t.lease < vouched[s] + AnswerDelay
           /\ Patience <= Greater(Patience, AnswerDelay)
           /\ AnswerDelay <= Greater(Patience, AnswerDelay)
           /\ AnswerDelay \in Nat /\ Patience \in Nat
<1> DEFINE t == task[s]
<1>1. /\ task \in [Session -> Task] /\ t \in Task /\ vouched \in [Session -> Ticks] /\ TaskOK(s)
  BY DEF ClockInv
<1>2. /\ t.pc \in Pc /\ t.capture \in Capture
      /\ t.lease \in 0 .. LeaseCap * TicksPerSecond /\ t.wait \in Nat /\ t.mail \in Mail
  BY <1>1 DEF Task
<1>3. vouched[s] \in Ticks /\ vouched[s] \in Nat /\ t.lease \in Nat
  BY <1>1, <1>2, Bounds DEF Ticks
<1>4. /\ AnswerDelay \in Nat /\ Patience \in Nat
      /\ Patience <= Greater(Patience, AnswerDelay)
      /\ AnswerDelay <= Greater(Patience, AnswerDelay)
  BY Bounds DEF Greater
<1>5. Lag(t) <= AnswerDelay /\ Lag(t) \in Int
  BY <1>2, <1>4 DEF Lag
<1>6. t.lease > 0 => t.lease < vouched[s] + AnswerDelay
  BY <1>1, <1>3, <1>4, <1>5 DEF TaskOK
<1> QED BY <1>1, <1>2, <1>3, <1>4, <1>6 DEF TaskOK

\* A step that leaves the lease and the mail alone and does not wait for an answer
LEMMA PcMoves ==
    ASSUME TimeAssumption, ClockInv, NEW s \in Session,
           NEW pc \in Pc \ {"answering"}, NEW capture \in Capture,
           NEW wait \in {task[s].wait, Patience},
           task' = [task EXCEPT ![s] = TaskAt(pc, capture, task[s].lease, wait, task[s].mail)],
           fraction' = fraction, vouched' = vouched
    PROVE  ClockInv'
<1>1. /\ task[s].lease \in 0 .. LeaseCap * TicksPerSecond /\ wait \in Nat /\ task[s].mail \in Mail
      /\ wait <= Greater(Patience, AnswerDelay) /\ Aligned(task[s].mail.left, fraction)
      /\ task[s].lease > 0 => task[s].lease < vouched'[s] + AnswerDelay
      /\ vouched' \in [Session -> Ticks]
  BY TaskFacts
<1>2. pc \in Pc /\ pc # "answering"
  OBVIOUS
<1> QED BY <1>1, <1>2, TaskMoves

\* What a task keeps through a step that says nothing of its clocks
Kept(s, pc, capture, wait) ==
    task' = [task EXCEPT ![s] = TaskAt(pc, capture, task[s].lease, wait, task[s].mail)]

\* One step per action of the task whose clocks go on as they were.
LEMMA QuietActions ==
    ASSUME TimeAssumption, ClockInv, NEW s \in Session,
           \/ Prepare(s) \/ Offer(s) \/ AnswerHost(s) \/ LeaveStream(s) \/ CloseHost(s)
           \/ EndTask(s) \/ FinishAccept(s)
           \/ BeginCapture(s) \/ StartCapture(s) \/ StopCapture(s)
    PROVE  ClockInv'
<1>1. task[s] \in Task /\ task \in [Session -> Task]
  BY TaskFacts
<1>2. /\ task[s] = TaskAt(task[s].pc, task[s].capture, task[s].lease, task[s].wait, task[s].mail)
      /\ task[s].pc \in Pc /\ task[s].capture \in Capture
  BY <1>1 DEF Task, TaskAt
<1>3. CASE Prepare(s)
  <2>1. PICK pc \in {"offering", "ending"} : Kept(s, pc, task[s].capture, task[s].wait)
    BY <1>2, <1>3 DEF Prepare, Goes, TaskAt, Kept
  <2> QED BY <1>2, <1>3, <2>1, PcMoves DEF Prepare, Pc, Kept
<1>4. CASE Offer(s)
  <2>1. PICK pc \in {"polling", "closing"}, wait \in {task[s].wait, Patience} :
          Kept(s, pc, task[s].capture, wait)
    BY <1>2, <1>4 DEF Offer, Goes, TaskAt, Kept
  <2> QED BY <1>2, <1>4, <2>1, PcMoves DEF Offer, Pc, Kept
<1>5. CASE AnswerHost(s)
  <2>1. PICK pc \in {"streaming", "closing"}, capture \in {"new", task[s].capture} :
          Kept(s, pc, capture, task[s].wait)
    BY <1>2, <1>5 DEF AnswerHost, Goes, TaskAt, Kept
  <2> QED BY <1>2, <1>5, <2>1, PcMoves DEF AnswerHost, Pc, Capture, Kept
<1>6. CASE LeaveStream(s) \/ CloseHost(s) \/ EndTask(s)
  <2>1. PICK pc \in {"closing", "ending", "done"} :
          Kept(s, pc, task[s].capture, task[s].wait)
    BY <1>2, <1>6 DEF LeaveStream, CloseHost, EndTask, Goes, TaskAt, Kept
  <2> QED BY <1>2, <1>6, <2>1, PcMoves DEF LeaveStream, CloseHost, EndTask, Pc, Kept
<1>7. ASSUME BeginCapture(s) \/ StartCapture(s) \/ StopCapture(s)
      PROVE  ClockInv'
  <2>1. PICK capture \in {"starting", "on", "over"} : Kept(s, task[s].pc, capture, task[s].wait)
    BY <1>2, <1>7 DEF BeginCapture, StartCapture, StopCapture, Films, TaskAt, Kept
  <2>2. fraction' = fraction /\ vouched' = vouched /\ capture \in Capture
    BY <1>7 DEF BeginCapture, StartCapture, StopCapture, Capture
  <2>3. CASE task[s].pc # "answering"
    BY <1>2, <2>1, <2>2, <2>3, PcMoves DEF Kept
  <2>4. CASE task[s].pc = "answering"
    <3>1. TaskOK(s) /\ Lag(task[s]) = AnswerDelay - task[s].wait
      BY <2>4 DEF ClockInv, Lag
    <3> QED BY <1>2, <2>1, <2>2, <2>4, <3>1, TaskFacts, TaskMoves DEF Kept, TaskOK
  <2> QED BY <2>3, <2>4
<1>8. CASE FinishAccept(s)
  <2>1. task' = task \/ Kept(s, "preparing", task[s].capture, task[s].wait)
    BY <1>2, <1>8 DEF FinishAccept, TaskAt, Kept
  <2>2. fraction' = fraction /\ vouched' = vouched
    BY <1>8 DEF FinishAccept
  <2>3. CASE task' = task
    BY <2>2, <2>3 DEF ClockInv, TaskOK, Lag, Aligned
  <2>4. CASE Kept(s, "preparing", task[s].capture, task[s].wait)
    BY <1>2, <2>2, <2>4, PcMoves DEF Pc, Kept
  <2> QED BY <2>1, <2>3, <2>4
<1> QED BY <1>3, <1>4, <1>5, <1>6, <1>7, <1>8

\* Asking, and what is heard: every lease is measured on the grant it came with.
LEMMA MailActions ==
    ASSUME TimeAssumption, ClockInv, NEW s \in Session, room[s].phase \in Phase,
           PollRoom(s) \/ HearPoll(s) \/ Renew(s) \/ HearRenewal(s)
    PROVE  ClockInv'
<1> DEFINE t == task[s]
<1>1. /\ task \in [Session -> Task] /\ t \in Task
      /\ t.pc \in Pc /\ t.capture \in Capture
      /\ t.lease \in 0 .. LeaseCap * TicksPerSecond /\ t.lease \in Nat
      /\ t.wait \in Nat /\ t.mail \in Mail /\ t.wait <= Greater(Patience, AnswerDelay)
      /\ Aligned(t.mail.left, fraction)
      /\ vouched \in [Session -> Ticks] /\ vouched[s] \in Ticks /\ vouched[s] \in Nat
      /\ t.lease > 0 => t.lease < vouched[s] + AnswerDelay
      /\ AnswerDelay <= Greater(Patience, AnswerDelay) /\ AnswerDelay \in Nat
      /\ fraction \in 0 .. TicksPerSecond - 1
  BY TaskFacts DEF ClockInv
<1>2. t = TaskAt(t.pc, t.capture, t.lease, t.wait, t.mail)
  BY <1>1 DEF Task, TaskAt
<1>3. CASE Renew(s) \/ PollRoom(s)
  <2>1. t.pc \in {"streaming", "polling"} /\ fraction' = fraction /\ vouched' = vouched
    BY <1>3 DEF Renew, PollRoom
  <2>2. \/ Kept(s, "closing", t.capture, t.wait)
        \/ \E reply \in Replies(s) :
             task' = [task EXCEPT ![s] = TaskAt(t.pc, t.capture, t.lease, t.wait, reply)]
    BY <1>2, <1>3 DEF Renew, PollRoom, Goes, TaskAt, Kept
  <2>3. CASE Kept(s, "closing", t.capture, t.wait)
    BY <1>1, <2>1, <2>3, PcMoves DEF Pc, Kept
  <2>4. ASSUME NEW reply \in Replies(s),
               task' = [task EXCEPT ![s] = TaskAt(t.pc, t.capture, t.lease, t.wait, reply)]
        PROVE  ClockInv'
    <3>1. reply \in Mail /\ Aligned(reply.left, fraction)
      BY <1>1, RepliesAreAligned
    <3> QED BY <1>1, <2>1, <2>4, <3>1, TaskMoves
  <2> QED BY <2>2, <2>3, <2>4
<1>4. CASE HearRenewal(s) \/ HearPoll(s)
  <2>1. NoMail \in Mail /\ Aligned(NoMail.left, fraction)
    BY Bounds DEF NoMail, Mail, Ticks, Aligned
  <2>2. fraction' = fraction /\ t.pc \in {"streaming", "polling"}
    BY <1>4 DEF HearPoll, HearRenewal
  <2>3. CASE t.mail.phase = "active" /\ Verified(t.mail)
    <3>1. PICK pc \in {"answering", "streaming"}, wait \in {AnswerDelay, t.wait} :
            /\ task' = [task EXCEPT ![s] = TaskAt(pc, t.capture, LeaseOf(t.mail), wait, NoMail)]
            /\ pc = "answering" => wait = AnswerDelay
            /\ Vouch(s, t.mail)
      BY <1>2, <1>4, <2>3 DEF HearPoll, HearRenewal, TaskAt
    <3>2. t.mail.left > 0 /\ t.mail.left \in Ticks /\ t.mail.left \in Nat
      BY <1>1, <2>3, Bounds DEF Verified, Mail, Ticks
    <3>3. LeaseOf(t.mail) \in 0 .. LeaseCap * TicksPerSecond /\ LeaseOf(t.mail) < t.mail.left
      BY <1>1, <3>2, LeaseFits
    <3>4. /\ vouched' \in [Session -> Ticks] /\ vouched'[s] >= t.mail.left
          /\ vouched'[s] \in Nat /\ \A r \in Session \ {s} : vouched'[r] = vouched[r]
      <4>1. vouched' = [vouched EXCEPT ![s] = Greater(vouched[s], t.mail.left)]
        BY <3>1 DEF Vouch
      <4>2. /\ Greater(vouched[s], t.mail.left) \in Ticks
            /\ Greater(vouched[s], t.mail.left) >= t.mail.left
        BY <1>1, <3>2 DEF Greater
      <4> HIDE DEF t
      <4> QED BY <1>1, <4>1, <4>2, Bounds DEF Ticks
    <3> DEFINE lease == LeaseOf(t.mail)
               slack == IF pc = "answering" THEN AnswerDelay - wait ELSE AnswerDelay
    <3>5. lease < vouched'[s] + slack
      <4>1. slack \in Nat
        BY <1>1, <3>1
      <4>2. lease \in Int /\ lease < t.mail.left
        BY <3>3, Bounds
      <4> HIDE DEF lease, slack, t
      <4> QED BY <3>2, <3>4, <4>1, <4>2
    <3>6. wait \in Nat /\ wait <= Greater(Patience, AnswerDelay) /\ pc \in Pc
      BY <1>1, <3>1 DEF Pc
    <3>7. /\ lease \in 0 .. LeaseCap * TicksPerSecond
          /\ task' = [task EXCEPT ![s] = TaskAt(pc, t.capture, lease, wait, NoMail)]
          /\ pc = "answering" => wait <= AnswerDelay
      BY <1>1, <3>1, <3>3
    <3> HIDE DEF lease, t
    <3> QED BY <1>1, <2>1, <2>2, <3>4, <3>5, <3>6, <3>7, TaskMoves
  <2>4. CASE ~(t.mail.phase = "active" /\ Verified(t.mail))
    <3>1. PICK pc \in {"closing", t.pc} :
            /\ task' = [task EXCEPT ![s] = TaskAt(pc, t.capture, t.lease, t.wait, NoMail)]
            /\ vouched' = vouched
      BY <1>2, <1>4, <2>4 DEF HearPoll, HearRenewal, TaskAt
    <3>2. pc \in Pc /\ pc # "answering"
      BY <1>1, <2>2, <3>1 DEF Pc
    <3> QED BY <1>1, <2>1, <2>2, <3>1, <3>2, TaskMoves
  <2> QED BY <2>3, <2>4
<1> QED BY <1>3, <1>4

\* A tick takes one from every countdown, but not from a lease that has no clock yet.
LEMMA TickKeepsClocks ==
    ASSUME TimeAssumption, ClockInv, Tick
    PROVE  ClockInv'
<1> DEFINE T == TicksPerSecond
<1>1. /\ T \in Nat \ {0} /\ fraction \in Nat /\ fraction < T
      /\ fraction' = IF fraction + 1 = T THEN 0 ELSE fraction + 1
  <2>1. T \in Nat \ {0} /\ fraction \in Nat /\ fraction < T
    BY Bounds DEF ClockInv
  <2>2. fraction' = (fraction + 1) % T
    BY DEF Tick
  <2>3. fraction + 1 = T => (fraction + 1) % T = 0
    BY <2>1
  <2>4. fraction + 1 < T => (fraction + 1) % T = fraction + 1
    BY <2>1
  <2> QED BY <2>1, <2>2, <2>3, <2>4
<1>2. fraction' \in 0 .. T - 1
  BY <1>1
<1>3. \A n \in Nat : Down(n) \in Nat /\ Down(n) <= n /\ n - 1 <= Down(n)
                     /\ (Down(n) > 0 => Down(n) = n - 1)
  BY DEF Down, Greater
<1>4. ASSUME NEW left \in Nat, Aligned(left, fraction) PROVE Aligned(Down(left), fraction')
  <2> SUFFICES ASSUME Down(left) > 0
               PROVE  \E n \in Nat : Down(left) + fraction' = n * T
    BY <1>3 DEF Aligned
  <2>1. Down(left) = left - 1 /\ left > 0
    BY <1>3, <1>4
  <2>2. PICK n \in Nat : left + fraction = n * T
    BY <1>4, <2>1 DEF Aligned
  <2>3. CASE fraction + 1 = T
    <3>1. n # 0
      BY <1>1, <2>1, <2>2
    <3>2. (n - 1) * T = n * T - T
      BY <1>1
    <3>3. Down(left) + fraction' = (n - 1) * T
      <4> DEFINE p == n * T
                 q == (n - 1) * T
      <4>1. q = p - T /\ left + fraction = p
        BY <2>2, <3>2
      <4> HIDE DEF p, q
      <4>2. Down(left) + fraction' = q
        BY <1>1, <2>1, <2>3, <4>1
      <4> QED BY <4>2 DEF q
    <3>4. n - 1 \in Nat
      BY <3>1
    <3> QED BY <3>3, <3>4
  <2>4. CASE fraction + 1 # T
    <3>1. Down(left) + fraction' = left + fraction
      BY <1>1, <2>1, <2>4
    <3> QED BY <2>2, <3>1
  <2> QED BY <2>3, <2>4
<1>5. vouched' = [s \in Session |-> Down(vouched[s])] /\ task' = [s \in Session |-> Aged(task[s])]
  BY DEF Tick
<1>6. ASSUME NEW s \in Session
      PROVE  /\ task'[s] \in Task /\ vouched'[s] \in Ticks /\ TaskOK(s)'
  <2> DEFINE t == task[s]
  <2>1. /\ t \in Task /\ t.lease \in 0 .. LeaseCap * T /\ t.lease \in Nat
        /\ t.wait \in Nat /\ t.mail \in Mail /\ t.wait <= Greater(Patience, AnswerDelay)
        /\ t.pc = "answering" => t.wait <= AnswerDelay
        /\ Aligned(t.mail.left, fraction) /\ vouched[s] \in Ticks /\ vouched[s] \in Nat
        /\ AnswerDelay \in Nat
        /\ t.pc \in Pc /\ t.capture \in Capture
    BY TaskFacts
  <2>2. t.pc = "answering" => t.wait # 0
    BY DEF Tick
  <2>3. t.lease > 0 => t.lease < vouched[s] + Lag(t)
    BY DEF ClockInv, TaskOK
  <2>4. t.mail.left \in Ticks /\ t.mail.left \in Nat /\ t.mail.phase \in Phase \cup {"none", "lost"}
    BY <2>1, Bounds DEF Mail, Ticks
  <2> DEFINE left == Down(t.mail.left)
             lease == IF t.pc = "answering" THEN t.lease ELSE Down(t.lease)
             wait == Down(t.wait)
             mail == [phase |-> t.mail.phase, left |-> left]
  <2>5. /\ left \in Ticks /\ vouched'[s] = Down(vouched[s]) /\ vouched'[s] \in Ticks
        /\ lease \in 0 .. LeaseCap * T /\ wait \in Nat /\ wait <= t.wait /\ t.wait - 1 <= wait
        /\ Down(vouched[s]) \in Nat /\ vouched[s] - 1 <= Down(vouched[s])
    BY <1>3, <1>5, <2>1, <2>4, Bounds DEF Ticks
  <2>6. mail \in Mail /\ mail.left = left
    BY <2>4, <2>5 DEF Mail
  <2>7. Aged(t) = TaskAt(t.pc, t.capture, lease, wait, mail)
    BY DEF Aged, TaskAt
  <2>8. task'[s] = TaskAt(t.pc, t.capture, lease, wait, mail)
    BY <1>5, <2>7
  <2>9. Aligned(left, fraction')
    BY <1>4, <2>1, <2>4
  <2>10. lease > 0 => lease < vouched'[s] + IF t.pc = "answering" THEN AnswerDelay - wait
                                            ELSE AnswerDelay
    <3>1. CASE t.pc = "answering"
      <4>1. lease = t.lease /\ Lag(t) = AnswerDelay - t.wait /\ wait = t.wait - 1
        BY <2>1, <2>2, <3>1 DEF Lag, Down, Greater
      <4> HIDE DEF t, lease, wait
      <4> QED BY <2>1, <2>3, <2>5, <3>1, <4>1
    <3>2. CASE t.pc # "answering"
      <4>1. lease = Down(t.lease) /\ Lag(t) = AnswerDelay
        BY <3>2 DEF Lag
      <4>2. lease > 0 => lease = t.lease - 1
        BY <1>3, <2>1, <4>1
      <4> HIDE DEF t, lease, wait
      <4> QED BY <2>1, <2>3, <2>5, <3>2, <4>1, <4>2
    <3> QED BY <3>1, <3>2
  <2>11. wait <= Greater(Patience, AnswerDelay) /\ (t.pc = "answering" => wait <= AnswerDelay)
    <3>1. Greater(Patience, AnswerDelay) \in Nat
      BY Bounds DEF Greater
    <3> HIDE DEF wait
    <3> QED BY <2>1, <2>5, <3>1
  <2> DEFINE u == TaskAt(t.pc, t.capture, lease, wait, mail)
  <2>12. /\ u \in Task /\ u.pc = t.pc /\ u.lease = lease /\ u.wait = wait /\ u.mail = mail
    BY <2>1, <2>5, <2>6 DEF TaskAt, Task
  <2> HIDE DEF u, lease, wait, mail, left
  <2>13. Lag(u) = IF t.pc = "answering" THEN AnswerDelay - wait ELSE AnswerDelay
    BY <2>12 DEF Lag
  <2>14. task'[s] = u
    BY <2>8 DEF u
  <2>15. TaskOK(s)'
    BY <2>6, <2>9, <2>10, <2>11, <2>12, <2>13, <2>14 DEF TaskOK
  <2> QED BY <2>5, <2>12, <2>14, <2>15
<1> QED BY <1>2, <1>5, <1>6 DEF ClockInv

------------------------------------------------------------------------------
(* Rooms, the slot and the mutex *)

Opening == mutex.op \in {"create", "join"}
Running(s) == task[s].pc \notin {"idle", "done"}

\* What nobody has stopped, an accepted task or an accept under way, is the
\* connection in the slot; the mutex keeps the slot empty for the room it opens.
SlotInv ==
    /\ slot \in Session \cup {NoSession}
    /\ mutex \in Holder \cup {Free}
    /\ Opening => slot = NoSession
    /\ role \in [Session -> {"none", "host", "viewer"}]
    /\ stop \in [Session -> BOOLEAN]
    /\ accepting \subseteq Session
    /\ room \in [Session -> [phase : Phase, offered : BOOLEAN]]
    /\ title \in {"plain", "sharing"}
    /\ \A s \in Session : (s \in accepting \/ Running(s)) /\ ~stop[s] => slot = s
    /\ title = "sharing" => \E s \in Session : Running(s)

HostInv == ClockInv /\ SlotInv

Rooms == [Session -> [phase : Phase, offered : BOOLEAN]]

\* Every way a room moves leaves it a room.
LEMMA RoomMoves ==
    ASSUME room \in Rooms, NEW s \in Session
    PROVE  /\ \A phase \in Phase : [room EXCEPT ![s].phase = phase] \in Rooms
           /\ [room EXCEPT ![s].offered = TRUE] \in Rooms
           /\ [room EXCEPT ![s] = EndedRoom] \in Rooms
<1>1. room[s] \in [phase : Phase, offered : BOOLEAN]
  BY DEF Rooms
<1>2. ASSUME NEW phase \in Phase PROVE [room EXCEPT ![s].phase = phase] \in Rooms
  <2>1. [room[s] EXCEPT !.phase = phase] \in [phase : Phase, offered : BOOLEAN]
    BY <1>1
  <2>2. [room EXCEPT ![s].phase = phase] = [room EXCEPT ![s] = [room[s] EXCEPT !.phase = phase]]
    OBVIOUS
  <2> QED BY <2>1, <2>2 DEF Rooms
<1>3. [room EXCEPT ![s].offered = TRUE] \in Rooms
  <2>1. [room[s] EXCEPT !.offered = TRUE] \in [phase : Phase, offered : BOOLEAN]
    BY <1>1
  <2>2. [room EXCEPT ![s].offered = TRUE] = [room EXCEPT ![s] = [room[s] EXCEPT !.offered = TRUE]]
    OBVIOUS
  <2> QED BY <2>1, <2>2 DEF Rooms
<1>4. EndedRoom \in [phase : Phase, offered : BOOLEAN]
  BY DEF EndedRoom, Phase
<1>5. [room EXCEPT ![s] = EndedRoom] \in Rooms
  BY <1>4 DEF Rooms
<1> QED BY <1>2, <1>3, <1>5

\* A step of the server, of a task before its end, or of time
LEMMA SlotIsLeftAlone ==
    ASSUME SlotInv, room' \in Rooms, UNCHANGED <<slot, mutex, role, accepting, title>>,
           stop' \in [Session -> BOOLEAN], \A s \in Session : stop[s] => stop'[s],
           \A s \in Session : Running(s)' <=> Running(s)
    PROVE  SlotInv'
BY DEF SlotInv, Opening, Rooms

LEMMA ServerMoves ==
    ASSUME SlotInv, NEW s \in Session,
           ViewerJoins(s) \/ ViewerAnswers(s) \/ RoomEnds(s)
    PROVE  SlotInv'
<1>1. room \in Rooms
  BY DEF SlotInv, Rooms
<1>2. room' \in Rooms
  BY <1>1, RoomMoves DEF ViewerJoins, ViewerAnswers, RoomEnds, Phase
<1>3. /\ UNCHANGED <<slot, mutex, role, stop, accepting, task, title>>
      /\ stop \in [Session -> BOOLEAN]
  BY DEF ViewerJoins, ViewerAnswers, RoomEnds, SlotInv
<1>4. \A r \in Session : Running(r)' <=> Running(r)
  BY <1>3 DEF Running
<1>5. \A r \in Session : stop[r] => stop'[r]
  BY <1>3
<1> QED BY <1>2, <1>3, <1>4, <1>5, SlotIsLeftAlone

\* One step per command of the window.
LEMMA CommandsMove ==
    ASSUME SessionAssumption, SlotInv, NEW s \in Session,
           \/ \E op \in {"create", "join"} : BeginOpen(s, op) \/ FinishOpen(s, op)
           \/ BeginStop(s) \/ FinishStop(s) \/ Close(s) \/ BeginAccept(s)
    PROVE  SlotInv'
<1>1. /\ room \in Rooms /\ NoSession \notin Session /\ slot \in Session \cup {NoSession}
      /\ stop \in [Session -> BOOLEAN]
  BY DEF SlotInv, Rooms, SessionAssumption
<1> USE DEF Opening, Running
<1>2. ASSUME NEW op \in {"create", "join"}, BeginOpen(s, op) PROVE SlotInv'
  <2>1. mutex' \in Holder /\ slot = NoSession
    BY <1>2 DEF BeginOpen, Holder
  <2> QED BY <1>1, <1>2, <2>1 DEF SlotInv, BeginOpen
<1>3. ASSUME NEW op \in {"create", "join"}, FinishOpen(s, op) PROVE SlotInv'
  <2>1. Opening /\ slot = NoSession
    BY <1>3 DEF FinishOpen, SlotInv
  <2>2. \A r \in Session : ~((r \in accepting \/ Running(r)) /\ ~stop[r])
    BY <1>1, <2>1 DEF SlotInv
  <2>3. room' \in Rooms
    BY <1>1, <1>3, RoomMoves DEF FinishOpen, Opened, Phase
  <2>4. role' \in [Session -> {"none", "host", "viewer"}] /\ slot' \in Session \cup {NoSession}
    BY <1>1, <1>3 DEF FinishOpen, SlotInv
  <2>5. mutex' = Free /\ UNCHANGED <<stop, accepting, task, title>> /\ Free.op = "none"
    BY <1>3 DEF FinishOpen, Free
  <2> QED BY <2>2, <2>3, <2>4, <2>5 DEF SlotInv, Rooms
<1>4. CASE BeginStop(s)
  <2>1. mutex' \in Holder /\ mutex'.op = "stop"
    BY <1>4 DEF BeginStop, Holder
  <2>2. /\ stop' = [stop EXCEPT ![s] = TRUE] /\ slot = s /\ slot' = NoSession
        /\ UNCHANGED <<role, accepting, task, room, title>>
    BY <1>4 DEF BeginStop
  <2>3. \A r \in Session : ~((r \in accepting \/ Running(r)) /\ ~stop'[r])
    BY <1>1, <2>2 DEF SlotInv
  <2> QED BY <1>1, <2>1, <2>2, <2>3 DEF SlotInv
<1>5. CASE FinishStop(s)
  <2>1. room' \in Rooms
    BY <1>1, <1>5, RoomMoves DEF FinishStop
  <2>2. mutex' = Free /\ Free.op = "none" /\ UNCHANGED <<slot, role, stop, accepting, task, title>>
    BY <1>5 DEF FinishStop, Free
  <2> QED BY <1>1, <2>1, <2>2 DEF SlotInv, Rooms
<1>6. CASE Close(s)
  <2>1. /\ stop' = [stop EXCEPT ![s] = TRUE]
        /\ UNCHANGED <<slot, mutex, role, accepting, task, room, title>>
    BY <1>6 DEF Close
  <2> QED BY <1>1, <2>1 DEF SlotInv
<1>7. CASE BeginAccept(s)
  <2>1. /\ slot = s /\ accepting' = accepting \cup {s}
        /\ UNCHANGED <<slot, mutex, role, stop, task, room, title>>
    BY <1>7 DEF BeginAccept
  <2> QED BY <1>1, <2>1 DEF SlotInv
<1> QED BY <1>2, <1>3, <1>4, <1>5, <1>6, <1>7

\* An accept whose reply comes late finds its own connection, or a stopped one.
LEMMA AcceptMoves ==
    ASSUME SlotInv, NEW s \in Session, FinishAccept(s), task \in [Session -> Task]
    PROVE  SlotInv'
<1>1. /\ room \in Rooms /\ s \in accepting /\ accepting' = accepting \ {s}
      /\ UNCHANGED <<slot, mutex, role, stop>>
  BY DEF SlotInv, Rooms, FinishAccept
<1>2. room' \in Rooms
  BY <1>1, RoomMoves DEF FinishAccept, Phase
<1>3. CASE task' = [task EXCEPT ![s].pc = "preparing"] /\ title' = "sharing"
  <2>1. task'[s].pc = "preparing" /\ \A r \in Session \ {s} : task'[r] = task[r]
    BY <1>3 DEF Task
  <2>2. Running(s)' /\ \A r \in Session \ {s} : Running(r)' <=> Running(r)
    BY <2>1 DEF Running
  <2> QED BY <1>1, <1>2, <1>3, <2>2 DEF SlotInv, Rooms, Opening
<1>4. CASE UNCHANGED <<task, title>>
  BY <1>1, <1>2, <1>4 DEF SlotInv, Rooms, Opening, Running
<1> QED BY <1>3, <1>4 DEF FinishAccept

\* The steps of a task: only its end lets it go, and puts the title back.
LEMMA TasksMove ==
    ASSUME SlotInv, NEW s \in Session, task \in [Session -> Task],
           \/ Prepare(s) \/ Offer(s) \/ PollRoom(s) \/ HearPoll(s) \/ AnswerHost(s)
           \/ HearRenewal(s) \/ LeaveStream(s) \/ CloseHost(s) \/ EndTask(s)
           \/ Renew(s) \/ BeginCapture(s) \/ StartCapture(s) \/ StopCapture(s)
    PROVE  SlotInv'
<1>1. room \in Rooms /\ stop \in [Session -> BOOLEAN]
  BY DEF SlotInv, Rooms
<1>2. ASSUME EndTask(s)
      PROVE  SlotInv'
  <2>1. room' \in Rooms
    BY <1>1, <1>2, RoomMoves DEF EndTask
  <2>2. /\ title' = "plain" /\ UNCHANGED <<slot, mutex, role, stop, accepting>>
        /\ task'[s].pc = "done" /\ \A r \in Session \ {s} : task'[r] = task[r]
    BY <1>2 DEF EndTask, Goes, Task
  <2>3. \A r \in Session : Running(r)' => Running(r)
    BY <2>2 DEF Running
  <2> QED BY <2>1, <2>2, <2>3 DEF SlotInv, Rooms, Opening
<1>3. ASSUME \/ Prepare(s) \/ Offer(s) \/ PollRoom(s) \/ HearPoll(s) \/ AnswerHost(s)
             \/ HearRenewal(s) \/ LeaveStream(s) \/ CloseHost(s)
             \/ Renew(s) \/ BeginCapture(s) \/ StartCapture(s) \/ StopCapture(s)
      PROVE  SlotInv'
  <2>1. room' \in Rooms
    BY <1>1, <1>3, RoomMoves
       DEF Prepare, Offer, PollRoom, HearPoll, AnswerHost, HearRenewal, LeaveStream, CloseHost,
           BeginCapture, StartCapture, StopCapture, Renew
  <2>2. /\ UNCHANGED <<slot, mutex, role, accepting, title>>
        /\ stop' = stop \/ stop' = [stop EXCEPT ![s] = TRUE]
    BY <1>3 DEF Prepare, Offer, PollRoom, HearPoll, AnswerHost, HearRenewal, LeaveStream,
                CloseHost, BeginCapture, StartCapture, StopCapture, Renew
  <2>3. stop' \in [Session -> BOOLEAN] /\ \A r \in Session : stop[r] => stop'[r]
    BY <1>1, <2>2
  <2>4. /\ Running(s)' <=> Running(s)
        /\ \A r \in Session \ {s} : task'[r] = task[r]
    <3>1. CASE Prepare(s) \/ Offer(s) \/ AnswerHost(s) \/ LeaveStream(s) \/ CloseHost(s)
      BY <3>1 DEF Prepare, Offer, AnswerHost, LeaveStream, CloseHost, Goes, Task, Running
    <3>2. CASE \/ BeginCapture(s) \/ StartCapture(s) \/ StopCapture(s)
               \/ Renew(s) \/ PollRoom(s)
      BY <3>2 DEF BeginCapture, StartCapture, StopCapture, Films, Renew, PollRoom, Goes, Task,
                  Running
    <3>3. CASE HearPoll(s) \/ HearRenewal(s)
      BY <3>3 DEF HearPoll, HearRenewal, Task, Running
    <3> QED BY <1>3, <3>1, <3>2, <3>3
  <2>5. \A r \in Session : Running(r)' <=> Running(r)
    BY <2>4 DEF Running
  <2> QED BY <2>1, <2>2, <2>3, <2>5, SlotIsLeftAlone
<1> QED BY <1>2, <1>3

------------------------------------------------------------------------------
(* The inductive invariant *)

\* What the server and the commands do touches no countdown.
LEMMA CommandsKeepClocks ==
    ASSUME ClockInv, NEW s \in Session,
           \/ ViewerJoins(s) \/ ViewerAnswers(s) \/ RoomEnds(s)
           \/ \E op \in {"create", "join"} : BeginOpen(s, op) \/ FinishOpen(s, op)
           \/ BeginStop(s) \/ FinishStop(s) \/ Close(s) \/ BeginAccept(s)
    PROVE  ClockInv'
<1>1. UNCHANGED <<fraction, task, vouched>>
  BY DEF ViewerJoins, ViewerAnswers, RoomEnds, BeginOpen, FinishOpen, BeginStop, FinishStop,
         Close, BeginAccept
<1> QED BY <1>1 DEF ClockInv, TaskOK, Lag, Aligned

\* The invariant of the whole, one step per group of actions.
LEMMA HostInvariant == Spec => []HostInv
<1> USE TimeAssumption, SessionAssumption
<1>1. Init => HostInv
  <2> SUFFICES ASSUME Init PROVE HostInv
    OBVIOUS
  <2>1. NoTask \in Task /\ NoTask.wait = 0 /\ NoTask.lease = 0 /\ NoTask.mail.left = 0
        /\ NoTask.pc = "idle"
    <3>1. NoMail \in Mail /\ NoMail.left = 0
      BY Bounds DEF NoMail, Mail, Ticks
    <3>2. 0 \in 0 .. LeaseCap * TicksPerSecond
      BY Bounds
    <3> QED BY <3>1, <3>2 DEF NoTask, Task, Pc, Capture
  <2>2. /\ task = [s \in Session |-> NoTask] /\ vouched = [s \in Session |-> 0]
        /\ fraction \in 0 .. TicksPerSecond - 1 /\ 0 \in Ticks
    BY Bounds DEF Init, Ticks
  <2>3. 0 <= Greater(Patience, AnswerDelay)
    BY Bounds DEF Greater
  <2>4. ClockInv
    BY <2>1, <2>2, <2>3 DEF ClockInv, TaskOK, Aligned
  <2>5. \A s \in Session : ~Running(s)
    BY <2>1, <2>2 DEF Running
  <2>6. [phase |-> "free", offered |-> FALSE] \in [phase : Phase, offered : BOOLEAN]
    BY DEF Phase
  <2>7. SlotInv
    BY <2>5, <2>6 DEF Init, SlotInv, Opening, Free
  <2> QED BY <2>4, <2>7 DEF HostInv
<1>2. HostInv /\ [Next]_vars => HostInv'
  <2> SUFFICES ASSUME HostInv, [Next]_vars PROVE HostInv'
    OBVIOUS
  <2>1. /\ ClockInv /\ SlotInv /\ task \in [Session -> Task]
        /\ \A s \in Session : room[s].phase \in Phase
    BY DEF HostInv, ClockInv, SlotInv
  <2>2. CASE UNCHANGED vars
    BY <2>2 DEF vars, HostInv, ClockInv, TaskOK, Lag, Aligned, SlotInv, Opening, Running
  <2>3. CASE Tick
    <3>1. ClockInv'
      BY <2>1, <2>3, TickKeepsClocks
    <3>2. /\ UNCHANGED <<slot, mutex, role, stop, accepting, room, title>>
          /\ \A s \in Session : Running(s)' <=> Running(s)
      BY <2>1, <2>3 DEF Tick, Aged, Running
    <3>3. room' \in Rooms /\ stop' \in [Session -> BOOLEAN]
      BY <2>1, <3>2 DEF SlotInv, Rooms
    <3>4. SlotInv'
      BY <2>1, <3>2, <3>3, SlotIsLeftAlone
    <3> QED BY <3>1, <3>4 DEF HostInv
  <2>4. ASSUME NEW s \in Session,
               \/ ViewerJoins(s) \/ ViewerAnswers(s) \/ RoomEnds(s)
               \/ \E op \in {"create", "join"} : BeginOpen(s, op) \/ FinishOpen(s, op)
               \/ BeginStop(s) \/ FinishStop(s) \/ Close(s) \/ BeginAccept(s)
        PROVE  HostInv'
    BY <2>1, <2>4, CommandsKeepClocks, ServerMoves, CommandsMove DEF HostInv
  <2>5. ASSUME NEW s \in Session,
               \/ FinishAccept(s) \/ Proceeds(s) \/ Renew(s)
               \/ BeginCapture(s) \/ StartCapture(s) \/ StopCapture(s)
        PROVE  HostInv'
    <3>1. ClockInv'
      BY <2>1, <2>5, QuietActions, MailActions DEF Proceeds
    <3>2. SlotInv'
      BY <2>1, <2>5, AcceptMoves, TasksMove DEF Proceeds
    <3> QED BY <3>1, <3>2 DEF HostInv
  <2> QED BY <2>2, <2>3, <2>4, <2>5 DEF Next
<1> QED BY <1>1, <1>2, PTL DEF Spec

------------------------------------------------------------------------------
(* The theorems *)

\* Every variable has its type, and every countdown its limit: no lease computed
\* from a grant is ever negative or longer than LeaseCap.
THEOREM HostTypeCorrect == Spec => []TypeOK
<1>1. HostInv => TypeOK
  BY DEF HostInv, ClockInv, SlotInv, TaskOK, TypeOK
<1> QED BY <1>1, HostInvariant, PTL

\* For every length of grant, cap and number of ticks in a second: a lease outlasts
\* the best grant it was taken from by less than host.answer took.
THEOREM LeasesAreBoundedByGrants == Spec => []LeaseBoundedByGrant
<1>1. TimeAssumption /\ HostInv => LeaseBoundedByGrant
  BY TaskFacts DEF HostInv, LeaseBoundedByGrant
<1> QED BY <1>1, TimeAssumption, HostInvariant, PTL

\* For any number of rooms this device ever opens: an accepted session that nobody
\* has stopped is the one in the slot.
THEOREM RunningTasksAreReachable == Spec => []RunningTaskIsReachable
<1>1. HostInv => RunningTaskIsReachable
  BY DEF HostInv, SlotInv, Running, RunningTaskIsReachable
<1> QED BY <1>1, HostInvariant, PTL

\* For any number of rooms: the title says that the screen is shared only while
\* the task of one of them has not ended.
THEOREM TitleAlwaysGoesBack == Spec => []TitleGoesBack
<1>1. HostInv => TitleGoesBack
  BY DEF HostInv, SlotInv, Running, TitleGoesBack
<1> QED BY <1>1, HostInvariant, PTL

------------------------------------------------------------------------------
(* A stop is final: each session is accepted once and its stream begun once *)

\* The commands and the server leave every task as it is.
LEMMA CommandsKeepTasks ==
    ASSUME NEW s \in Session,
           \/ ViewerJoins(s) \/ ViewerAnswers(s) \/ RoomEnds(s)
           \/ \E op \in {"create", "join"} : BeginOpen(s, op) \/ FinishOpen(s, op)
           \/ BeginStop(s) \/ FinishStop(s) \/ Close(s) \/ BeginAccept(s)
    PROVE  task' = task
  BY DEF ViewerJoins, ViewerAnswers, RoomEnds, BeginOpen, FinishOpen, BeginStop,
         FinishStop, Close, BeginAccept

Dark == {"idle", "preparing", "offering", "polling", "answering"}

\* A room that is still free, or not yet accepted, has no task; a task that has not
\* come to its stream has no capture; and the room being opened is a free one.
OnceInv ==
    /\ \A s \in Session :
          /\ task[s].pc # "idle" => room[s].phase \in {"negotiating", "active", "ended"}
          /\ task[s].pc \in Dark => task[s].capture = "off"
    /\ Opening => room[mutex.session].phase = "free"

\* The server and the commands: no room goes back to where it can be accepted again.
LEMMA RoomsAreNotReopened ==
    ASSUME SessionAssumption, HostInv, OnceInv, NEW s \in Session,
           \/ ViewerJoins(s) \/ ViewerAnswers(s) \/ RoomEnds(s)
           \/ \E op \in {"create", "join"} : BeginOpen(s, op) \/ FinishOpen(s, op)
           \/ BeginStop(s) \/ FinishStop(s) \/ Close(s) \/ BeginAccept(s)
    PROVE  OnceInv'
<1>1. /\ task' = task /\ room \in Rooms /\ mutex \in Holder \cup {Free}
      /\ task \in [Session -> Task]
  BY CommandsKeepTasks DEF HostInv, SlotInv, ClockInv, Rooms
<1>2. \A r \in Session : room[r] = [phase |-> room[r].phase, offered |-> room[r].offered]
  BY <1>1 DEF Rooms
<1>3. Free.op = "none" /\ (Opening => mutex.session \in Session)
  BY <1>1 DEF Free, Opening, Holder
<1>4. EndedRoom.phase = "ended"
  BY DEF EndedRoom
<1>5. CASE ViewerJoins(s) \/ ViewerAnswers(s) \/ RoomEnds(s)
  <2>1. /\ mutex' = mutex /\ room[s].phase # "free"
        /\ \A r \in Session \ {s} : room'[r] = room[r]
    BY <1>1, <1>5 DEF ViewerJoins, ViewerAnswers, RoomEnds, Rooms
  <2>2. \/ room'[s].phase \in {"active", "ended"}
        \/ room[s].phase = "waiting" /\ room'[s].phase = "awaiting_consent"
    BY <1>1, <1>4, <1>5 DEF ViewerJoins, ViewerAnswers, RoomEnds, Rooms
  <2> QED BY <1>1, <1>3, <2>1, <2>2 DEF OnceInv, Opening
<1>6. ASSUME NEW op \in {"create", "join"}, BeginOpen(s, op) PROVE OnceInv'
  BY <1>1, <1>6 DEF BeginOpen, OnceInv, Opening
<1>7. ASSUME NEW op \in {"create", "join"}, FinishOpen(s, op) PROVE OnceInv'
  <2>1. room[s].phase = "free" /\ mutex' = Free
    BY <1>7 DEF FinishOpen, OnceInv, Opening
  <2>2. task[s].pc = "idle"
    BY <2>1 DEF OnceInv
  <2>3. \A r \in Session \ {s} : room'[r] = room[r]
    BY <1>1, <1>7 DEF FinishOpen, Opened, Rooms
  <2> QED BY <1>1, <1>3, <2>1, <2>2, <2>3 DEF OnceInv, Opening
<1>8. CASE FinishStop(s)
  <2>1. mutex' = Free /\ \A r \in Session : room'[r] \in {room[r], EndedRoom}
    BY <1>1, <1>8 DEF FinishStop, Rooms
  <2> QED BY <1>1, <1>3, <1>4, <2>1 DEF OnceInv, Opening
<1>9. CASE BeginStop(s) \/ Close(s) \/ BeginAccept(s)
  <2>1. room' = room /\ (mutex' = mutex \/ mutex'.op = "stop")
    BY <1>9 DEF BeginStop, Close, BeginAccept
  <2> QED BY <1>1, <2>1 DEF OnceInv, Opening
<1> QED BY <1>5, <1>6, <1>7, <1>8, <1>9

\* The task goes forward only, and gets its capture when it begins to stream.
LEMMA TasksGoForward ==
    ASSUME HostInv, OnceInv, NEW s \in Session,
           \/ FinishAccept(s) \/ Proceeds(s) \/ Renew(s)
           \/ BeginCapture(s) \/ StartCapture(s) \/ StopCapture(s)
    PROVE  OnceInv' /\ \A r \in Session : Final(r) => Final(r)'
<1>1. /\ room \in Rooms /\ task \in [Session -> Task] /\ stop \in [Session -> BOOLEAN]
  BY DEF HostInv, SlotInv, ClockInv, Rooms
<1>2. /\ mutex' = mutex
      /\ \A r \in Session \ {s} : task'[r] = task[r] /\ room'[r] = room[r]
      /\ \A r \in Session : stop[r] => stop'[r]
  <2>1. CASE FinishAccept(s) \/ Renew(s) \/ BeginCapture(s) \/ StartCapture(s) \/ StopCapture(s)
    BY <1>1, <2>1 DEF FinishAccept, Renew, BeginCapture, StartCapture, StopCapture, Films, Rooms
  <2>2. CASE Prepare(s) \/ Offer(s) \/ PollRoom(s) \/ HearPoll(s) \/ AnswerHost(s)
    BY <1>1, <2>2 DEF Prepare, Offer, PollRoom, HearPoll, AnswerHost, Goes, Rooms
  <2>3. CASE HearRenewal(s) \/ LeaveStream(s) \/ CloseHost(s) \/ EndTask(s)
    BY <1>1, <2>3 DEF HearRenewal, LeaveStream, CloseHost, EndTask, Goes, Rooms
  <2> QED BY <2>1, <2>2, <2>3 DEF Proceeds
<1>3. /\ room[s].phase = "free" => room'[s].phase = "free"
      /\ task'[s].pc # "idle" => room'[s].phase \in {"negotiating", "active", "ended"}
  <2>1. CASE FinishAccept(s)
    <3>1. CASE CanAccept(s) /\ room' = [room EXCEPT ![s].phase = "negotiating"]
      <4>1. room'[s].phase = "negotiating" /\ room[s].phase # "free"
        BY <1>1, <3>1 DEF CanAccept, Rooms
      <4> QED BY <4>1
    <3>2. CASE UNCHANGED <<room, task>>
      BY <3>2 DEF OnceInv
    <3> QED BY <2>1, <3>1, <3>2 DEF FinishAccept
  <2>2. CASE ~FinishAccept(s)
    <3>1. task[s].pc # "idle"
      <4>1. CASE Renew(s) \/ Proceeds(s)
        BY <4>1 DEF Renew, Proceeds, Prepare, Offer, PollRoom, HearPoll, AnswerHost, HearRenewal,
                    LeaveStream, CloseHost, EndTask
      <4>2. CASE BeginCapture(s) \/ StartCapture(s) \/ StopCapture(s)
        BY <4>2 DEF BeginCapture, StartCapture, StopCapture, OnceInv, Dark
      <4> QED BY <2>2, <4>1, <4>2
    <3>2. room'[s] = room[s] \/ room'[s].phase = room[s].phase \/ room'[s].phase = "ended"
      <4>1. CASE Offer(s)
        BY <1>1, <4>1 DEF Offer, Rooms
      <4>2. CASE EndTask(s)
        BY <1>1, <4>2 DEF EndTask, EndedRoom, Rooms
      <4>3. CASE room' = room
        BY <4>3
      <4> QED BY <2>2, <4>1, <4>2, <4>3
              DEF Renew, Proceeds, Prepare, PollRoom, HearPoll, AnswerHost, HearRenewal,
                  LeaveStream, CloseHost, BeginCapture, StartCapture, StopCapture
    <3> QED BY <3>1, <3>2 DEF OnceInv
  <2> QED BY <2>1, <2>2
<1>4. /\ task'[s].pc \in Dark => task'[s].capture = "off"
      /\ Final(s) => Final(s)'
  <2>1. stop[s] => stop'[s]
    BY <1>2
  <2>2. CASE FinishAccept(s)
    <3>1. CASE CanAccept(s)
      <4>1. task[s].pc = "idle" /\ task[s].capture = "off"
        BY <3>1 DEF CanAccept, OnceInv, Dark
      <4>2. task'[s].capture = "off"
        BY <1>1, <2>2, <4>1 DEF FinishAccept, Task
      <4> QED BY <2>1, <4>1, <4>2 DEF Final
    <3>2. CASE ~CanAccept(s)
      BY <2>1, <2>2, <3>2 DEF FinishAccept, OnceInv, Final
    <3> QED BY <3>1, <3>2
  <2>3. CASE AnswerHost(s)
    <3>1. task[s].capture = "off"
      BY <2>3 DEF AnswerHost, OnceInv, Dark
    <3>2. \/ task'[s].pc = "streaming" /\ task'[s].capture = "new"
          \/ task'[s].pc = "closing" /\ task'[s].capture = "off"
      BY <1>1, <2>3, <3>1 DEF AnswerHost, Goes, Task
    <3> QED BY <2>1, <3>1, <3>2 DEF Final, Dark
  <2>4. CASE BeginCapture(s) \/ StartCapture(s) \/ StopCapture(s)
    <3>1. task[s].capture \in {"new", "starting", "on"} /\ task'[s].pc = task[s].pc
      BY <1>1, <2>4 DEF BeginCapture, StartCapture, StopCapture, Films, Task
    <3>2. task[s].pc \notin Dark
      BY <3>1 DEF OnceInv
    <3>3. Final(s) => task'[s].capture = "over"
      BY <1>1, <2>4, <3>1 DEF BeginCapture, StartCapture, StopCapture, MayCapture, Films, Final, Task
    <3> QED BY <3>1, <3>2, <3>3 DEF Final
  <2>5. CASE \/ Prepare(s) \/ Offer(s) \/ PollRoom(s) \/ HearPoll(s) \/ HearRenewal(s)
             \/ LeaveStream(s) \/ CloseHost(s) \/ EndTask(s) \/ Renew(s)
    <3>1. task'[s].capture = task[s].capture /\ (task'[s].pc \in Dark => task[s].pc \in Dark)
      <4>1. CASE Prepare(s) \/ Offer(s) \/ LeaveStream(s) \/ CloseHost(s) \/ EndTask(s)
        BY <1>1, <4>1 DEF Prepare, Offer, LeaveStream, CloseHost, EndTask, Goes, Task, Dark
      <4>2. CASE PollRoom(s) \/ Renew(s)
        BY <1>1, <4>2 DEF PollRoom, Renew, Goes, Task, Dark
      <4>3. CASE HearPoll(s) \/ HearRenewal(s)
        BY <1>1, <4>3 DEF HearPoll, HearRenewal, Task, Dark
      <4> QED BY <2>5, <4>1, <4>2, <4>3
    <3> QED BY <2>1, <3>1 DEF OnceInv, Final
  <2> QED BY <2>2, <2>3, <2>4, <2>5 DEF Proceeds
<1>5. \A r \in Session \ {s} : Final(r) => Final(r)'
  BY <1>2 DEF Final
<1>6. Opening => mutex.session \in Session
  BY DEF HostInv, SlotInv, Opening, Holder, Free
<1>7. OnceInv'
  <2>1. Opening' => room'[mutex'.session].phase = "free"
    BY <1>2, <1>3, <1>6 DEF OnceInv, Opening
  <2>2. ASSUME NEW r \in Session
        PROVE  /\ task'[r].pc # "idle" => room'[r].phase \in {"negotiating", "active", "ended"}
               /\ task'[r].pc \in Dark => task'[r].capture = "off"
    BY <1>2, <1>3, <1>4 DEF OnceInv
  <2> QED BY <2>1, <2>2 DEF OnceInv
<1> QED BY <1>4, <1>5, <1>7

\* One step of anything
LEMMA FinalStep ==
    ASSUME SessionAssumption, HostInv, OnceInv, [Next]_vars
    PROVE  OnceInv' /\ \A s \in Session : Final(s) => Final(s)'
<1>1. task \in [Session -> Task] /\ stop \in [Session -> BOOLEAN]
  BY DEF HostInv, ClockInv, SlotInv
<1>2. CASE UNCHANGED vars
  BY <1>2 DEF vars, OnceInv, Opening, Final
<1>3. CASE Tick
  <2>1. /\ UNCHANGED <<mutex, room, stop>>
        /\ \A s \in Session : task'[s].pc = task[s].pc /\ task'[s].capture = task[s].capture
    BY <1>1, <1>3 DEF Tick, Aged
  <2> QED BY <2>1 DEF OnceInv, Opening, Final
<1>4. ASSUME NEW s \in Session,
             \/ ViewerJoins(s) \/ ViewerAnswers(s) \/ RoomEnds(s)
             \/ \E op \in {"create", "join"} : BeginOpen(s, op) \/ FinishOpen(s, op)
             \/ BeginStop(s) \/ FinishStop(s) \/ Close(s) \/ BeginAccept(s)
      PROVE  OnceInv' /\ \A r \in Session : Final(r) => Final(r)'
  <2>1. OnceInv' /\ task' = task
    BY <1>4, RoomsAreNotReopened, CommandsKeepTasks
  <2>2. \A r \in Session : stop[r] => stop'[r]
    BY <1>1, <1>4 DEF ViewerJoins, ViewerAnswers, RoomEnds, BeginOpen, FinishOpen, BeginStop,
                      FinishStop, Close, BeginAccept
  <2> QED BY <2>1, <2>2 DEF Final
<1> QED BY <1>2, <1>3, <1>4, TasksGoForward DEF Next

\* For any number of sessions, whichever accept, answer or command is in flight: a
\* session stopped before its stream's look stays dark, and no ended one starts again.
THEOREM StopsAreFinal == Spec => StopIsFinal
<1> USE SessionAssumption
<1>1. Init => OnceInv
  BY DEF Init, OnceInv, Opening, Free, NoTask
<1>2. HostInv /\ OnceInv /\ [Next]_vars => OnceInv'
  BY FinalStep
<1>3. Spec => []OnceInv
  BY <1>1, <1>2, HostInvariant, PTL DEF Spec
<1>4. HostInv /\ OnceInv /\ [Next]_vars => \A s \in Session : Final(s) => Final(s)'
  BY FinalStep
<1> QED BY <1>3, <1>4, HostInvariant, PTL DEF Spec, StopIsFinal

------------------------------------------------------------------------------
(* The policy scopes: what depends on how many of them verify is passed *)

\* No task is let past the wait for an active room, and none has a capture.
NothingIsGranted ==
    \A s \in Session : task[s].pc \notin {"answering", "streaming"} /\ task[s].capture = "off"

\* With any other number of scopes, and the one the application passes is such,
\* no session of any device ever comes to a capture, whatever the server grants.
THEOREM WithoutItsScopesNothingIsCaptured ==
    ASSUME PolicyScopes # RequiredScopes
    PROVE  Spec => []NothingIsGranted
<1>1. Init => NothingIsGranted
  <2>1. NoTask.pc = "idle" /\ NoTask.capture = "off"
    BY DEF NoTask
  <2>2. Init => \A s \in Session : task[s] = NoTask
    BY DEF Init
  <2> QED BY <2>1, <2>2 DEF NothingIsGranted
<1>2. HostInv /\ NothingIsGranted /\ [Next]_vars => NothingIsGranted'
  <2> SUFFICES ASSUME HostInv, NothingIsGranted, [Next]_vars, NEW s \in Session
               PROVE  task'[s].pc \notin {"answering", "streaming"} /\ task'[s].capture = "off"
    BY DEF NothingIsGranted
  <2>1. /\ task \in [Session -> Task]
        /\ \A r \in Session :
              task[r].pc \notin {"answering", "streaming"} /\ task[r].capture = "off"
    BY DEF HostInv, ClockInv, NothingIsGranted
  <2>2. CASE Tick
    BY <2>1, <2>2 DEF Tick, Aged
  <2>3. CASE task' = task
    BY <2>1, <2>3
  <2>4. ASSUME NEW r \in Session,
               \/ FinishAccept(r) \/ Proceeds(r) \/ Renew(r)
               \/ BeginCapture(r) \/ StartCapture(r) \/ StopCapture(r)
        PROVE  task'[s].pc \notin {"answering", "streaming"} /\ task'[s].capture = "off"
    <3>1. CASE FinishAccept(r)
      BY <2>1, <3>1 DEF FinishAccept, Task
    <3>2. CASE Prepare(r) \/ Offer(r) \/ CloseHost(r) \/ EndTask(r)
      BY <2>1, <3>2 DEF Prepare, Offer, CloseHost, EndTask, Goes, Task
    <3>3. CASE PollRoom(r) \/ HearPoll(r)
      BY <2>1, <3>3 DEF PollRoom, HearPoll, Verified, Goes, Task
    <3> QED BY <2>1, <2>4, <3>1, <3>2, <3>3 DEF Proceeds, AnswerHost, HearRenewal, LeaveStream,
                                                BeginCapture, StartCapture, StopCapture, Renew
  <2> QED BY <2>2, <2>3, <2>4, CommandsKeepTasks DEF Next, vars
<1> QED BY <1>1, <1>2, HostInvariant, PTL DEF Spec

==============================================================================
