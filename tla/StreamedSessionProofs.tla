------------------------ MODULE StreamedSessionProofs ------------------------
(***************************************************************************)
(* What holds of the frame worker, of the sizes it encodes and of a        *)
(* streamed trial, for every size of screen, depth of queue, length of a   *)
(* lease and limit of a write.                                             *)
(***************************************************************************)
EXTENDS StreamedSession, TLAPS

------------------------------------------------------------------------------
(* Sizes *)

\* A quotient is no larger than what the dividend is a multiple of.
LEMMA QuotientBound ==
    ASSUME NEW a \in Nat, NEW b \in Nat \ {0}, NEW c \in Nat, a <= c * b
    PROVE  a \div b \in 0 .. c
<1> DEFINE q == a \div b
           r == a % b
<1>1. /\ q \in Nat /\ r \in 0 .. b - 1
      /\ a = b * q + r
  BY SMT
<1>2. SUFFICES ASSUME q > c PROVE FALSE
  BY <1>1
<1> HIDE DEF q, r
<1>3. b * q >= b * (c + 1)
  BY <1>1, <1>2, Z3
<1>4. b * (c + 1) = c * b + b
  BY Z3
<1> QED BY <1>1, <1>3, <1>4, Z3

\* A share of a limit stays within it, even if a whole one loses a pixel.
LEMMA ShareFits ==
    ASSUME NEW n \in Nat \ {0}, NEW limit \in Nat \ {0}, NEW whole \in Nat \ {0},
           NEW top \in Nat, n * limit <= top * whole
    PROVE  \A k \in Share(n, limit, whole) : k \in Nat /\ k <= top
<1> DEFINE a == n * limit
<1>1. a \in Nat \ {0} /\ a <= top * whole
  BY Z3
<1>2. Share(n, limit, whole) =
        {a \div whole} \cup IF a % whole = 0 THEN {a \div whole - 1} ELSE {}
  BY DEF Share
<1> HIDE DEF a
<1>3. a \div whole \in Nat /\ a \div whole <= top
  BY <1>1, QuotientBound
<1>4. a % whole = 0 => a \div whole # 0
  BY <1>1
<1> QED BY <1>2, <1>3, <1>4

\* Rounding to an even number, two at least, stays within an even limit.
LEMMA EvenUpFits ==
    ASSUME NEW top \in Nat, top >= 2, top % 2 = 0, NEW k \in Nat, k <= top
    PROVE  EvenUp(k) \in Nat /\ EvenUp(k) >= 2 /\ EvenUp(k) <= top /\ EvenUp(k) % 2 = 0
  BY DEF EvenUp

\* Columns stay within 1280 and rows within 720.
LEMMA ScaledFits ==
    ASSUME NEW w \in Nat \ {0}, NEW h \in Nat \ {0}
    PROVE  /\ \A k \in Scaled(w, w, h) : k \in Nat /\ k <= 1280
           /\ \A k \in Scaled(h, w, h) : k \in Nat /\ k <= 720
<1>1. CASE w <= 1280 /\ h <= 720
  <2>1. Scaled(w, w, h) = {w} /\ Scaled(h, w, h) = {h}
    BY <1>1 DEF Scaled
  <2> QED BY <1>1, <2>1
<1>2. CASE ~(w <= 1280 /\ h <= 720) /\ 1280 * h <= 720 * w
  <2>1. w * 1280 <= 1280 * w
    BY <1>2
  <2>1b. h * 1280 <= 720 * w
    BY <1>2
  <2>2. \A k \in Share(w, 1280, w) : k \in Nat /\ k <= 1280
    BY <2>1, ShareFits
  <2>3. \A k \in Share(h, 1280, w) : k \in Nat /\ k <= 720
    BY <2>1b, ShareFits
  <2>4. Scaled(w, w, h) = Share(w, 1280, w) /\ Scaled(h, w, h) = Share(h, 1280, w)
    BY <1>2 DEF Scaled
  <2> QED BY <2>2, <2>3, <2>4
<1>3. CASE ~(w <= 1280 /\ h <= 720) /\ ~(1280 * h <= 720 * w)
  <2> DEFINE short == 720
             long == 1280
  <2>1. /\ short \in Nat \ {0} /\ long \in Nat /\ short \in Nat
        /\ w * short <= long * h /\ h * short <= short * h
    BY <1>3
  <2> HIDE DEF short, long
  <2>2. \A k \in Share(w, short, h) : k \in Nat /\ k <= long
    BY <2>1, ShareFits
  <2>3. \A k \in Share(h, short, h) : k \in Nat /\ k <= short
    BY <2>1, ShareFits
  <2>4. Scaled(w, w, h) = Share(w, short, h) /\ Scaled(h, w, h) = Share(h, short, h)
    BY <1>3 DEF Scaled, short
  <2> QED BY <2>2, <2>3, <2>4, Z3 DEF short, long
<1> QED BY <1>1, <1>2, <1>3

LEMMA ScaledSome ==
    ASSUME NEW n, NEW w, NEW h
    PROVE  \E k : k \in Scaled(n, w, h)
<1>1. \/ Scaled(n, w, h) = {n}
      \/ Scaled(n, w, h) = Share(n, 1280, w)
      \/ Scaled(n, w, h) = Share(n, 720, h)
  BY DEF Scaled
<1>2. ASSUME NEW limit, NEW whole
      PROVE  (n * limit) \div whole \in Share(n, limit, whole)
  BY Zenon DEF Share
<1> QED BY <1>1, <1>2

\* Every supported screen, whatever its shape and however the float rounds, is
\* scaled to a size that the encoder and the conversion take.
THEOREM SizesFit ==
    ASSUME NEW s \in Screen, Supported(s[1], s[2])
    PROVE  /\ Dimensions(s[1], s[2]) # {}
           /\ \A d \in Dimensions(s[1], s[2]) : Accepted(d)
<1> DEFINE w == s[1]
           h == s[2]
<1>1. w \in Nat \ {0} /\ h \in Nat \ {0}
  BY WorkerAssumption
<1>2. Dimensions(w, h) = {<<EvenUp(a), EvenUp(b)>> : a \in Scaled(w, w, h), b \in Scaled(h, w, h)}
  BY DEF Dimensions
<1> HIDE DEF w, h
<1>3. Dimensions(w, h) # {}
  <2>1. PICK a : a \in Scaled(w, w, h)
    BY ScaledSome, Zenon
  <2>2. PICK b : b \in Scaled(h, w, h)
    BY ScaledSome, Zenon
  <2>3. <<EvenUp(a), EvenUp(b)>> \in Dimensions(w, h)
    BY <1>2, <2>1, <2>2
  <2> QED BY <2>3
<1>4. ASSUME NEW a \in Scaled(w, w, h), NEW b \in Scaled(h, w, h)
      PROVE  Accepted(<<EvenUp(a), EvenUp(b)>>)
  <2>1. EvenUp(a) \in Nat /\ EvenUp(a) >= 2 /\ EvenUp(a) <= 1280 /\ EvenUp(a) % 2 = 0
    BY <1>1, ScaledFits, EvenUpFits
  <2>2. EvenUp(b) \in Nat /\ EvenUp(b) >= 2 /\ EvenUp(b) <= 720 /\ EvenUp(b) % 2 = 0
    BY <1>1, ScaledFits, EvenUpFits
  <2> QED BY <2>1, <2>2 DEF Accepted
<1> QED BY <1>2, <1>3, <1>4 DEF w, h

\* The conversion reads inside the screen: row and column stay below the
\* screen's, for every pixel of the picture.
THEOREM ReadsStayInside ==
    ASSUME NEW from \in Nat \ {0}, NEW to \in Nat \ {0}, NEW k \in 0 .. to - 1
    PROVE  Source(k, from, to) \in 0 .. from - 1
<1> DEFINE q == (k * from) \div to
           r == (k * from) % to
<1>1. k * from \in Nat /\ k * from <= (to - 1) * from
  BY Z3
<1>2. (to - 1) * from = to * from - from
  BY Z3
<1>3. q \in Nat /\ r \in 0 .. to - 1 /\ k * from = to * q + r
  BY <1>1
<1>4. SUFFICES ASSUME q >= from PROVE FALSE
  BY <1>3 DEF Source
<1> HIDE DEF q, r
<1>5. to * q >= to * from
  BY <1>3, <1>4, Z3
<1> QED BY <1>1, <1>2, <1>3, <1>5, Z3

\* And it writes inside its buffer of w * h * 3 / 2 bytes: both chroma bytes of
\* every block of two by two.
THEOREM WritesStayInside ==
    ASSUME NEW w \in Nat \ {0}, NEW h \in Nat \ {0}, w % 2 = 0, h % 2 = 0,
           NEW x \in 0 .. w - 1, NEW y \in 0 .. h - 1, x % 2 = 0, y % 2 = 0
    PROVE  /\ w * h <= ChromaAt(x, y, w, h)
           /\ ChromaAt(x, y, w, h) + 1 < (w * h * 3) \div 2
<1> DEFINE m == h \div 2
           j == y \div 2
<1>1. m \in Nat /\ j \in Nat /\ h = 2 * m /\ j + 1 <= m /\ x + 2 <= w
  OBVIOUS
<1> HIDE DEF m, j
<1>2. (j + 1) * w <= m * w /\ (j + 1) * w = j * w + w /\ j * w \in Nat /\ m * w \in Nat
  BY <1>1, Z3
<1>3. w * h = 2 * (m * w)
  BY <1>1, Z3
<1>4. (w * h * 3) \div 2 = 3 * (m * w)
  BY <1>2, <1>3
<1>5. ChromaAt(x, y, w, h) = w * h + j * w + x
  BY DEF ChromaAt, j
<1> QED BY <1>1, <1>2, <1>3, <1>4, <1>5

------------------------------------------------------------------------------
(* The frame worker *)

\* A worker about to send has something to send, the flag and the receiver live
\* as long as the stream does, and nothing works before it starts.
Coupled ==
    /\ worker.pc \in {"sending", "blocked"} => worker.pending > 0
    /\ Streaming => live /\ open
    /\ stream.pc = "off" => worker.pc = "off" /\ overdue = 0 /\ stream.result = "none"

\* Time without authority is time spent in the write that was under way.
Late ==
    /\ Authorised => overdue = 0
    /\ stream.pc = "writing" => overdue <= stream.age
    /\ RevocationIsPrompt

\* Whoever lacks authority has lost it, and a worker that left for another
\* reason has put that reason into the queue.
Blamed ==
    /\ stream.pc # "off" /\ ~Authorised => lapsed
    /\ Streaming /\ worker.pc = "gone" =>
          lapsed \/ \E i \in 1 .. Len(queue) : queue[i] = "error"
    /\ QuietEndsAreDeserved

WorkerInv == TypeOK /\ Coupled /\ Late /\ Blamed

LEMMA WorkerInvInit == Init => WorkerInv
<1> SUFFICES ASSUME Init PROVE WorkerInv
  OBVIOUS
<1> USE WorkerAssumption DEF Init
<1>1. worker \in Worker /\ stream \in Stream
  BY DEF Worker, Stream, WorkerPc, StreamPc, NoWorker
<1>2. TypeOK
  <2>1. queue \in Seq({"frame", "error"}) /\ Len(queue) = 0
    OBVIOUS
  <2>2. lease \in 0 .. Life /\ Depth >= 0 /\ overdue \in Nat
    OBVIOUS
  <2> QED BY <1>1, <2>1, <2>2 DEF TypeOK
<1>3. Coupled /\ Late /\ Blamed
  BY DEF Coupled, Late, Blamed, NoWorker, Streaming, Authorised, RevocationIsPrompt, QuietEndsAreDeserved
<1> QED BY <1>2, <1>3 DEF WorkerInv

\* A step of the worker that leaves the queue alone: whatever it becomes, it has
\* something to send if it is sending, and a quiet leave has a reason.
LEMMA WorksKeeps ==
    ASSUME WorkerInv, NEW w \in Worker, Works(w),
           worker.pc # "off",
           w.pc \in {"sending", "blocked"} => w.pending > 0,
           w.pc = "gone" => ~(live /\ open) \/ ~Authorised
    PROVE  WorkerInv'
<1> USE DEF Works, WorkerInv
<1>1. TypeOK'
  BY DEF TypeOK
<1>2. Coupled'
  BY DEF Coupled, Streaming
<1>3. Late'
  BY DEF Late, RevocationIsPrompt, Streaming, Authorised
<1>4. Blamed'
  BY DEF Blamed, Coupled, QuietEndsAreDeserved, Streaming, Authorised
<1> QED BY <1>1, <1>2, <1>3, <1>4

\* A step of the worker that puts something into the queue.
LEMMA PutsKeeps ==
    ASSUME WorkerInv, NEW w \in Worker, NEW item \in {"frame", "error"}, Puts(item, w),
           worker.pc # "off",
           w.pc \in {"sending", "blocked"} => w.pending > 0,
           w.pc = "gone" => item = "error"
    PROVE  WorkerInv'
<1> USE DEF Puts, WorkerInv
<1>1. /\ queue \in Seq({"frame", "error"}) /\ queue' \in Seq({"frame", "error"})
      /\ Len(queue') = Len(queue) + 1 /\ Len(queue) \in Nat
      /\ queue'[Len(queue) + 1] = item
  BY DEF TypeOK
<1>2. TypeOK'
  BY <1>1, WorkerAssumption DEF TypeOK
<1>3. Coupled'
  BY DEF Coupled, Streaming
<1>4. Late'
  BY DEF Late, RevocationIsPrompt, Streaming, Authorised
<1>5. w.pc = "gone" => \E i \in 1 .. Len(queue') : queue'[i] = "error"
  BY <1>1
<1>6. Blamed'
  BY <1>5 DEF Blamed, QuietEndsAreDeserved, Streaming, Authorised
<1> QED BY <1>2, <1>3, <1>4, <1>6

\* What the worker may become is a worker.
LEMMA WorkersAreWorkers ==
    ASSUME worker \in Worker
    PROVE  /\ \A pc \in WorkerPc : At(pc) \in Worker /\ At(pc).pc = pc /\ At(pc).pending = worker.pending
           /\ \A pc \in WorkerPc : Left(pc) \in Worker /\ Left(pc).pc = pc
  BY WorkerAssumption DEF Worker, At, Left, NoWorker

LEMMA WorkerStepsKeep == ASSUME WorkerInv, WorkerSteps PROVE WorkerInv'
<1>1. worker \in Worker /\ worker.pc \in WorkerPc
  BY DEF WorkerInv, TypeOK, Worker
<1> USE <1>1, WorkersAreWorkers, WorksKeeps DEF WorkerPc
<1>2. CASE BeginWork
  BY <1>2 DEF BeginWork, Valid
<1>3. CASE OpenScreen
  BY <1>3 DEF OpenScreen
<1>4. CASE Grab
  <2>1. ASSUME NEW s \in Screen
        PROVE  LET w == [worker EXCEPT !.pc = "holding", !.frame = s]
               IN  w \in Worker /\ w.pc = "holding"
    BY DEF Worker
  <2> QED BY <1>4, <2>1 DEF Grab, Valid
<1>5. CASE Process
  <2>1. CASE worker.frame # NoScreen /\ Encode
    <3>1. CASE Works(Left("failing"))
      BY <1>5, <3>1 DEF Process
    <3>2. ASSUME NEW n \in 0 .. MaxOutputs,
                 Works([pc |-> IF n = 0 THEN "looping" ELSE "sending",
                        frame |-> worker.frame, coded |-> worker.frame, pending |-> n])
          PROVE  WorkerInv'
      <4> DEFINE w == [pc |-> IF n = 0 THEN "looping" ELSE "sending",
                       frame |-> worker.frame, coded |-> worker.frame, pending |-> n]
      <4>1. w \in Worker /\ (w.pc \in {"sending", "blocked"} => w.pending > 0) /\ w.pc # "gone"
        BY WorkerAssumption DEF Worker
      <4>2. Works(w) /\ worker.pc # "off"
        BY <1>5, <3>2 DEF Process
      <4> HIDE DEF w
      <4> QED BY <4>1, <4>2
    <3> QED BY <2>1, <3>1, <3>2 DEF Encode
  <2>2. CASE ~Valid /\ Works(Left("gone"))
    BY <1>5, <2>2 DEF Process, Valid
  <2>3. CASE Works(At("looping")) \/ Works(Left("failing"))
    BY <1>5, <2>3 DEF Process
  <2> QED BY <1>5, <2>1, <2>2, <2>3 DEF Process
<1>6. CASE CheckOutput
  <2>1. worker.pc = "sending" /\ worker.pending > 0
    BY <1>6 DEF CheckOutput, WorkerInv, Coupled
  <2> QED BY <1>6, <2>1 DEF CheckOutput, Valid
<1>7. CASE SendOutput
  <2> DEFINE w == [pc |-> IF worker.pending = 1 THEN "looping" ELSE "sending",
                   frame |-> worker.frame, coded |-> worker.coded,
                   pending |-> worker.pending - 1]
  <2>1. worker.pc = "blocked" /\ worker.pending > 0
    BY <1>7 DEF SendOutput, WorkerInv, Coupled
  <2>2. w \in Worker /\ (w.pc \in {"sending", "blocked"} => w.pending > 0) /\ w.pc # "gone"
    BY <2>1, WorkerAssumption DEF Worker
  <2>3. (~open /\ Works(Left("gone"))) \/ Puts("frame", w)
    BY <1>7 DEF SendOutput
  <2> HIDE DEF w
  <2> QED BY <2>1, <2>2, <2>3, PutsKeeps
<1>8. CASE Report
  BY <1>8, PutsKeeps DEF Report
<1> QED BY <1>2, <1>3, <1>4, <1>5, <1>6, <1>7, <1>8 DEF WorkerSteps

\* The loop is left.
LEMMA EndsKeep ==
    ASSUME WorkerInv, NEW pc \in {"closing", "done"},
           NEW result \in {"ok", "failed", "aborted"}, Ends(pc, result),
           stream.pc # "off",
           result = "ok" => lapsed
    PROVE  WorkerInv'
<1> USE DEF Ends, WorkerInv
<1>1. stream' \in Stream
  BY WorkerAssumption DEF Stream, StreamPc
<1>2. TypeOK'
  <2>1. queue' \in Seq({"frame", "error"}) /\ Len(queue') = 0 /\ Depth >= 0
    BY WorkerAssumption
  <2>2. UNCHANGED <<stop, lease, worker, lapsed, overdue>> /\ {live', open'} \subseteq BOOLEAN
    OBVIOUS
  <2> QED BY <1>1, <2>1, <2>2 DEF TypeOK
<1>3. Coupled'
  BY DEF Coupled, Streaming
<1>4. Late'
  BY DEF Late, RevocationIsPrompt, Streaming, Authorised
<1>5. Blamed'
  BY DEF Blamed, QuietEndsAreDeserved, Streaming, Authorised
<1> QED BY <1>2, <1>3, <1>4, <1>5

LEMMA StreamStepsKeep == ASSUME WorkerInv, StreamSteps PROVE WorkerInv'
<1>1. /\ stream \in Stream /\ stream.pc \in StreamPc /\ stream.age \in 0 .. WriteLimit
      /\ queue \in Seq({"frame", "error"}) /\ overdue \in Nat
      /\ WriteLimit \in Nat
  BY WorkerAssumption DEF WorkerInv, TypeOK, Stream
<1>2. stream.pc # "off" /\ ~Authorised => lapsed
  BY DEF WorkerInv, Blamed
<1>3. CASE Receive
  <2>1. stream.pc = "selecting" /\ queue # <<>>
    BY <1>3 DEF Receive
  <2>2. CASE Ends("closing", "failed")
    BY <2>1, <2>2, EndsKeep
  <2>3. CASE ~Authorised /\ Ends("closing", "ok")
    BY <1>2, <2>1, <2>3, EndsKeep
  <2>4. CASE /\ Head(queue) = "frame" /\ Authorised
             /\ StreamIs("writing") /\ queue' = Tail(queue)
             /\ UNCHANGED <<stop, lease, live, open, worker, lapsed, overdue>>
    <3>1. stream' \in Stream /\ stream'.pc = "writing" /\ stream'.age = 0
          /\ stream'.result = stream.result
      BY <1>1, <2>4 DEF StreamIs, Stream, StreamPc
    <3>2. /\ queue' \in Seq({"frame", "error"}) /\ Len(queue') = Len(queue) - 1
          /\ Len(queue) \in Nat \ {0}
          /\ \A i \in 1 .. Len(queue') : queue'[i] = queue[i + 1]
      BY <1>1, <2>1, <2>4
    <3>3. TypeOK'
      BY <2>4, <3>1, <3>2, WorkerAssumption DEF WorkerInv, TypeOK
    <3>4. Coupled'
      BY <2>1, <2>4, <3>1 DEF WorkerInv, Coupled, Streaming
    <3>5. Late'
      BY <1>1, <2>4, <3>1 DEF WorkerInv, Late, RevocationIsPrompt, Streaming, Authorised
    <3>6. (\E i \in 1 .. Len(queue) : queue[i] = "error") =>
             \E i \in 1 .. Len(queue') : queue'[i] = "error"
      <4> SUFFICES ASSUME NEW i \in 1 .. Len(queue), queue[i] = "error"
                   PROVE  \E j \in 1 .. Len(queue') : queue'[j] = "error"
        OBVIOUS
      <4>1. i # 1
        BY <1>1, <2>1, <2>4
      <4>2. i - 1 \in 1 .. Len(queue') /\ queue'[i - 1] = queue[i]
        BY <3>2, <4>1
      <4> QED BY <4>2
    <3>7. Blamed'
      BY <2>1, <2>4, <3>1, <3>6 DEF WorkerInv, Blamed, QuietEndsAreDeserved, Streaming, Authorised
    <3> QED BY <3>3, <3>4, <3>5, <3>7 DEF WorkerInv
  <2> QED BY <1>3, <2>2, <2>3, <2>4 DEF Receive
<1>4. CASE Drained
  <2>1. lapsed
    BY <1>4 DEF Drained, WorkerInv, Blamed, Streaming
  <2> QED BY <1>4, <2>1, EndsKeep DEF Drained
<1>5. CASE LookUp
  BY <1>2, <1>5, EndsKeep DEF LookUp
<1>6. CASE Written
  <2>1. stream' \in Stream /\ stream'.pc = "selecting" /\ stream'.result = stream.result
    BY <1>1, <1>6 DEF Written, StreamIs, Stream, StreamPc
  <2>2. TypeOK'
    BY <1>6, <2>1 DEF WorkerInv, TypeOK, Written
  <2>3. Coupled' /\ Late' /\ Blamed'
    BY <1>6, <2>1 DEF WorkerInv, Coupled, Late, Blamed, RevocationIsPrompt,
                      QuietEndsAreDeserved, Written, Streaming, Authorised
  <2> QED BY <2>2, <2>3 DEF WorkerInv
<1>7. CASE WriteFails
  BY <1>7, EndsKeep DEF WriteFails
<1>8. CASE Closed
  <2>1. stream' \in Stream /\ stream'.pc = "done" /\ stream'.result = stream.result
        /\ stream.pc = "closing"
    BY <1>1, <1>8 DEF Closed, StreamIs, Stream, StreamPc
  <2>2. TypeOK'
    BY <1>8, <2>1 DEF WorkerInv, TypeOK, Closed
  <2>3. Coupled' /\ Late' /\ Blamed'
    BY <1>8, <2>1 DEF WorkerInv, Coupled, Late, Blamed, RevocationIsPrompt,
                      QuietEndsAreDeserved, Closed, Streaming, Authorised
  <2> QED BY <2>2, <2>3 DEF WorkerInv
<1> QED BY <1>3, <1>4, <1>5, <1>6, <1>7, <1>8 DEF StreamSteps

LEMMA HostStepsKeep ==
    ASSUME WorkerInv,
           \/ \E ticks \in 0 .. Life : Start(ticks) \/ Renew(ticks)
           \/ Stop \/ Abort
    PROVE  WorkerInv'
<1> USE DEF WorkerInv
<1>1. /\ stream \in Stream /\ stream.pc \in StreamPc /\ worker \in Worker
      /\ stream.result \in {"none", "ok", "failed", "aborted"}
  BY DEF TypeOK, Stream
<1>2. ASSUME NEW ticks \in 0 .. Life, Start(ticks) PROVE WorkerInv'
  <2>1. /\ stream' \in Stream /\ stream'.pc = "selecting" /\ stream'.result = stream.result
        /\ worker' \in Worker /\ worker'.pc = "queued" /\ stream.pc = "off"
    BY <1>1, <1>2, WorkersAreWorkers, WorkerAssumption DEF Start, StreamIs, Stream, StreamPc, WorkerPc
  <2>2. TypeOK'
    BY <1>2, <2>1 DEF TypeOK, Start
  <2>3. Coupled' /\ Late'
    BY <1>2, <2>1, WorkerAssumption
       DEF TypeOK, Coupled, Late, RevocationIsPrompt, Start, Streaming, Authorised
  <2>0. ticks > 0 \/ ticks = 0
    OBVIOUS
  <2>4. ~Authorised' => lapsed'
    BY <1>2, <2>0, Zenon DEF Start, Authorised
  <2>5. Blamed'
    BY <2>1, <2>4, Zenon DEF Blamed, Coupled, QuietEndsAreDeserved
  <2> QED BY <2>2, <2>3, <2>5
<1>3. ASSUME NEW ticks \in 0 .. Life, Renew(ticks) PROVE WorkerInv'
  <2>1. TypeOK'
    BY <1>3 DEF TypeOK, Renew
  <2>2. Coupled'
    BY <1>3 DEF Coupled, Renew, Streaming
  <2>4. ~Authorised' => ~Authorised \/ ticks = 0
    BY <1>3 DEF Renew, Authorised
  <2>5. Blamed'
    BY <1>3, <2>4, Zenon DEF Blamed, QuietEndsAreDeserved, Renew, Streaming
  <2>3. Late'
    BY <1>3, <1>1, WorkerAssumption
       DEF TypeOK, Stream, Late, RevocationIsPrompt, Renew, Streaming, Authorised
  <2> QED BY <2>1, <2>2, <2>3, <2>5
<1>4. CASE Stop
  <2>1. TypeOK'
    BY <1>4 DEF TypeOK, Stop
  <2>2. Coupled' /\ Blamed' /\ Late'
    BY <1>4 DEF Coupled, Blamed, Late, RevocationIsPrompt, QuietEndsAreDeserved, Stop,
                Streaming, Authorised
  <2> QED BY <2>1, <2>2
<1>5. CASE Abort
  <2> DEFINE result == IF stream.result = "none" THEN "aborted" ELSE stream.result
  <2>1. result \in {"ok", "failed", "aborted"} /\ (result = "ok" => lapsed)
    BY <1>1 DEF Blamed, QuietEndsAreDeserved
  <2>2. Ends("done", result) /\ stream.pc # "off"
    BY <1>5 DEF Abort, Streaming
  <2> HIDE DEF result
  <2> QED BY <2>1, <2>2, EndsKeep
<1> QED BY <1>2, <1>3, <1>4, <1>5

LEMMA TickKeeps == ASSUME WorkerInv, Tick PROVE WorkerInv'
<1> USE DEF WorkerInv
<1>1. /\ stream \in Stream /\ stream.pc \in StreamPc /\ stream.age \in 0 .. WriteLimit
      /\ lease \in 0 .. Life /\ overdue \in Nat /\ WriteLimit \in Nat /\ Life \in Nat
  BY WorkerAssumption DEF TypeOK, Stream
<1>2. /\ stream' \in Stream /\ stream'.pc = stream.pc /\ stream'.result = stream.result
      /\ stream'.age = IF stream.pc = "writing" THEN stream.age + 1 ELSE stream.age
  BY <1>1 DEF Tick, Stream
<1>3. TypeOK'
  BY <1>1, <1>2 DEF TypeOK, Tick
<1>4. Coupled'
  BY <1>2 DEF Coupled, Tick, Streaming
<1>5. Late'
  BY <1>1, <1>2 DEF Late, RevocationIsPrompt, Tick, Streaming, Authorised
<1>6. ~Authorised' => ~Authorised \/ lease <= 1
  BY <1>1 DEF Tick, Authorised
<1>7. Blamed'
  BY <1>2, <1>6, Zenon DEF Blamed, QuietEndsAreDeserved, Tick, Streaming
<1> QED BY <1>3, <1>4, <1>5, <1>7

LEMMA WorkerInvStep == WorkerInv /\ [Next]_workerVars => WorkerInv'
<1> SUFFICES ASSUME WorkerInv, [Next]_workerVars PROVE WorkerInv'
  OBVIOUS
<1>1. CASE UNCHANGED workerVars
  BY <1>1 DEF workerVars, WorkerInv, TypeOK, Coupled, Late, Blamed, RevocationIsPrompt,
              QuietEndsAreDeserved, Streaming, Authorised
<1> QED BY <1>1, WorkerStepsKeep, StreamStepsKeep, HostStepsKeep, TickKeeps DEF Next

\* For every screen, queue, lease and limit: the worker and its stream keep
\* their types, the queue its depth.
THEOREM WorkerTypeCorrect == Spec => []TypeOK
<1>1. WorkerInv => TypeOK
  BY DEF WorkerInv
<1> QED BY <1>1, WorkerInvInit, WorkerInvStep, PTL DEF Spec

\* A stop or the end of the lease is obeyed within the time of one write.
THEOREM RevocationIsAlwaysPrompt == Spec => []RevocationIsPrompt
<1>1. WorkerInv => RevocationIsPrompt
  BY DEF WorkerInv, Late
<1> QED BY <1>1, WorkerInvInit, WorkerInvStep, PTL DEF Spec

\* A quiet end means that authority had been lost.
THEOREM QuietEndsAreAlwaysDeserved == Spec => []QuietEndsAreDeserved
<1>1. WorkerInv => QuietEndsAreDeserved
  BY DEF WorkerInv, Blamed
<1> QED BY <1>1, WorkerInvInit, WorkerInvStep, PTL DEF Spec

\* Whatever screens there are and however they change, each frame the worker
\* gets of a supported one can be encoded.
THEOREM FramesAlwaysFit == Spec => []SupportedScreensFit
<1>1. TypeOK => SupportedScreensFit
  <2> SUFFICES ASSUME worker.frame \in Screen \cup {NoScreen}
               PROVE  SupportedScreensFit
    BY DEF TypeOK, Worker
  <2>1. CASE worker.frame = NoScreen
    BY <2>1 DEF SupportedScreensFit
  <2>2. CASE worker.frame \in Screen
    BY <2>2, SizesFit, Zenon DEF SupportedScreensFit
  <2> QED BY <2>1, <2>2
<1>2. WorkerInv => TypeOK
  BY DEF WorkerInv
<1> QED BY <1>1, <1>2, WorkerInvInit, WorkerInvStep, PTL DEF Spec

------------------------------------------------------------------------------
(* The whole trial *)

SessionTypes == room \in {"negotiating", "active", "ended"} /\ host \in Host /\ dark \in Nat

\* A reply on its way dies by the time the best grant of before the room's end would
\* have; the lease whose clock has not started lags behind by what host.answer has
\* taken so far, and a lease that runs by AnswerDelay at most; a write that began
\* before that ends one write later.
RoomClock ==
    /\ room # "ended" => dark = 0
    /\ room = "ended" => host.mail.left = 0 \/ host.mail.left + dark <= Life
    /\ room = "ended" => host.granted = 0 \/ host.granted + dark <= Life + (AnswerDelay - host.wait)
    /\ room = "ended" => lease = 0 \/ lease + dark <= Life + AnswerDelay
    /\ stream.pc = "writing" => dark < Life + AnswerDelay + stream.age
    /\ host.pc # "answering" => host.granted = 0

SessionInv == WorkerInv /\ SessionTypes /\ RoomClock

\* What the arithmetic below needs to know.
LEMMA SessionNumbers ==
    ASSUME SessionInv
    PROVE  /\ Life \in Nat \ {0} /\ WriteLimit \in Nat /\ lease \in 0 .. Life /\ dark \in Nat
           /\ stream.age \in 0 .. WriteLimit /\ host.mail.left \in 0 .. Life
           /\ AnswerDelay \in Nat /\ host.granted \in 0 .. Life /\ host.wait \in 0 .. AnswerDelay
  BY WorkerAssumption, AnswerAssumption DEF SessionInv, WorkerInv, TypeOK, Stream, SessionTypes, Host

\* The host has used what it heard, or thrown it away.
Emptied == /\ host' \in Host /\ host'.mail.left = 0
           /\ host'.granted = 0

\* The clock is kept by every step that leaves the lease and the history alone,
\* throws a reply away or keeps it, and begins no write.
LEMMA RoomClockKept ==
    ASSUME SessionInv, lease' = lease, dark' = dark,
           host' = host \/ Emptied,
           room' # "ended" => room # "ended",
           stream'.pc = "writing" => stream.pc = "writing" /\ stream'.age = stream.age
    PROVE  RoomClock'
<1>1. CASE room = "ended"
  BY <1>1, SessionNumbers DEF SessionInv, RoomClock, Emptied
<1>2. CASE room # "ended"
  BY <1>2, SessionNumbers DEF SessionInv, RoomClock, Emptied
<1> QED BY <1>1, <1>2

LEMMA SessionInvInit == SessionInit => SessionInv
<1> SUFFICES ASSUME SessionInit PROVE SessionInv
  OBVIOUS
<1>1. WorkerInv
  BY WorkerInvInit DEF SessionInit
<1>2. SessionTypes
  BY WorkerAssumption, AnswerAssumption DEF SessionInit, SessionTypes, Host, HostAt, NoMail
<1>3. RoomClock
  BY DEF SessionInit, RoomClock, Init, HostAt
<1> QED BY <1>1, <1>2, <1>3 DEF SessionInv

\* A host that has heard its reply has none.
LEMMA HostIsHost ==
    ASSUME NEW pc \in {"polling", "streaming", "closing", "ending", "done"}, HostIs(pc)
    PROVE  Emptied
  BY WorkerAssumption, AnswerAssumption DEF Emptied, HostIs, HostAt, Host, NoMail

\* Steps of one end that touch neither worker nor stream.
LEMMA QuietStep ==
    ASSUME SessionInv, UNCHANGED workerVars, dark' = dark,
           host' = host \/ Emptied,
           room' \in {"negotiating", "active", "ended"}, room' # "ended" => room # "ended"
    PROVE  SessionInv' /\ [Next]_workerVars
<1>1. WorkerInv'
  BY WorkerInvStep DEF SessionInv
<1>2. SessionTypes'
  BY DEF SessionInv, SessionTypes, Emptied
<1>3. RoomClock'
  BY RoomClockKept DEF workerVars
<1> QED BY <1>1, <1>2, <1>3 DEF SessionInv

\* Steps of the worker or of its stream other than the beginning of a write.
LEMMA WorkerMoves ==
    ASSUME SessionInv, Next, dark' = dark, lease' = lease, room' = room,
           host' = host \/ Emptied,
           stream'.pc = "writing" => stream.pc = "writing" /\ stream'.age = stream.age
    PROVE  SessionInv' /\ [Next]_workerVars
<1>1. WorkerInv'
  BY WorkerInvStep DEF SessionInv
<1>2. SessionTypes'
  BY DEF SessionInv, SessionTypes, Emptied
<1>3. RoomClock'
  BY RoomClockKept
<1> QED BY <1>1, <1>2, <1>3 DEF SessionInv

\* A lease that is set to what a reply carries, or to what was computed from one.
LEMMA LeaseFromReply ==
    ASSUME SessionInv, Next, dark' = dark, room' = room,
           lease' \in {host.mail.left, host.granted},
           Emptied,
           stream'.pc = "writing" => stream.pc = "writing" /\ stream'.age = stream.age
    PROVE  SessionInv' /\ [Next]_workerVars
<1>1. WorkerInv'
  BY WorkerInvStep DEF SessionInv
<1>2. SessionTypes'
  BY DEF SessionInv, SessionTypes, Emptied
<1>3. RoomClock'
  BY SessionNumbers DEF SessionInv, RoomClock, Emptied
<1> QED BY <1>1, <1>2, <1>3 DEF SessionInv

LEMMA HostMoves ==
    ASSUME SessionInv, Ask \/ LeaveLoop \/ HostAborts \/ UserStops \/ HostSteps
    PROVE  SessionInv' /\ [Next]_workerVars
<1>1. room \in {"negotiating", "active", "ended"} /\ host.mail.left \in 0 .. Life
  BY SessionNumbers DEF SessionInv, SessionTypes
<1>2. CASE Ask
  <2>1. PICK reply \in Snapshots \cup {[phase |-> "lost", left |-> 0]} :
           host' = [host EXCEPT !.mail = reply]
    BY <1>2 DEF Ask
  <2>2. host \in Host /\ host.pc \in {"polling", "streaming"}
    BY <1>2 DEF Ask, SessionInv, SessionTypes
  <2>3. /\ reply \in [phase : {"none", "lost", "negotiating", "active", "ended"}, left : 0 .. Life]
        /\ room = "ended" => reply.left = 0
    BY <1>1, <2>1, WorkerAssumption DEF Snapshots
  <2>4. /\ host' \in Host /\ host'.mail = reply
        /\ host'.granted = host.granted /\ host'.wait = host.wait /\ host'.pc = host.pc
    BY <2>1, <2>2, <2>3 DEF Host
  <2>5. UNCHANGED workerVars /\ UNCHANGED <<room, dark>>
    BY <1>2 DEF Ask
  <2>6. WorkerInv'
    BY <2>5, WorkerInvStep DEF SessionInv
  <2>7. SessionTypes'
    BY <2>4, <2>5 DEF SessionInv, SessionTypes
  <2>8. RoomClock'
    BY <2>3, <2>4, <2>5, SessionNumbers DEF SessionInv, RoomClock, workerVars
  <2> QED BY <2>5, <2>6, <2>7, <2>8 DEF SessionInv
<1>3. CASE LeaveLoop
  BY <1>1, <1>3, HostIsHost, QuietStep DEF LeaveLoop
<1>4. CASE HostAborts
  <2>1. Next /\ lease' = lease /\ stream'.pc = "done" /\ UNCHANGED <<room, host, dark>>
    BY <1>4 DEF HostAborts, Abort, Ends, Next
  <2> QED BY <2>1, WorkerMoves
<1>5. CASE UserStops
  <2>1. Next /\ lease' = lease /\ stream' = stream /\ UNCHANGED <<room, host, dark>>
    BY <1>5 DEF UserStops, Stop, Next
  <2> QED BY <2>1, WorkerMoves
<1>6. CASE HearPoll
  <2>1. CASE /\ host' = [HostAt("answering") EXCEPT !.granted = host.mail.left, !.wait = AnswerDelay]
             /\ UNCHANGED <<workerVars, room, dark>>
    <3>1. /\ host' \in Host /\ host'.pc = "answering" /\ host'.mail.left = 0
          /\ host'.granted = host.mail.left /\ host'.wait = AnswerDelay
      <4>1. host' = [pc |-> "answering", mail |-> NoMail,
                     granted |-> host.mail.left, wait |-> AnswerDelay]
        BY <2>1 DEF HostAt
      <4>2. NoMail \in [phase : {"none", "lost", "negotiating", "active", "ended"}, left : 0 .. Life]
            /\ NoMail.left = 0
        BY WorkerAssumption DEF NoMail
      <4>3. AnswerDelay \in 0 .. AnswerDelay
        BY AnswerAssumption
      <4> QED BY <1>1, <4>1, <4>2, <4>3 DEF Host
    <3>2. WorkerInv'
      BY <2>1, WorkerInvStep DEF SessionInv
    <3>3. SessionTypes'
      BY <2>1, <3>1 DEF SessionInv, SessionTypes
    <3>4. RoomClock'
      <4> DEFINE left == host.mail.left
      <4>1. /\ room # "ended" => dark = 0
            /\ room = "ended" => left = 0 \/ left + dark <= Life
            /\ room = "ended" => lease = 0 \/ lease + dark <= Life + AnswerDelay
            /\ stream.pc = "writing" => dark < Life + AnswerDelay + stream.age
        BY DEF SessionInv, RoomClock
      <4>2. left \in Int /\ dark \in Int /\ Life \in Int /\ AnswerDelay \in Int
        BY SessionNumbers
      <4>3. room = "ended" => left = 0 \/ left + dark <= Life + (AnswerDelay - AnswerDelay)
        BY <4>1, <4>2
      <4> HIDE DEF left
      <4>4. /\ UNCHANGED <<room, dark, lease, stream>>
            /\ host'.granted = left /\ host'.wait = AnswerDelay
        BY <2>1, <3>1 DEF workerVars, left
      <4> QED BY <3>1, <4>1, <4>3, <4>4 DEF RoomClock
    <3> QED BY <2>1, <3>2, <3>3, <3>4 DEF SessionInv
  <2>2. CASE /\ HostIs("closing") \/ HostIs("polling")
             /\ UNCHANGED workerVars /\ UNCHANGED <<room, viewer, helper, inbox, dark>>
    BY <1>1, <2>2, HostIsHost, QuietStep
  <2> QED BY <1>6, <2>1, <2>2 DEF HearPoll, Granted
<1>7. CASE AnswerHost
  <2>1. CASE /\ HostIs("streaming") /\ UNCHANGED <<room, viewer, helper, inbox, dark>>
             /\ Start(host.granted)
    <3>1. host.granted \in 0 .. Life
      BY SessionNumbers
    <3>2. Next /\ lease' = host.granted /\ stream'.pc = "selecting"
      BY <2>1, <3>1 DEF Next, Start, StreamIs
    <3> QED BY <2>1, <3>2, HostIsHost, LeaseFromReply
  <2>2. CASE /\ HostIs("closing")
             /\ UNCHANGED workerVars /\ UNCHANGED <<room, viewer, helper, inbox, dark>>
    BY <1>1, <2>2, HostIsHost, QuietStep
  <2> QED BY <1>7, <2>1, <2>2 DEF AnswerHost
<1>8. CASE HearRenewal
  <2>1. CASE /\ HostIs("streaming") /\ UNCHANGED <<room, viewer, helper, inbox, dark>>
             /\ \E ticks \in Granted(host.mail.left) : Renew(ticks)
    <3>1. Renew(host.mail.left)
      BY <2>1 DEF Granted
    <3>2. Next /\ lease' = host.mail.left /\ stream' = stream
      BY <1>1, <3>1 DEF Next, Renew
    <3> QED BY <2>1, <3>2, HostIsHost, LeaseFromReply
  <2>2. CASE /\ HostIs("closing") \/ HostIs("streaming")
             /\ UNCHANGED workerVars /\ UNCHANGED <<room, viewer, helper, inbox, dark>>
    BY <1>1, <2>2, HostIsHost, QuietStep
  <2> QED BY <1>8, <2>1, <2>2 DEF HearRenewal
<1>9. CASE GiveUp
  BY <1>1, <1>9, HostIsHost, QuietStep DEF GiveUp
<1>10. CASE HostCloses
  <2>1. Emptied /\ UNCHANGED <<room, dark>>
    BY <1>10, HostIsHost DEF HostCloses
  <2>2. CASE UNCHANGED workerVars
    BY <1>1, <2>1, <2>2, QuietStep
  <2>3. CASE Stop
    <3>1. Next /\ lease' = lease /\ stream' = stream
      BY <2>3 DEF Stop, Next
    <3> QED BY <2>1, <3>1, WorkerMoves
  <2> QED BY <1>10, <2>2, <2>3 DEF HostCloses
<1>11. CASE HostEnds
  BY <1>1, <1>11, HostIsHost, QuietStep DEF HostEnds
<1> QED BY <1>2, <1>3, <1>4, <1>5, <1>6, <1>7, <1>8, <1>9, <1>10, <1>11 DEF HostSteps

LEMMA ViewerMoves ==
    ASSUME SessionInv, RoomEnds \/ TakeUnit \/ WriteUnit \/ HelperExits \/ ViewerSteps
    PROVE  SessionInv' /\ [Next]_workerVars
<1>1. room \in {"negotiating", "active", "ended"}
  BY DEF SessionInv, SessionTypes
<1>2. UNCHANGED workerVars /\ UNCHANGED <<host, dark>>
  BY DEF RoomEnds, TakeUnit, WriteUnit, HelperExits, ViewerSteps, AwaitOffer, Answer,
         WriteBreaks, StopReceiving, ViewerEnds
<1>3. room' \in {"negotiating", "active", "ended"} /\ (room' # "ended" => room # "ended")
  BY <1>1 DEF RoomEnds, TakeUnit, WriteUnit, HelperExits, ViewerSteps, AwaitOffer, Answer,
              WriteBreaks, StopReceiving, ViewerEnds
<1> QED BY <1>2, <1>3, QuietStep

LEMMA MediaMoves ==
    ASSUME SessionInv, Captures \/ Streams \/ Arrives
    PROVE  SessionInv' /\ [Next]_workerVars
<1>1. UNCHANGED <<room, host, dark>> /\ Next
  BY DEF Captures, Streams, Arrives, Next, StreamSteps
<1>2. lease' = lease
  BY DEF Captures, Streams, Arrives, WorkerSteps, BeginWork, OpenScreen, Grab, Process, Encode,
         CheckOutput, SendOutput, Report, Works, Puts,
         Receive, Drained, LookUp, WriteFails, Closed, Written, Ends
<1>3. CASE Captures
  <2>1. stream' = stream
    BY <1>3 DEF Captures, WorkerSteps, BeginWork, OpenScreen, Grab, Process, Encode,
         CheckOutput, SendOutput, Report, Works, Puts
  <2> QED BY <1>1, <1>2, <2>1, WorkerMoves
<1>4. CASE Arrives \/ Drained \/ LookUp \/ WriteFails \/ Closed
  <2>1. stream'.pc # "writing"
    BY <1>4 DEF Arrives, Drained, LookUp, WriteFails, Closed, Written, Ends, StreamIs
  <2> QED BY <1>1, <1>2, <2>1, WorkerMoves
<1>5. CASE Receive
  <2>1. CASE stream'.pc # "writing"
    BY <1>1, <1>2, <2>1, WorkerMoves
  <2>2. CASE StreamIs("writing") /\ Authorised
    <3>1. stream'.pc = "writing" /\ stream'.age = 0 /\ lease > 0
      BY <2>2 DEF StreamIs, Authorised
    <3>2. RoomClock'
      BY <1>1, <1>2, <3>1, SessionNumbers DEF SessionInv, RoomClock
    <3>3. WorkerInv' /\ SessionTypes'
      BY <1>1, WorkerInvStep DEF SessionInv, SessionTypes
    <3> QED BY <1>1, <3>2, <3>3 DEF SessionInv
  <2> QED BY <1>5, <2>1, <2>2 DEF Receive, Ends
<1> QED BY <1>3, <1>4, <1>5 DEF Streams

LEMMA TimeMoves ==
    ASSUME SessionInv, Passes
    PROVE  SessionInv' /\ [Next]_workerVars
<1>1. Next
  BY DEF Passes, Next
<1>2. WorkerInv'
  BY <1>1, WorkerInvStep DEF SessionInv
<1>3. /\ host \in Host
      /\ host' = [host EXCEPT !.mail.left = IF @ > 0 THEN @ - 1 ELSE 0,
                              !.wait = IF @ > 0 THEN @ - 1 ELSE 0]
  BY DEF Passes, SessionInv, SessionTypes
<1>4. /\ host' \in Host /\ host'.mail.left = IF host.mail.left > 0 THEN host.mail.left - 1 ELSE 0
      /\ host'.pc = host.pc /\ host'.granted = host.granted
      /\ host'.wait = IF host.wait > 0 THEN host.wait - 1 ELSE 0
  <2> DEFINE left == IF host.mail.left > 0 THEN host.mail.left - 1 ELSE 0
             wait == IF host.wait > 0 THEN host.wait - 1 ELSE 0
             mail == [host.mail EXCEPT !.left = left]
  <2>1. left \in 0 .. Life /\ wait \in 0 .. AnswerDelay
    BY SessionNumbers
  <2>2. host' = [host EXCEPT !.mail = mail, !.wait = wait]
    BY <1>3
  <2>3. mail \in [phase : {"none", "lost", "negotiating", "active", "ended"}, left : 0 .. Life]
        /\ mail.left = left
    BY <1>3, <2>1 DEF Host
  <2> HIDE DEF left, wait, mail
  <2>4. /\ host' \in Host /\ host'.mail = mail /\ host'.wait = wait
        /\ host'.pc = host.pc /\ host'.granted = host.granted
    BY <1>3, <2>1, <2>2, <2>3 DEF Host
  <2> QED BY <2>3, <2>4 DEF left, wait
<1>5. host.granted # 0 => host.wait > 0
  BY DEF Passes, SessionInv, RoomClock
<1>6. /\ room' = room
      /\ dark' = IF room = "ended" /\ dark < Forget THEN dark + 1 ELSE dark
      /\ lease' = IF lease > 0 THEN lease - 1 ELSE 0
      /\ stream'.pc = stream.pc
      /\ stream'.age = IF stream.pc = "writing" THEN stream.age + 1 ELSE stream.age
  BY DEF Passes, Tick, SessionInv, WorkerInv, TypeOK, Stream
<1>7. SessionTypes'
  BY <1>4, <1>6, SessionNumbers DEF SessionInv, SessionTypes
<1>8. RoomClock'
  BY <1>4, <1>6, <1>5, SessionNumbers DEF SessionInv, RoomClock
<1> QED BY <1>1, <1>2, <1>7, <1>8 DEF SessionInv

LEMMA SessionInvStep ==
    SessionInv /\ [SessionNext]_sessionVars => SessionInv' /\ [Next]_workerVars
<1> SUFFICES ASSUME SessionInv, [SessionNext]_sessionVars
             PROVE  SessionInv' /\ [Next]_workerVars
  OBVIOUS
<1>1. CASE UNCHANGED sessionVars
  <2>1. UNCHANGED workerVars /\ UNCHANGED <<room, host, dark>>
    BY <1>1 DEF sessionVars, workerVars
  <2>2. room \in {"negotiating", "active", "ended"}
    BY DEF SessionInv, SessionTypes
  <2> QED BY <2>1, <2>2, QuietStep
<1> QED BY <1>1, HostMoves, ViewerMoves, MediaMoves, TimeMoves DEF SessionNext

\* Inside a whole trial worker and stream do nothing but what FrameWorker lets
\* them do: the trial implements it, whatever is lost between the two ends.
THEOREM TrialImplementsFrameWorker == SessionSpec => Spec
<1>1. SessionInit => Init
  BY DEF SessionInit
<1> QED BY <1>1, SessionInvInit, SessionInvStep, PTL DEF SessionSpec, Spec

\* No picture is on its way longer after the room has ended than the best grant
\* of before lasted, host.answer, as long as it may take, and one write take.
THEOREM EndedRoomsAlwaysGoDarkInTime == SessionSpec => []EndedRoomsGoDarkInTime
<1>1. SessionInv => EndedRoomsGoDarkInTime
  <2> SUFFICES ASSUME SessionInv, stream.pc = "writing" PROVE dark < Life + AnswerDelay + WriteLimit
    BY DEF EndedRoomsGoDarkInTime
  <2> QED BY SessionNumbers DEF SessionInv, RoomClock
<1> QED BY <1>1, SessionInvInit, SessionInvStep, PTL DEF SessionSpec

\* In a whole trial too, a stop or the end of the lease is obeyed within a write,
\* and a quiet end is a deserved one.
THEOREM TrialsRevokePromptly == SessionSpec => [](RevocationIsPrompt /\ QuietEndsAreDeserved)
  BY TrialImplementsFrameWorker, RevocationIsAlwaysPrompt, QuietEndsAreAlwaysDeserved, PTL
==============================================================================
