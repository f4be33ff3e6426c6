---------------------------- MODULE Ccid_proofs ----------------------------
(***************************************************************************)
(* What holds of Ccid for any number of commands, of resets of the bus and *)
(* of tries of the final answer.                                           *)
(***************************************************************************)
EXTENDS Ccid, SequenceTheorems, TLAPS

Whole(c) == [seq |-> c, of |-> {c}]
WtxCall == [what |-> "wtx", tries |-> 0]

\* No endpoint is used before it is opened, and an answer that is queued has one.
PipeInv == (primed \/ flying # "none" => open) /\ (final => flying # "none")

\* The final answer is queued, behind a time extension at most.
FinalAhead ==
  \E t \in 0..RETRIES : LET f == [what |-> "final", tries |-> t] IN
    deferred = <<f>> \/ deferred = <<WtxCall, f>>

Idle == flying = "none" \/ (flying = "wtx" /\ ~final)

\* Where the host's command is, when no reset came upon one.
Ready    == ready /\ worker = "wait" /\ deferred = <<>> /\ curSeq = obuf.id /\ flying = "none"
Working  == /\ ~ready /\ worker # "wait" /\ job = obuf /\ curSeq = obuf.id
            /\ deferred = <<>> \/ deferred = <<WtxCall>>
            /\ Idle
Built    == ~ready /\ worker = "wait" /\ ibuf = Whole(obuf.id) /\ FinalAhead /\ Idle
Flying   == /\ Quiet /\ flying \in {"final", "zlp"}
            /\ carried = Whole(obuf.id) /\ ibuf = Whole(obuf.id)
GivenUp  == Quiet /\ Idle

StageInv ==
  ~torn => IF waits = 0 THEN Quiet /\ flying = "none"
                        ELSE waits = obuf.id /\ (Ready \/ Working \/ Built \/ Flying \/ GivenUp)

IInv == TypeOK /\ PipeInv /\ StageInv /\ AnswersMatch

\* The queue of the deferred calls.
LEMMA QueueFacts ==
  ASSUME NEW S, NEW q \in Seq(S), NEW e \in S
  PROVE  /\ Append(q, e) \in Seq(S)
         /\ q # <<>> => Head(q) \in S /\ Tail(q) \in Seq(S)
         /\ <<e>> \in Seq(S)
<1>1. QED
  OBVIOUS

\* The queue holds one call or two.
LEMMA ShortQueues ==
  ASSUME NEW a \in Call, NEW b \in Call
  PROVE  /\ Head(<<a>>) = a /\ Tail(<<a>>) = <<>> /\ <<a>> # <<>>
         /\ Head(<<a, b>>) = a /\ Tail(<<a, b>>) = <<b>> /\ <<a, b>> # <<>>
         /\ Append(<<>>, a) = <<a>> /\ Append(<<a>>, b) = <<a, b>>
<1>1. Head(<<a>>) = a /\ Tail(<<a>>) = <<>> /\ <<a>> # <<>> /\ Append(<<>>, a) = <<a>>
  OBVIOUS
<1>2. Head(<<a, b>>) = a /\ <<a, b>> # <<>>
  OBVIOUS
<1>3. Tail(<<a, b>>) = <<b>>
  OBVIOUS
<1>4. <<a>> \in Seq(Call) /\ <<a, b>> \in Seq(Call)
  OBVIOUS
<1>5. Append(<<a>>, b) \in Seq(Call) /\ Len(Append(<<a>>, b)) = 2
  BY <1>4, AppendProperties
<1>6. Append(<<a>>, b)[1] = a /\ Append(<<a>>, b)[2] = b
  BY <1>4, AppendProperties
<1>7. Len(<<a, b>>) = 2 /\ <<a, b>>[1] = a /\ <<a, b>>[2] = b
  OBVIOUS
<1>8. \A i \in 1..2 : Append(<<a>>, b)[i] = <<a, b>>[i]
  <2>1. \A i \in 1..2 : i = 1 \/ i = 2
    OBVIOUS
  <2>2. QED
    BY <1>6, <1>7, <2>1
<1>9. Append(<<a>>, b) = <<a, b>>
  BY <1>4, <1>5, <1>7, <1>8, SeqEqual
<1>10. QED
  BY <1>1, <1>2, <1>3, <1>9

\* The messages, the answers and the calls that the steps make.
LEMMA Values ==
  /\ NoAnswer \in Answer /\ 0 \in Seq0
  /\ \A s \in Seq0, o \in SUBSET Seq0 : [seq |-> s, of |-> o] \in Answer
  /\ \A s \in Seq0, k \in Kind : [id |-> s, kind |-> k] \in Message
  /\ \A r \in Message : r.id \in Seq0
  /\ "inline" \in Kind
  /\ WtxCall \in Call /\ [what |-> "final", tries |-> 0] \in Call
  /\ \A f \in Call : f.tries < RETRIES => [f EXCEPT !.tries = @ + 1] \in Call
<1>1. QED
  BY CcidAssumption DEF NoAnswer, Answer, Message, Kind, Seq0, Call, WtxCall

LEMMA InitInv == Init => IInv
<1> SUFFICES ASSUME Init PROVE IInv
  OBVIOUS
<1>1. obuf \in Message /\ <<>> \in Seq(Call)
  BY Values DEF Init
<1>2. TypeOK
  <2>1. resets \in 0..RESETS /\ waits \in Seq0 /\ curSeq \in Seq0
    BY CcidAssumption, Values DEF Init
  <2>2. job \in Message /\ ibuf \in Answer /\ carried \in Answer /\ got \in Answer /\ deferred \in Seq(Call)
    BY <1>1, Values DEF Init
  <2>3. QED
    BY <1>1, <2>1, <2>2, Zenon DEF Init, TypeOK
<1>3. PipeInv /\ StageInv /\ AnswersMatch
  BY DEF Init, PipeInv, StageInv, AnswersMatch, Quiet
<1>4. QED
  BY <1>2, <1>3 DEF IInv

LEMMA TypeStep == ASSUME IInv, [Next]_vars PROVE TypeOK'
<1> USE CcidAssumption DEF IInv
<1>1. CASE Reset
  <2>1. resets' \in 0..RESETS
    BY <1>1 DEF Reset, TypeOK
  <2>2. QED
    BY <1>1, <2>1, Values DEF Reset, TypeOK, endpoints, buffers, work, host
<1>2. CASE Open
  BY <1>2, Values, QueueFacts DEF Open, TypeOK, endpoints, buffers, work, host
<1>3. CASE \E kind \in Kind : Command(kind)
  <2>1. PICK kind \in Kind : Command(kind)
    BY <1>3
  <2>2. obuf.id + 1 \in Seq0
    BY <2>1, Values DEF Command, TypeOK, Seq0
  <2>3. obuf' \in Message /\ waits' \in Seq0 /\ got' \in Answer /\ torn' \in BOOLEAN
    BY <2>1, <2>2, Values DEF Command, TypeOK
  <2>4. CASE kind = "inline"
    BY <2>1, <2>2, <2>3, <2>4, Values, ZenonT(60) DEF Command, DispatchInline, TypeOK
  <2>5. CASE kind # "inline"
    BY <2>1, <2>2, <2>3, <2>5, ZenonT(60) DEF Command, DispatchXfrBlock, TypeOK
  <2>6. QED
    BY <2>4, <2>5
<1>4. CASE WtxSent
  BY <1>4, Values, QueueFacts, ZenonT(60) DEF WtxSent, Primes, TypeOK, endpoints, buffers, work, host
<1>5. CASE FinalSent
  <2>1. waits' \in Seq0 /\ got' \in Answer /\ carried' \in Answer
    BY <1>5, Values DEF FinalSent, Takes, TypeOK
  <2>2. flying' \in {"none", "wtx", "final", "zlp"} /\ final' \in BOOLEAN /\ primed' \in BOOLEAN
    BY <1>5 DEF FinalSent, Primes, TypeOK
  <2>3. QED
    BY <1>5, <2>1, <2>2 DEF FinalSent, TypeOK, buffers, work
<1>6. CASE ZlpSent
  BY <1>6, Values, QueueFacts DEF ZlpSent, Primes, Takes, TypeOK, endpoints, buffers, work, host
<1>7. CASE SendWtx
  BY <1>7, Values, QueueFacts DEF SendWtx, Calls, TypeOK, endpoints, buffers, work, host
<1>8. CASE SendFinal
  <2>1. Head(deferred) \in Call /\ Tail(deferred) \in Seq(Call)
    BY <1>8, QueueFacts DEF SendFinal, Calls, TypeOK
  <2>2. deferred' \in Seq(Call)
    BY <1>8, <2>1, Values, QueueFacts DEF SendFinal
  <2>3. /\ flying' \in {"none", "wtx", "final", "zlp"} /\ carried' \in Answer
        /\ final' \in BOOLEAN /\ abandoned' \in BOOLEAN
    BY <1>8 DEF SendFinal, TypeOK
  <2>4. QED
    BY <1>8, <2>2, <2>3 DEF SendFinal, TypeOK, buffers, work, host
<1>9. CASE Take
  BY <1>9, Values, QueueFacts DEF Take, TypeOK, endpoints, buffers, work, host
<1>10. CASE Arm
  BY <1>10, Values, QueueFacts DEF Arm, TypeOK, endpoints, buffers, work, host
<1>11. CASE Deadline
  BY <1>11, Values, QueueFacts DEF Deadline, TypeOK, endpoints, buffers, work, host
<1>12. CASE Build
  BY <1>12, Values, QueueFacts DEF Build, TypeOK, endpoints, buffers, work, host
<1>13. CASE Extend
  <2>1. deferred' \in Seq(Call)
    BY <1>13, Values, QueueFacts DEF Extend, TypeOK, WtxCall
  <2>2. QED
    BY <1>13, <2>1 DEF Extend, TypeOK, endpoints, buffers, work, host
<1>15. CASE Tick
  BY <1>15, Values, QueueFacts DEF Tick, TypeOK, endpoints, buffers, work, host
<1>16. CASE UNCHANGED vars
  BY <1>16, Values, QueueFacts DEF vars, TypeOK, endpoints, buffers, work, host
<1>17. QED
  BY <1>1, <1>2, <1>3, <1>4, <1>5, <1>6, <1>7, <1>8, <1>9, <1>10, <1>11, <1>12, <1>13, <1>15, <1>16 DEF Next, TudTask, Worker

LEMMA PipeStep == ASSUME IInv, [Next]_vars PROVE PipeInv'
<1> USE DEF IInv
<1>1. CASE Reset
  BY <1>1 DEF Reset, PipeInv, endpoints, buffers, work, host
<1>2. CASE Open
  BY <1>2 DEF Open, PipeInv, endpoints, buffers, work, host
<1>3. CASE \E kind \in Kind : Command(kind)
  BY <1>3 DEF Command, DispatchInline, DispatchXfrBlock, PipeInv, endpoints, buffers, work, host
<1>4. CASE WtxSent
  BY <1>4 DEF WtxSent, Primes, PipeInv, endpoints, buffers, work, host
<1>5. CASE FinalSent
  BY <1>5 DEF FinalSent, Primes, Takes, PipeInv, endpoints, buffers, work, host
<1>6. CASE ZlpSent
  BY <1>6 DEF ZlpSent, Primes, Takes, PipeInv, endpoints, buffers, work, host
<1>7. CASE SendWtx
  BY <1>7 DEF SendWtx, Calls, PipeInv, endpoints, buffers, work, host
<1>8. CASE SendFinal
  BY <1>8 DEF SendFinal, Calls, PipeInv, endpoints, buffers, work, host
<1>9. CASE Take
  BY <1>9 DEF Take, PipeInv, endpoints, buffers, work, host
<1>10. CASE Arm
  BY <1>10 DEF Arm, PipeInv, endpoints, buffers, work, host
<1>11. CASE Deadline
  BY <1>11 DEF Deadline, PipeInv, endpoints, buffers, work, host
<1>12. CASE Build
  BY <1>12 DEF Build, PipeInv, endpoints, buffers, work, host
<1>13. CASE Extend
  BY <1>13 DEF Extend, PipeInv, endpoints, buffers, work, host
<1>15. CASE Tick
  BY <1>15 DEF Tick, PipeInv, endpoints, buffers, work, host
<1>16. CASE UNCHANGED vars
  BY <1>16 DEF vars, PipeInv, endpoints, buffers, work, host
<1>17. QED
  BY <1>1, <1>2, <1>3, <1>4, <1>5, <1>6, <1>7, <1>8, <1>9, <1>10, <1>11, <1>12, <1>13, <1>15, <1>16 DEF Next, TudTask, Worker

LEMMA StageStep == ASSUME IInv, [Next]_vars PROVE StageInv'
<1> USE CcidAssumption, ShortQueues DEF IInv
<1>1. CASE Reset
  BY <1>1 DEF Reset, StageInv, Ready, Working, Built, Flying, GivenUp, FinalAhead, Idle, Quiet, PipeInv, TypeOK, Seq0, Message, Whole, WtxCall, endpoints, buffers, work, host
<1>2. CASE Open
  BY <1>2 DEF Open, StageInv, Ready, Working, Built, Flying, GivenUp, FinalAhead, Idle, Quiet, PipeInv, TypeOK, Seq0, Message, Whole, WtxCall, endpoints, buffers, work, host
<1>3. CASE \E kind \in Kind : Command(kind)
  BY <1>3 DEF Command, DispatchInline, DispatchXfrBlock, StageInv, Ready, Working, Built, Flying, GivenUp, FinalAhead, Idle, Quiet, PipeInv, TypeOK, Seq0, Message, Whole, WtxCall, endpoints, buffers, work, host
<1>4. CASE WtxSent
  BY <1>4 DEF WtxSent, Primes, StageInv, Ready, Working, Built, Flying, GivenUp, FinalAhead, Idle, Quiet, PipeInv, TypeOK, Seq0, Message, Whole, WtxCall, endpoints, buffers, work, host
<1>5. CASE FinalSent
  BY <1>5 DEF FinalSent, Primes, Takes, StageInv, Ready, Working, Built, Flying, GivenUp, FinalAhead, Idle, Quiet, PipeInv, TypeOK, Seq0, Message, Whole, WtxCall, endpoints, buffers, work, host
<1>6. CASE ZlpSent
  BY <1>6 DEF ZlpSent, Primes, Takes, StageInv, Ready, Working, Built, Flying, GivenUp, FinalAhead, Idle, Quiet, PipeInv, TypeOK, Seq0, Message, Whole, WtxCall, endpoints, buffers, work, host
<1>7. CASE SendWtx
  <2> USE <1>7 DEF SendWtx, endpoints, buffers, work, host
  <2>1. CASE torn \/ waits = 0
    BY <2>1 DEF StageInv, Quiet, Calls
  <2>2. CASE ~torn /\ waits # 0 /\ Working
    <3>1. deferred = <<WtxCall>> /\ deferred' = <<>>
      BY <2>2, Values, ShortQueues DEF Working, Calls
    <3>2. Working' /\ waits' = obuf.id
      BY <2>2, <3>1 DEF StageInv, Working, Idle, PipeInv
    <3>3. QED
      BY <2>2, <3>2 DEF StageInv
  <2>3. CASE ~torn /\ waits # 0 /\ Built
    <3>1. PICK t \in 0..RETRIES : LET f == [what |-> "final", tries |-> t] IN
            deferred = <<f>> \/ deferred = <<WtxCall, f>>
      BY <2>3 DEF Built, FinalAhead
    <3>2. [what |-> "final", tries |-> t] \in Call
      BY DEF Call
    <3>3. deferred' = <<[what |-> "final", tries |-> t]>>
      <4> DEFINE f == [what |-> "final", tries |-> t]
      <4>1. Head(deferred).what = "wtx" /\ deferred' = Tail(deferred)
        BY DEF Calls
      <4>2. ASSUME deferred = <<f>> PROVE FALSE
        <5>1. Head(deferred) = f
          BY <3>2, <4>2, ShortQueues
        <5>2. QED
          BY <4>1, <5>1
      <4>3. QED
        <5>1. deferred = <<WtxCall, f>>
          BY <3>1, <4>2
        <5>2. Tail(<<WtxCall, f>>) = <<f>>
          BY <3>2, Values, ShortQueues
        <5>3. QED
          BY <4>1, <5>1, <5>2
    <3>4. Built' /\ waits' = obuf.id
      BY <2>3, <3>3 DEF StageInv, Built, FinalAhead, Idle, PipeInv
    <3>5. QED
      BY <2>3, <3>4 DEF StageInv
  <2>4. QED
    BY <2>1, <2>2, <2>3 DEF StageInv, Ready, Flying, GivenUp, Quiet, Calls
<1>8. CASE SendFinal
  <2> USE <1>8 DEF SendFinal, endpoints, buffers, work, host
  <2>1. CASE torn \/ waits = 0
    BY <2>1 DEF StageInv, Quiet, Calls
  <2>2. CASE ~torn /\ waits # 0 /\ Working
    BY <2>2, Values, ShortQueues DEF Working, Calls, WtxCall
  <2>3. CASE ~torn /\ waits # 0 /\ Built
    <3>1. PICK t \in 0..RETRIES : LET f == [what |-> "final", tries |-> t] IN
            deferred = <<f>> \/ deferred = <<WtxCall, f>>
      BY <2>3 DEF Built, FinalAhead
    <3> DEFINE f == [what |-> "final", tries |-> t]
    <3>2. f \in Call /\ f.tries = t
      BY DEF Call
    <3>3. deferred = <<f>> /\ Head(deferred) = f /\ Tail(deferred) = <<>>
      <4>1. Head(deferred).what = "final"
        BY DEF Calls
      <4>2. ASSUME deferred = <<WtxCall, f>> PROVE FALSE
        <5>1. Head(deferred) = WtxCall
          BY <3>2, <4>2, Values, ShortQueues
        <5>2. QED
          BY <4>1, <5>1 DEF WtxCall
      <4>3. QED
        BY <3>1, <3>2, <4>2, ShortQueues
    <3>4. waits' = obuf'.id /\ ~ready' /\ worker' = "wait" /\ ibuf' = Whole(obuf'.id) /\ torn' = torn
      BY <2>3 DEF StageInv, Built
    <3>5. CASE deferred' = <<>>
      <4>1. Flying' \/ GivenUp'
        BY <2>3, <3>3, <3>4, <3>5, ShortQueues DEF Built, Flying, GivenUp, Quiet, Idle, PipeInv
      <4>2. QED
        BY <3>4, <4>1, <2>3 DEF StageInv
    <3>6. CASE deferred' # <<>>
      <4>1. /\ t < RETRIES /\ deferred' = Append(<<>>, [f EXCEPT !.tries = @ + 1])
            /\ flying' = flying /\ final' = final
        BY <3>2, <3>3, <3>6
      <4>2. [f EXCEPT !.tries = @ + 1] = [what |-> "final", tries |-> t + 1] /\ t + 1 \in 0..RETRIES
        BY <4>1
      <4>3. deferred' = <<[what |-> "final", tries |-> t + 1]>>
        BY <4>1, <4>2
      <4>4. Built'
        BY <2>3, <3>4, <4>1, <4>2, <4>3 DEF Built, FinalAhead, Idle
      <4>5. QED
        BY <2>3, <3>4, <4>4 DEF StageInv
    <3>7. QED
      BY <3>5, <3>6
  <2>4. QED
    BY <2>1, <2>2, <2>3 DEF StageInv, Ready, Flying, GivenUp, Quiet, Calls
<1>9. CASE Take
  BY <1>9 DEF Take, StageInv, Ready, Working, Built, Flying, GivenUp, FinalAhead, Idle, Quiet, PipeInv, TypeOK, Seq0, Message, Whole, WtxCall, endpoints, buffers, work, host
<1>10. CASE Arm
  BY <1>10 DEF Arm, StageInv, Ready, Working, Built, Flying, GivenUp, FinalAhead, Idle, Quiet, PipeInv, TypeOK, Seq0, Message, Whole, WtxCall, endpoints, buffers, work, host
<1>11. CASE Deadline
  BY <1>11 DEF Deadline, StageInv, Ready, Working, Built, Flying, GivenUp, FinalAhead, Idle, Quiet, PipeInv, TypeOK, Seq0, Message, Whole, WtxCall, endpoints, buffers, work, host
<1>12. CASE Build
  <2> USE <1>12 DEF Build, endpoints, buffers, work, host
  <2>1. CASE torn \/ waits = 0
    BY <2>1 DEF StageInv, Quiet
  <2>2. CASE ~torn /\ waits # 0
    <3>1. Working /\ waits = obuf.id
      BY <2>2 DEF StageInv, Ready, Working, Built, Flying, GivenUp, Quiet
    <3> DEFINE f == [what |-> "final", tries |-> 0]
    <3>2. deferred' = <<f>> \/ deferred' = <<WtxCall, f>>
      BY <3>1, Values, ShortQueues DEF Working
    <3>3. FinalAhead'
      BY <3>2 DEF FinalAhead
    <3>4. ibuf' = Whole(obuf'.id)
      BY <3>1 DEF Working, Whole
    <3>5. Built'
      BY <3>1, <3>3, <3>4 DEF Working, Built, Idle
    <3>6. QED
      BY <2>2, <3>1, <3>5 DEF StageInv
  <2>3. QED
    BY <2>1, <2>2
<1>13. CASE Extend
  BY <1>13 DEF Extend, StageInv, Ready, Working, Built, Flying, GivenUp, FinalAhead, Idle, Quiet, PipeInv, TypeOK, Seq0, Message, Whole, WtxCall, endpoints, buffers, work, host
<1>15. CASE Tick
  BY <1>15 DEF Tick, StageInv, Ready, Working, Built, Flying, GivenUp, FinalAhead, Idle, Quiet, PipeInv, TypeOK, Seq0, Message, Whole, WtxCall, endpoints, buffers, work, host
<1>16. CASE UNCHANGED vars
  BY <1>16 DEF vars, StageInv, Ready, Working, Built, Flying, GivenUp, FinalAhead, Idle, Quiet, PipeInv, TypeOK, Seq0, Message, Whole, WtxCall, endpoints, buffers, work, host
<1>17. QED
  BY <1>1, <1>2, <1>3, <1>4, <1>5, <1>6, <1>7, <1>8, <1>9, <1>10, <1>11, <1>12, <1>13, <1>15, <1>16 DEF Next, TudTask, Worker

LEMMA AnswerStep == ASSUME IInv, [Next]_vars PROVE AnswersMatch'
<1> USE ShortQueues DEF IInv
<1>1. CASE Reset
  BY <1>1 DEF Reset, AnswersMatch, StageInv, Ready, Working, Built, Flying, GivenUp, FinalAhead, Idle, Quiet, PipeInv, Whole, WtxCall, NoAnswer, TypeOK, Seq0, endpoints, buffers, work, host
<1>2. CASE Open
  BY <1>2 DEF Open, AnswersMatch, StageInv, Ready, Working, Built, Flying, GivenUp, FinalAhead, Idle, Quiet, PipeInv, Whole, WtxCall, NoAnswer, TypeOK, Seq0, endpoints, buffers, work, host
<1>3. CASE \E kind \in Kind : Command(kind)
  BY <1>3 DEF Command, DispatchInline, DispatchXfrBlock, AnswersMatch, StageInv, Ready, Working, Built, Flying, GivenUp, FinalAhead, Idle, Quiet, PipeInv, Whole, WtxCall, NoAnswer, TypeOK, Seq0, endpoints, buffers, work, host
<1>4. CASE WtxSent
  BY <1>4 DEF WtxSent, Primes, AnswersMatch, StageInv, Ready, Working, Built, Flying, GivenUp, FinalAhead, Idle, Quiet, PipeInv, Whole, WtxCall, NoAnswer, TypeOK, Seq0, endpoints, buffers, work, host
<1>5. CASE FinalSent
  BY <1>5 DEF FinalSent, Primes, Takes, AnswersMatch, StageInv, Ready, Working, Built, Flying, GivenUp, FinalAhead, Idle, Quiet, PipeInv, Whole, WtxCall, NoAnswer, TypeOK, Seq0, endpoints, buffers, work, host
<1>6. CASE ZlpSent
  BY <1>6 DEF ZlpSent, Primes, Takes, AnswersMatch, StageInv, Ready, Working, Built, Flying, GivenUp, FinalAhead, Idle, Quiet, PipeInv, Whole, WtxCall, NoAnswer, TypeOK, Seq0, endpoints, buffers, work, host
<1>7. CASE SendWtx
  BY <1>7 DEF SendWtx, Calls, AnswersMatch, StageInv, Ready, Working, Built, Flying, GivenUp, FinalAhead, Idle, Quiet, PipeInv, Whole, WtxCall, NoAnswer, TypeOK, Seq0, endpoints, buffers, work, host
<1>8. CASE SendFinal
  BY <1>8 DEF SendFinal, Calls, AnswersMatch, StageInv, Ready, Working, Built, Flying, GivenUp, FinalAhead, Idle, Quiet, PipeInv, Whole, WtxCall, NoAnswer, TypeOK, Seq0, endpoints, buffers, work, host
<1>9. CASE Take
  BY <1>9 DEF Take, AnswersMatch, StageInv, Ready, Working, Built, Flying, GivenUp, FinalAhead, Idle, Quiet, PipeInv, Whole, WtxCall, NoAnswer, TypeOK, Seq0, endpoints, buffers, work, host
<1>10. CASE Arm
  BY <1>10 DEF Arm, AnswersMatch, StageInv, Ready, Working, Built, Flying, GivenUp, FinalAhead, Idle, Quiet, PipeInv, Whole, WtxCall, NoAnswer, TypeOK, Seq0, endpoints, buffers, work, host
<1>11. CASE Deadline
  BY <1>11 DEF Deadline, AnswersMatch, StageInv, Ready, Working, Built, Flying, GivenUp, FinalAhead, Idle, Quiet, PipeInv, Whole, WtxCall, NoAnswer, TypeOK, Seq0, endpoints, buffers, work, host
<1>12. CASE Build
  BY <1>12 DEF Build, AnswersMatch, StageInv, Ready, Working, Built, Flying, GivenUp, FinalAhead, Idle, Quiet, PipeInv, Whole, WtxCall, NoAnswer, TypeOK, Seq0, endpoints, buffers, work, host
<1>13. CASE Extend
  BY <1>13 DEF Extend, AnswersMatch, StageInv, Ready, Working, Built, Flying, GivenUp, FinalAhead, Idle, Quiet, PipeInv, Whole, WtxCall, NoAnswer, TypeOK, Seq0, endpoints, buffers, work, host
<1>15. CASE Tick
  BY <1>15 DEF Tick, AnswersMatch, StageInv, Ready, Working, Built, Flying, GivenUp, FinalAhead, Idle, Quiet, PipeInv, Whole, WtxCall, NoAnswer, TypeOK, Seq0, endpoints, buffers, work, host
<1>16. CASE UNCHANGED vars
  BY <1>16 DEF vars, AnswersMatch, StageInv, Ready, Working, Built, Flying, GivenUp, FinalAhead, Idle, Quiet, PipeInv, Whole, WtxCall, NoAnswer, TypeOK, Seq0, endpoints, buffers, work, host
<1>17. QED
  BY <1>1, <1>2, <1>3, <1>4, <1>5, <1>6, <1>7, <1>8, <1>9, <1>10, <1>11, <1>12, <1>13, <1>15, <1>16 DEF Next, TudTask, Worker

THEOREM Invariance == Spec => []IInv
<1>1. ASSUME IInv, [Next]_vars PROVE IInv'
  BY <1>1, TypeStep, PipeStep, StageStep, AnswerStep DEF IInv
<1>2. QED
  BY <1>1, InitInv, PTL DEF Spec

\* The retries of the final answer and the resets stay within their bounds, and
\* every other variable of ccid.c and sec_confirm.c within its values.
THEOREM TypeCorrect == Spec => []TypeOK
<1>1. IInv => TypeOK
  BY DEF IInv
<1>2. QED
  BY <1>1, Invariance, PTL

\* An answer is that of its command, although s_out_buf and s_in_buf are read by
\* one task and written by the other without a lock (ccid.c).
THEOREM AnswersAreOwn == Spec => []AnswersMatch
<1>1. IInv => AnswersMatch
  BY DEF IInv
<1>2. QED
  BY <1>1, Invariance, PTL

\* A call deferred before a reset makes no transfer on the control endpoint.
THEOREM ControlStaysFree == Spec => []ControlIsFree
<1>1. IInv => ControlIsFree
  BY DEF IInv, PipeInv, ControlIsFree
<1>2. QED
  BY <1>1, Invariance, PTL
=============================================================================
