-------------------------- MODULE JoinPipelineProofs --------------------------
(***************************************************************************)
(* Theorems about JoinPipeline, for every set of workers, batch size,      *)
(* channel capacity and set of queries.                                    *)
(***************************************************************************)
EXTENDS JoinPipeline, TLAPS

-------------------------------------------------------------------------------
(* Which steps change what. *)

ReaderStep   == Iterate \/ Reader
ChannelStep  == \/ SendBatch \/ FlushBatch \/ CloseJobs \/ CloseResults
                \/ ReceiveResult \/ \E w \in Workers : TakeJob(w) \/ Publish(w)
WorkerStep   == Iterate \/ \E w \in Workers : Worker(w)
CloseStep    == PullError \/ CloseDone \/ CloseLeft
ConsumerStep == IterateFails \/ Consumer

Frame == /\ query' = query
         /\ ReaderStep \/ UNCHANGED readerVars
         /\ ChannelStep \/ UNCHANGED channelVars
         /\ WorkerStep \/ UNCHANGED workerVars
         /\ CloseStep \/ UNCHANGED <<closeVars, err>>
         /\ ConsumerStep \/ UNCHANGED consumerVars

(***************************************************************************)
(* Every step leaves alone what the goroutine that takes it does not own.  *)
(***************************************************************************)
LEMMA FrameNext == [Next]_vars => Frame
<1> SUFFICES ASSUME [Next]_vars PROVE Frame
  OBVIOUS
<1> USE DEF Frame, ReaderStep, ChannelStep, WorkerStep, CloseStep, ConsumerStep
<1>1. CASE IterateFails
  BY <1>1 DEF IterateFails, readerVars, channelVars, workerVars, closeVars,
     consumerVars, orderVars, tailVars
<1>2. CASE Iterate
  BY <1>2 DEF Iterate, readerVars, channelVars, workerVars, closeVars,
     consumerVars, orderVars, tailVars
<1>3. CASE PullRow
  BY <1>3 DEF PullRow, Reader, readerVars, channelVars, workerVars, closeVars,
     consumerVars, orderVars, tailVars
<1>4. CASE PullEOF
  BY <1>4 DEF PullEOF, Reader, readerVars, channelVars, workerVars, closeVars,
     consumerVars, orderVars, tailVars
<1>5. CASE PullError
  BY <1>5 DEF PullError, Reader, readerVars, channelVars, workerVars,
     closeVars, consumerVars, orderVars, tailVars
<1>6. CASE AppendRow
  BY <1>6 DEF AppendRow, Reader, readerVars, channelVars, workerVars,
     closeVars, consumerVars, orderVars, tailVars
<1>7. CASE SendBatch
  BY <1>7 DEF SendBatch, Reader, readerVars, channelVars, workerVars,
     closeVars, consumerVars, orderVars, tailVars
<1>8. CASE AbortSend
  BY <1>8 DEF AbortSend, Reader, readerVars, channelVars, workerVars,
     closeVars, consumerVars, orderVars, tailVars
<1>9. CASE FlushBatch
  BY <1>9 DEF FlushBatch, Reader, readerVars, channelVars, workerVars,
     closeVars, consumerVars, orderVars, tailVars
<1>10. CASE CloseJobs
  BY <1>10 DEF CloseJobs, Reader, readerVars, channelVars, workerVars,
     closeVars, consumerVars, orderVars, tailVars
<1>11. ASSUME NEW w \in Workers, TakeJob(w) PROVE Frame
  BY <1>11 DEF TakeJob, Worker, readerVars, channelVars, workerVars, closeVars,
     consumerVars, orderVars, tailVars
<1>12. ASSUME NEW w \in Workers, JoinRows(w) PROVE Frame
  BY <1>12 DEF JoinRows, Worker, readerVars, channelVars, workerVars,
     closeVars, consumerVars, orderVars, tailVars
<1>13. ASSUME NEW w \in Workers, Publish(w) PROVE Frame
  BY <1>13 DEF Publish, Worker, readerVars, channelVars, workerVars, closeVars,
     consumerVars, orderVars, tailVars
<1>14. ASSUME NEW w \in Workers, DropResult(w) PROVE Frame
  BY <1>14 DEF DropResult, Worker, readerVars, channelVars, workerVars,
     closeVars, consumerVars, orderVars, tailVars
<1>15. ASSUME NEW w \in Workers, WorkerExit(w) PROVE Frame
  BY <1>15 DEF WorkerExit, Worker, readerVars, channelVars, workerVars,
     closeVars, consumerVars, orderVars, tailVars
<1>16. CASE CloseResults
  BY <1>16 DEF CloseResults, readerVars, channelVars, workerVars, closeVars,
     consumerVars, orderVars, tailVars
<1>17. CASE ReturnRow
  BY <1>17 DEF ReturnRow, Consumer, readerVars, channelVars, workerVars,
     closeVars, consumerVars, orderVars, tailVars
<1>18. CASE TakeInOrder
  BY <1>18 DEF TakeInOrder, Consumer, readerVars, channelVars, workerVars,
     closeVars, consumerVars, orderVars, tailVars
<1>19. CASE ReturnError
  BY <1>19 DEF ReturnError, Consumer, readerVars, channelVars, workerVars,
     closeVars, consumerVars, orderVars, tailVars
<1>20. CASE ReturnTail
  BY <1>20 DEF ReturnTail, Consumer, readerVars, channelVars, workerVars,
     closeVars, consumerVars, orderVars, tailVars
<1>21. CASE MaterializeTail
  BY <1>21 DEF MaterializeTail, Consumer, readerVars, channelVars, workerVars,
     closeVars, consumerVars, orderVars, tailVars
<1>22. CASE ReturnEOF
  BY <1>22 DEF ReturnEOF, Consumer, readerVars, channelVars, workerVars,
     closeVars, consumerVars, orderVars, tailVars
<1>23. CASE ReceiveResult
  BY <1>23 DEF ReceiveResult, Consumer, readerVars, channelVars, workerVars,
     closeVars, consumerVars, orderVars, tailVars
<1>24. CASE SeeResultsClosed
  BY <1>24 DEF SeeResultsClosed, Consumer, readerVars, channelVars, workerVars,
     closeVars, consumerVars, orderVars, tailVars
<1>25. CASE SeeDone
  BY <1>25 DEF SeeDone, Consumer, readerVars, channelVars, workerVars,
     closeVars, consumerVars, orderVars, tailVars
<1>26. CASE CloseDone
  BY <1>26 DEF CloseDone, readerVars, channelVars, workerVars, closeVars,
     consumerVars, orderVars, tailVars
<1>27. CASE CloseLeft
  BY <1>27 DEF CloseLeft, readerVars, channelVars, workerVars, closeVars,
     consumerVars, orderVars, tailVars
<1>28. CASE UNCHANGED vars
  BY <1>28 DEF vars, readerVars, channelVars, workerVars, closeVars,
     consumerVars, orderVars, tailVars
<1> QED
  BY <1>1, <1>2, <1>3, <1>4, <1>5, <1>6, <1>7, <1>8, <1>9, <1>10, <1>11, <1>12,
     <1>13, <1>14, <1>15, <1>16, <1>17, <1>18, <1>19, <1>20, <1>21, <1>22,
     <1>23, <1>24, <1>25, <1>26, <1>27, <1>28 DEF Next, Reader, Worker,
     Consumer

-------------------------------------------------------------------------------
(* Type correctness. *)

(***************************************************************************)
(* A query of the instance has the shape QueryAssumption gives it.         *)
(***************************************************************************)
LEMMA QueryShape ==
    ASSUME query \in Queries
    PROVE  /\ query.left \in Seq(Int) /\ query.right \in Seq(Int)
           /\ query.joinType \in JoinTypes
           /\ query.failAt \in 0 .. Len(query.left) + 1
           /\ Len(query.left) \in Nat /\ Len(query.right) \in Nat
           /\ DOMAIN query.left = 1 .. Len(query.left)
           /\ DOMAIN query.right = 1 .. Len(query.right)
  BY QueryAssumption

(***************************************************************************)
(* joinBatch yields one group for each probe row of the batch.             *)
(***************************************************************************)
LEMMA JoinBatchType ==
    ASSUME query \in Queries, NEW job \in Job
    PROVE  /\ JoinBatch(job) \in Seq(Group)
           /\ Len(JoinBatch(job)) = job.hi - job.lo
           /\ \A p \in 1 .. job.hi - job.lo :
                 JoinBatch(job)[p] = JoinRow(job.lo + p)
<1>1. ASSUME NEW i PROVE JoinRow(i) \in Group
  BY QueryShape DEF JoinRow, Hash, Group
<1>2. job.hi - job.lo \in Nat
  BY DEF Job
<1> QED
  BY <1>1, <1>2 DEF JoinBatch

\* The job an idle worker holds is well typed.
LEMMA NoJobType == NoJob \in Job
  BY DEF NoJob, Job

\* The initial states are well typed.
LEMMA TypeInit == Init => TypeOK
<1> SUFFICES ASSUME Init PROVE TypeOK
  OBVIOUS
<1>1. ReaderType
  BY DEF Init, ReaderType
<1>2. ChannelType
  <2>1. << >> \in Seq(Job) /\ << >> \in Seq(Result) /\ Len(<< >>) = 0
    OBVIOUS
  <2>2. jobs \in Seq(Job) /\ results \in Seq(Result)
    BY <2>1 DEF Init
  <2>3. Len(jobs) <= QueueDepth /\ Len(results) <= QueueDepth
    BY <2>1, ParamAssumption DEF Init
  <2>4. jobsClosed \in BOOLEAN /\ resultsClosed \in BOOLEAN
    BY DEF Init
  <2> QED
    BY <2>2, <2>3, <2>4 DEF ChannelType
<1>3. WorkerType
  BY NoJobType DEF Init, WorkerType
<1>4. CloseType
  BY DEF Init, CloseType
<1>5. ConsumerType
  <2>1. << >> \in Seq(Group) /\ Len(<< >>) = 0 /\ {} \in Group
    BY DEF Group
  <2>2. cur \in Seq(Group) /\ emitted \in Seq(Group) /\ tail \in Group
    BY <2>1 DEF Init
  <2>3. nextSeq \in Nat /\ curPos \in 0 .. Len(cur)
    BY <2>1 DEF Init
  <2>4. probeDone \in BOOLEAN /\ tailDone \in BOOLEAN
    BY DEF Init
  <2>5. received \in SUBSET Result /\ outcome \in {"none", "EOF", "error"}
    BY DEF Init
  <2> QED
    BY <2>2, <2>3, <2>4, <2>5 DEF ConsumerType
<1> QED
  BY <1>1, <1>2, <1>3, <1>4, <1>5 DEF Init, TypeOK

\* A step keeps the reader's own variables well typed.
LEMMA ReaderTypeNext == TypeOK /\ [Next]_vars => ReaderType'
<1> SUFFICES ASSUME ReaderType, [Next]_vars PROVE ReaderType'
  BY DEF TypeOK
<1> USE DEF ReaderType
<1>1. CASE Iterate
  BY <1>1 DEF Iterate
<1>2. CASE PullRow
  BY <1>2 DEF PullRow
<1>3. CASE PullEOF
  BY <1>3 DEF PullEOF
<1>4. CASE PullError
  BY <1>4 DEF PullError
<1>5. CASE AppendRow
  <2>1. CASE done
    BY <1>5, <2>1 DEF AppendRow
  <2>2. CASE ~done
    BY <1>5, <2>2 DEF AppendRow
  <2> QED
    BY <2>1, <2>2
<1>6. CASE SendBatch
  BY <1>6 DEF SendBatch
<1>7. CASE AbortSend
  BY <1>7 DEF AbortSend
<1>8. CASE FlushBatch
  BY <1>8 DEF FlushBatch
<1>9. CASE CloseJobs
  BY <1>9 DEF CloseJobs
<1>10. CASE UNCHANGED readerVars
  BY <1>10 DEF readerVars
<1> QED
  BY <1>1, <1>2, <1>3, <1>4, <1>5, <1>6, <1>7, <1>8, <1>9, <1>10, FrameNext DEF
     Frame, ReaderStep, Reader

\* A step keeps both channels well typed and within their capacity.
LEMMA ChannelTypeNext == TypeOK /\ [Next]_vars => ChannelType'
<1> SUFFICES ASSUME TypeOK, [Next]_vars PROVE ChannelType'
  OBVIOUS
<1>Q. query' = query /\ Group' = Group /\ Result' = Result
  BY FrameNext DEF Frame, Group, Result
<1> USE ParamAssumption DEF TypeOK, ChannelType
<1>1. ASSUME PutJob PROVE jobs' \in Seq(Job) /\ Len(jobs') <= QueueDepth
  <2>1. [seq |-> seq, lo |-> lo, hi |-> pos] \in Job
    BY DEF ReaderType, Job
  <2> QED
    BY <1>1, <2>1 DEF PutJob
<1>2. CASE SendBatch
  BY <1>Q, <1>1, <1>2 DEF SendBatch
<1>3. CASE FlushBatch
  BY <1>Q, <1>1, <1>3 DEF FlushBatch
<1>4. CASE CloseJobs
  BY <1>Q, <1>4 DEF CloseJobs
<1>5. CASE CloseResults
  BY <1>Q, <1>5 DEF CloseResults
<1>6. CASE ReceiveResult
  <2>1. Tail(results) \in Seq(Result) /\ Len(Tail(results)) <= QueueDepth
    BY <1>6 DEF ReceiveResult
  <2> QED
    BY <1>Q, <1>6, <2>1 DEF ReceiveResult
<1>7. ASSUME NEW w \in Workers, TakeJob(w) PROVE ChannelType'
  <2>1. Tail(jobs) \in Seq(Job) /\ Len(Tail(jobs)) <= QueueDepth
    BY <1>7 DEF TakeJob
  <2> QED
    BY <1>Q, <1>7, <2>1 DEF TakeJob
<1>8. ASSUME NEW w \in Workers, Publish(w) PROVE ChannelType'
  <2>1. [seq |-> wjob[w].seq, rows |-> JoinBatch(wjob[w])] \in Result
    BY JoinBatchType DEF WorkerType, Job, Result
  <2>2. results' \in Seq(Result) /\ Len(results') <= QueueDepth
    BY <1>8, <2>1 DEF Publish
  <2> QED
    BY <1>Q, <1>8, <2>2 DEF Publish
<1>9. CASE UNCHANGED channelVars
  BY <1>Q, <1>9 DEF channelVars
<1> QED
  BY <1>2, <1>3, <1>4, <1>5, <1>6, <1>7, <1>8, <1>9, FrameNext
     DEF Frame, ChannelStep

\* A step keeps what the workers hold well typed.
LEMMA WorkerTypeNext == TypeOK /\ [Next]_vars => WorkerType'
<1> SUFFICES ASSUME TypeOK, [Next]_vars PROVE WorkerType'
  OBVIOUS
<1>Q. query' = query
  BY FrameNext DEF Frame
<1> USE DEF TypeOK, WorkerType
<1>1. CASE Iterate
  BY <1>Q, <1>1 DEF Iterate
<1>2. ASSUME NEW w \in Workers, TakeJob(w) PROVE WorkerType'
  <2>1. Head(jobs) \in Job
    BY <1>2 DEF TakeJob, ChannelType
  <2> QED
    BY <1>Q, <1>2, <2>1 DEF TakeJob
<1>3. ASSUME NEW w \in Workers, JoinRows(w) PROVE WorkerType'
  <2>1. MatchedKeys(wjob[w]) \subseteq {query.right[j] : j \in DOMAIN query.right}
    BY DEF MatchedKeys, Hash
  <2> QED
    BY <1>Q, <1>3, <2>1 DEF JoinRows
<1>4. ASSUME NEW w \in Workers, Publish(w) PROVE WorkerType'
  BY <1>Q, <1>4, NoJobType DEF Publish
<1>5. ASSUME NEW w \in Workers, DropResult(w) PROVE WorkerType'
  BY <1>Q, <1>5, NoJobType DEF DropResult
<1>6. ASSUME NEW w \in Workers, WorkerExit(w) PROVE WorkerType'
  BY <1>Q, <1>6 DEF WorkerExit
<1>7. CASE UNCHANGED workerVars
  BY <1>Q, <1>7 DEF workerVars
<1> QED
  BY <1>1, <1>2, <1>3, <1>4, <1>5, <1>6, <1>7, FrameNext
     DEF Frame, WorkerStep, Worker

\* A step keeps the flags of Close and of setErr Boolean.
LEMMA CloseTypeNext == TypeOK /\ [Next]_vars => CloseType'
  BY FrameNext DEF TypeOK, CloseType, Frame, CloseStep, closeVars, PullError,
     CloseDone, CloseLeft, consumerVars

\* A step keeps the iterator well typed, curPos inside the batch.
LEMMA ConsumerTypeNext == TypeOK /\ [Next]_vars => ConsumerType'
<1> SUFFICES ASSUME TypeOK, [Next]_vars PROVE ConsumerType'
  OBVIOUS
<1>Q. query' = query /\ Group' = Group /\ Result' = Result
  BY FrameNext DEF Frame, Group, Result
<1> USE DEF TypeOK, ConsumerType, orderVars, tailVars
<1>1. CASE IterateFails
  BY <1>Q, <1>1 DEF IterateFails
<1>2. CASE ReturnRow
  <2>1. curPos' \in 1 .. Len(cur) /\ cur[curPos'] \in Group
    BY <1>2 DEF ReturnRow, Calling, Drained
  <2>2. emitted' \in Seq(Group)
    BY <1>2, <2>1 DEF ReturnRow
  <2> QED
    BY <1>Q, <1>2, <2>1, <2>2 DEF ReturnRow
<1>3. CASE TakeInOrder
  <2>1. cur' \in Seq(Group) /\ received' \in SUBSET Result
    BY <1>3 DEF TakeInOrder, InOrder, Result
  <2>2. 0 \in 0 .. Len(cur')
    BY <2>1
  <2> QED
    BY <1>Q, <1>3, <2>1, <2>2 DEF TakeInOrder
<1>4. CASE ReturnError
  BY <1>Q, <1>4 DEF ReturnError
<1>5. CASE ReturnTail
  <2>1. emitted' \in Seq(Group) /\ {} \in Group
    BY <1>5 DEF ReturnTail, Group
  <2> QED
    BY <1>Q, <1>5, <2>1 DEF ReturnTail
<1>6. CASE MaterializeTail
  <2>1. TailRows \in Group
    BY QueryShape DEF TailRows, Group
  <2> QED
    BY <1>Q, <1>6, <2>1 DEF MaterializeTail
<1>7. CASE ReturnEOF
  BY <1>Q, <1>7 DEF ReturnEOF
<1>8. CASE ReceiveResult
  <2>1. Head(results) \in Result
    BY <1>8 DEF ReceiveResult, ChannelType
  <2>2. received' \in SUBSET Result
    BY <1>8, <2>1 DEF ReceiveResult
  <2> QED
    BY <1>Q, <1>8, <2>2 DEF ReceiveResult
<1>9. CASE SeeResultsClosed
  BY <1>Q, <1>9 DEF SeeResultsClosed
<1>10. CASE SeeDone
  BY <1>Q, <1>10 DEF SeeDone
<1>11. CASE UNCHANGED consumerVars
  BY <1>Q, <1>11 DEF consumerVars
<1> QED
  BY <1>1, <1>2, <1>3, <1>4, <1>5, <1>6, <1>7, <1>8, <1>9, <1>10, <1>11,
     FrameNext DEF Frame, ConsumerStep, Consumer

\* A step keeps every variable well typed.
LEMMA TypeNext == TypeOK /\ [Next]_vars => TypeOK'
<1>1. TypeOK /\ [Next]_vars => (query \in Queries)'
  BY FrameNext DEF TypeOK, Frame
<1> QED
  BY <1>1, ReaderTypeNext, ChannelTypeNext, WorkerTypeNext, CloseTypeNext,
     ConsumerTypeNext DEF TypeOK

(***************************************************************************)
(* Every state of the join is well typed; in particular neither channel    *)
(* ever holds more than its capacity and curPos stays inside the batch.    *)
(***************************************************************************)
THEOREM TypeCorrect == Spec => []TypeOK
<1> QED
  BY TypeInit, TypeNext, PTL DEF Spec

-------------------------------------------------------------------------------
(***************************************************************************)
(* The inductive invariant.                                                *)
(*                                                                         *)
(* Batch s consists of the probe rows after Start(s); once dispatched it   *)
(* is BatchOf(s) and does not change.  Until Close, a dispatched batch is  *)
(* in a channel, with a worker, in received, or has been taken by Next;    *)
(* what Next has returned is therefore the rows of batches 0, 1, 2, ... .  *)
(***************************************************************************)
Start(s) == s * BatchSize

Dispatched(s) ==
    \/ s < seq
    \/ s = seq /\ rpc \in {"close", "exit"} /\ pos > lo

BatchOf(s) == [seq |-> s, lo |-> Start(s),
               hi |-> IF s < seq THEN Start(s + 1) ELSE pos]

GoodJob(job) == Dispatched(job.seq) /\ job = BatchOf(job.seq)

GoodResult(res) ==
    \E s \in 0 .. seq : /\ res.seq = s /\ Dispatched(s)
                       /\ res.rows = JoinBatch(BatchOf(s))

InJobs(s)     == \E n \in DOMAIN jobs : jobs[n].seq = s
WithWorker(s) == \E w \in Workers : wpc[w] \in {"join", "send"} /\ wjob[w].seq = s
InResults(s)  == \E n \in DOMAIN results : results[n].seq = s
InReceived(s) == \E res \in received : res.seq = s

\* Shutdown is ordered: the reader closes jobs as it exits, a worker exits
\* only when jobs is closed and empty, results is closed after all of them.
ShutdownInv ==
    /\ leftClosed => done
    /\ done => Started
    /\ jobsClosed <=> rpc = "exit"
    /\ \A w \in Workers : wpc[w] = "new" <=> rpc = "new"
    /\ (\E w \in Workers : wpc[w] = "exit") => jobsClosed /\ jobs = << >>
    /\ resultsClosed => PipelineDone

ReaderInv ==
    /\ lo = Start(seq)
    /\ pos <= Serial!Readable(query)
    /\ rpc = "new" => pos = 0 /\ seq = 0
    /\ rpc # "send" => pos - lo < BatchSize
    /\ rpc = "send" => pos - lo = BatchSize
    /\ rpc = "check" => pos < Serial!Readable(query)
    /\ rpc \in {"new", "pull", "check", "send"} => ~err
    /\ rpc \in {"flush", "close", "exit"} =>
          pos = Serial!Readable(query) /\ (err <=> query.failAt # 0)

BatchInv ==
    /\ \A n \in DOMAIN jobs : GoodJob(jobs[n])
    /\ \A w \in Workers : wpc[w] \in {"join", "send"} => GoodJob(wjob[w])
    /\ \A n \in DOMAIN results : GoodResult(results[n])
    /\ \A res \in received : GoodResult(res)

NoBatchLost ==
    \A s \in 0 .. seq : Dispatched(s) /\ nextSeq <= s =>
        InJobs(s) \/ WithWorker(s) \/ InResults(s) \/ InReceived(s)

\* A probe row not yet seen by joinBatch, if the matched map is kept.
Pending(i) ==
    \/ lo < i /\ rpc \notin {"close", "exit"}
    \/ \E n \in DOMAIN jobs : jobs[n].lo < i /\ i <= jobs[n].hi
    \/ \E w \in Workers : wpc[w] = "join" /\ wjob[w].lo < i /\ i <= wjob[w].hi

MatchedInv ==
    /\ matched \subseteq {query.left[i] : i \in DOMAIN query.left}
    /\ query.joinType \in {"RIGHT", "FULL"} =>
          \A i \in 1 .. pos : \/ Pending(i)
                              \/ Hash(query.left[i]) = {}
                              \/ query.left[i] \in matched

\* Probe rows whose groups Next has returned, and whether it returned the tail.
Returned == IF nextSeq = 0 THEN 0 ELSE Start(nextSeq - 1) + curPos
TailReturned == tailDone /\ tail = {} /\ TailRows # {}

OutputInv ==
    /\ nextSeq = 0 => cur = << >>
    /\ nextSeq # 0 => \E s \in Nat : /\ nextSeq = s + 1 /\ Dispatched(s)
                                     /\ cur = JoinBatch(BatchOf(s))
    /\ Len(emitted) = Returned + (IF TailReturned THEN 1 ELSE 0)
    /\ \A i \in 1 .. Returned : emitted[i] = JoinRow(i)
    /\ TailReturned => emitted[Returned + 1] = TailRows

ProbeOver == probeDone /\ Drained /\ InOrder = {}

EndInv ==
    /\ rpc = "new" => nextSeq = 0 /\ ~probeDone /\ ~tailDone
    /\ probeDone => resultsClosed /\ results = << >>
    /\ tailDone => ProbeOver /\ ~err /\ tail \in {TailRows, {}}
    /\ ~tailDone => tail = {}
    /\ outcome = "EOF" => tailDone /\ tail = {}
    /\ outcome = "error" /\ Started => ProbeOver /\ err

UntilClose == ReaderInv /\ BatchInv /\ NoBatchLost /\ MatchedInv /\ OutputInv
              /\ EndInv

IInv == TypeOK /\ ShutdownInv /\ (~done => UntilClose)

-------------------------------------------------------------------------------
(* Facts about sequences, batches and the owners of the variables. *)

\* The elements of a sequence with one more at its end.
LEMMA AppendElements ==
    ASSUME NEW S, NEW sq \in Seq(S), NEW e \in S
    PROVE  /\ DOMAIN Append(sq, e) = 1 .. Len(sq) + 1
           /\ DOMAIN sq = 1 .. Len(sq)
           /\ \A n \in 1 .. Len(sq) : Append(sq, e)[n] = sq[n]
           /\ Append(sq, e)[Len(sq) + 1] = e
  OBVIOUS

\* The elements of a sequence without its first.
LEMMA TailElements ==
    ASSUME NEW S, NEW sq \in Seq(S), sq # << >>
    PROVE  /\ Len(sq) >= 1 /\ DOMAIN sq = 1 .. Len(sq)
           /\ Head(sq) = sq[1]
           /\ DOMAIN Tail(sq) = 1 .. Len(sq) - 1
           /\ \A n \in 1 .. Len(sq) - 1 : Tail(sq)[n] = sq[n + 1]
  OBVIOUS

\* Batch n starts where n full batches end.
LEMMA StartProperties ==
    /\ Start(0) = 0
    /\ \A s \in Nat : Start(s) \in Nat /\ Start(s + 1) = Start(s) + BatchSize
    /\ \A s, t \in Nat : s <= t => Start(s) <= Start(t)
<1>1. \A s, t \in Nat : s <= t => s * BatchSize <= t * BatchSize
  BY ParamAssumption
<1> QED
  BY <1>1, ParamAssumption DEF Start

\* What a step of the reader leaves alone.
LEMMA ReaderFrame ==
    Reader => UNCHANGED <<results, resultsClosed, workerVars, closeVars,
                          consumerVars>>
  BY DEF Reader, PullRow, PullEOF, PullError, AppendRow, SendBatch, AbortSend,
     FlushBatch, CloseJobs, channelVars

\* What a step of a worker leaves alone.
LEMMA WorkerFrame ==
    ASSUME NEW w \in Workers, Worker(w)
    PROVE  UNCHANGED <<readerVars, jobsClosed, resultsClosed, closeVars, err,
                       consumerVars>>
  BY DEF Worker, TakeJob, JoinRows, Publish, DropResult, WorkerExit, channelVars

\* What a step of the caller leaves alone.
LEMMA ConsumerFrame ==
    IterateFails \/ Consumer =>
        UNCHANGED <<readerVars, jobs, jobsClosed, resultsClosed, workerVars,
                    closeVars, err>>
  BY DEF IterateFails, Consumer, ReturnRow, TakeInOrder, ReturnError,
     ReturnTail, MaterializeTail, ReturnEOF, ReceiveResult, SeeResultsClosed,
     SeeDone, channelVars

\* Until Close, nobody has begun to close.
LEMMA DoneStable == [Next]_vars /\ ~done' => ~done
  BY FrameNext DEF Frame, CloseStep, PullError, CloseDone, CloseLeft, closeVars

-------------------------------------------------------------------------------
(* Each part of the invariant is preserved. *)

\* A step keeps the order in which goroutines end and channels close.
LEMMA ShutdownNext == TypeOK /\ ShutdownInv /\ [Next]_vars => ShutdownInv'
<1> SUFFICES ASSUME TypeOK, ShutdownInv, [Next]_vars PROVE ShutdownInv'
  OBVIOUS
<1> USE DEF TypeOK, ReaderType, WorkerType, ShutdownInv, PipelineDone, Started,
        readerVars, workerVars, closeVars
<1>1. CASE Iterate
  BY <1>1 DEF Iterate, channelVars
<1>2. CASE PullRow \/ PullEOF \/ PullError \/ AppendRow \/ SendBatch
           \/ AbortSend \/ FlushBatch
  <2>1. rpc \notin {"new", "close", "exit"} /\ rpc' \notin {"new", "exit"}
    BY <1>2 DEF PullRow, PullEOF, PullError, AppendRow, SendBatch, AbortSend,
       FlushBatch
  <2>2. jobsClosed' = jobsClosed
    BY <1>2 DEF PullRow, PullEOF, PullError, AppendRow, SendBatch, AbortSend,
       FlushBatch, channelVars
  <2> QED
    BY <1>2, <2>1, <2>2, ReaderFrame DEF Reader
<1>3. CASE CloseJobs
  BY <1>3 DEF CloseJobs
<1>4. ASSUME NEW w \in Workers, TakeJob(w) PROVE ShutdownInv'
  BY <1>4, WorkerFrame DEF Worker, TakeJob
<1>5. ASSUME NEW w \in Workers, JoinRows(w) PROVE ShutdownInv'
  BY <1>5, WorkerFrame DEF Worker, JoinRows, channelVars
<1>6. ASSUME NEW w \in Workers, Publish(w) PROVE ShutdownInv'
  BY <1>6, WorkerFrame DEF Worker, Publish
<1>7. ASSUME NEW w \in Workers, DropResult(w) PROVE ShutdownInv'
  BY <1>7, WorkerFrame DEF Worker, DropResult, channelVars
<1>8. ASSUME NEW w \in Workers, WorkerExit(w) PROVE ShutdownInv'
  BY <1>8, WorkerFrame DEF Worker, WorkerExit, channelVars
<1>9. CASE CloseResults
  BY <1>9 DEF CloseResults
<1>10. CASE IterateFails \/ Consumer
  BY <1>10, ConsumerFrame
<1>11. CASE CloseDone \/ CloseLeft
  BY <1>11 DEF CloseDone, CloseLeft, channelVars
<1>12. CASE UNCHANGED vars
  BY <1>12 DEF vars, channelVars
<1> QED
  BY <1>1, <1>2, <1>3, <1>4, <1>5, <1>6, <1>7, <1>8, <1>9, <1>10, <1>11, <1>12
     DEF Next, Reader, Worker

\* Until Close, a step keeps what the position of the reader says.
LEMMA ReaderNext ==
    TypeOK /\ ShutdownInv /\ ReaderInv /\ ~done' /\ [Next]_vars => ReaderInv'
<1> SUFFICES ASSUME TypeOK, ShutdownInv, ReaderInv, ~done', [Next]_vars
             PROVE  ReaderInv'
  OBVIOUS
<1>D. ~done /\ ~leftClosed
  BY DoneStable DEF ShutdownInv
<1>Q. query' = query /\ Serial!Readable(query)' = Serial!Readable(query)
  BY FrameNext DEF Frame, Serial!Readable
<1>S. query \in Queries /\ seq \in Nat /\ pos \in Nat /\ lo \in Nat
  BY DEF TypeOK, ReaderType
<1> USE DEF ReaderInv
<1>R. pos < NumLeft /\ query.failAt # pos + 1 => pos < Serial!Readable(query)
  BY <1>S, QueryShape DEF Serial!Readable, NumLeft
<1>1. CASE Iterate
  BY <1>1, <1>Q DEF Iterate
<1>2. CASE PullRow
  BY <1>2, <1>Q, <1>R DEF PullRow
<1>3. CASE PullEOF
  <2>1. pos = Serial!Readable(query) /\ query.failAt = 0
    BY <1>3, <1>D, <1>S, QueryShape DEF PullEOF, Serial!Readable, NumLeft
  <2> QED
    BY <1>3, <1>Q, <2>1 DEF PullEOF
<1>4. CASE PullError
  <2>1. pos = Serial!Readable(query) /\ query.failAt # 0
    BY <1>4, <1>D, <1>S DEF PullError, Serial!Readable
  <2> QED
    BY <1>4, <1>Q, <2>1 DEF PullError
<1>5. CASE AppendRow
  <2>1. pos' = pos + 1 /\ rpc' = IF pos' - lo >= BatchSize THEN "send" ELSE "pull"
    BY <1>5, <1>D DEF AppendRow
  <2>2. lo' = lo /\ seq' = seq /\ err' = err
    BY <1>5 DEF AppendRow
  <2>3. rpc = "check"
    BY <1>5 DEF AppendRow
  <2>4. pos' <= Serial!Readable(query)
    <3>1. Serial!Readable(query) \in Int
      BY <1>S, QueryShape DEF Serial!Readable
    <3> QED
      BY <2>1, <2>3, <3>1, <1>S
  <2> QED
    BY <1>Q, <1>S, <2>1, <2>2, <2>3, <2>4, ParamAssumption DEF Start
<1>6. CASE SendBatch
  <2>1. lo' = Start(seq') /\ lo' = pos /\ pos' = pos /\ rpc' = "pull" /\ err' = err
    BY <1>6, <1>S, StartProperties DEF SendBatch
  <2>2. rpc = "send"
    BY <1>6 DEF SendBatch
  <2> QED
    BY <1>Q, <1>S, <2>1, <2>2, ParamAssumption
<1>7. CASE AbortSend
  BY <1>7, <1>D DEF AbortSend
<1>8. CASE FlushBatch
  BY <1>8, <1>Q DEF FlushBatch, Start
<1>9. CASE CloseJobs
  BY <1>9, <1>Q DEF CloseJobs, Start
<1>10. CASE CloseStep
  BY <1>10, <1>4, <1>Q DEF CloseStep, CloseDone, CloseLeft, readerVars, Start
<1>11. CASE UNCHANGED <<readerVars, closeVars, err>>
  BY <1>11, <1>Q DEF readerVars, Start
<1> QED
  BY <1>1, <1>2, <1>3, <1>4, <1>5, <1>6, <1>7, <1>8, <1>9, <1>10, <1>11,
     FrameNext DEF Frame, ReaderStep, Reader

(***************************************************************************)
(* A dispatched batch stays what it is.                                    *)
(***************************************************************************)
LEMMA DispatchStable ==
    ASSUME TypeOK, ReaderInv, [Next]_vars, ~done'
    PROVE  /\ \A s \in Nat : Dispatched(s) => /\ Dispatched(s)'
                                              /\ BatchOf(s)' = BatchOf(s)
                                              /\ BatchOf(s) \in Job
           /\ \A job \in Job : JoinBatch(job)' = JoinBatch(job)
<1>D. ~done
  BY DoneStable
<1>T. seq \in Nat /\ pos \in Nat /\ lo \in Nat /\ lo <= pos /\ lo = Start(seq)
  BY DEF TypeOK, ReaderType, ReaderInv
<1>1. /\ seq' \in {seq, seq + 1}
      /\ rpc \in {"close", "exit"} =>
            rpc' \in {"close", "exit"} /\ pos' = pos /\ lo' = lo /\ seq' = seq
  <2>1. CASE Iterate
    BY <2>1 DEF Iterate
  <2>2. CASE Reader
    BY <2>2, <1>T DEF Reader, PullRow, PullEOF, PullError, AppendRow, SendBatch,
       AbortSend, FlushBatch, CloseJobs
  <2>3. CASE UNCHANGED readerVars
    BY <2>3 DEF readerVars
  <2> QED
    BY <2>1, <2>2, <2>3, FrameNext DEF Frame, ReaderStep
<1>2. ASSUME NEW s \in Nat, Dispatched(s)
      PROVE  Dispatched(s)' /\ BatchOf(s)' = BatchOf(s) /\ BatchOf(s) \in Job
  <2>1. CASE s < seq
    <3>1. s < seq'
      BY <1>1, <1>T, <2>1
    <3>2. Start(s) \in Nat /\ Start(s + 1) \in Nat /\ Start(s) <= Start(s + 1)
      BY StartProperties
    <3> QED
      BY <2>1, <3>1, <3>2 DEF Dispatched, BatchOf, Job
  <2>2. CASE ~(s < seq)
    <3>1. s = seq /\ rpc \in {"close", "exit"} /\ pos > lo
      BY <1>2, <2>2 DEF Dispatched
    <3> QED
      BY <1>1, <1>T, <3>1 DEF Dispatched, BatchOf, Job
  <2> QED
    BY <2>1, <2>2
<1>3. ASSUME NEW job \in Job PROVE JoinBatch(job)' = JoinBatch(job)
  BY FrameNext DEF Frame, JoinBatch, JoinRow, Hash
<1> QED
  BY <1>2, <1>3

\* Until Close, a batch that is right stays right.
LEMMA GoodStable ==
    ASSUME TypeOK, ReaderInv, [Next]_vars, ~done'
    PROVE  /\ \A job \in Job : GoodJob(job) => GoodJob(job)'
           /\ \A res \in Result : GoodResult(res) => GoodResult(res)'
<1>1. ASSUME NEW job \in Job, GoodJob(job) PROVE GoodJob(job)'
  BY <1>1, DispatchStable DEF GoodJob, Job
<1>2. ASSUME NEW res \in Result, GoodResult(res) PROVE GoodResult(res)'
  <2>1. PICK s \in 0 .. seq : /\ res.seq = s /\ Dispatched(s)
                             /\ res.rows = JoinBatch(BatchOf(s))
    BY <1>2 DEF GoodResult
  <2>2. s \in Nat /\ seq' \in Nat
    BY ReaderTypeNext DEF TypeOK, ReaderType
  <2>3. Dispatched(s)' /\ BatchOf(s)' = BatchOf(s) /\ BatchOf(s) \in Job
    BY <2>1, <2>2, DispatchStable
  <2>4. JoinBatch(BatchOf(s))' = JoinBatch(BatchOf(s))
    BY <2>3, FrameNext DEF JoinBatch, JoinRow, Hash, Frame
  <2>5. s \in 0 .. seq'
    BY <2>2, <2>3 DEF Dispatched
  <2> QED
    BY <2>1, <2>3, <2>4, <2>5 DEF GoodResult
<1> QED
  BY <1>1, <1>2

\* The job the reader enqueues is the current batch.
LEMMA PutJobGood ==
    ASSUME TypeOK, ReaderInv, PutJob,
           SendBatch \/ (FlushBatch /\ pos > lo)
    PROVE  \E job \in Job :
              /\ job.seq = seq /\ job.lo = lo /\ job.hi = pos
              /\ GoodJob(job)'
              /\ jobs' = Append(jobs, job)
<1>T. /\ seq \in Nat /\ pos \in Nat /\ lo \in Nat /\ lo <= pos /\ lo = Start(seq)
  BY DEF TypeOK, ReaderType, ReaderInv
<1>1. PICK job \in Job : job = [seq |-> seq, lo |-> lo, hi |-> pos]
  BY <1>T DEF Job
<1>2. GoodJob(job)'
  <2>1. CASE SendBatch
    <3>1. seq' = seq + 1 /\ pos - lo = BatchSize
      BY <2>1 DEF SendBatch, ReaderInv
    <3>2. Start(seq + 1) = pos
      BY <1>T, <3>1, StartProperties, ParamAssumption
    <3> QED
      BY <1>T, <1>1, <3>1, <3>2 DEF GoodJob, Dispatched, BatchOf
  <2>2. CASE FlushBatch /\ pos > lo
    BY <1>T, <1>1, <2>2 DEF FlushBatch, GoodJob, Dispatched, BatchOf
  <2> QED
    BY <2>1, <2>2
<1> QED
  BY <1>1, <1>2 DEF PutJob

\* Until Close, a step keeps every batch in flight right and unique.
LEMMA BatchNext ==
    ASSUME TypeOK, ReaderInv, BatchInv, ~done', [Next]_vars
    PROVE  BatchInv'
<1>T. /\ jobs \in Seq(Job) /\ results \in Seq(Result) /\ received \in SUBSET Result
      /\ wjob \in [Workers -> Job]
      /\ wpc \in [Workers -> {"new", "recv", "join", "send", "exit"}]
  BY DEF TypeOK, ChannelType, WorkerType, ConsumerType
<1>D. ~done
  BY DoneStable
<1>1. \A n \in DOMAIN jobs' : \E job \in Job : jobs'[n] = job /\ GoodJob(job)'
  <2>0. ASSUME NEW n \in DOMAIN jobs
        PROVE  jobs[n] \in Job /\ \E job \in Job : jobs[n] = job /\ GoodJob(job)'
    BY <1>T, GoodStable DEF BatchInv
  <2>1. CASE SendBatch \/ (FlushBatch /\ pos > lo)
    <3>1. PutJob
      <4>1. pos > lo => pos # lo
        BY DEF TypeOK, ReaderType
      <4> QED
        BY <2>1, <4>1, <1>D DEF SendBatch, FlushBatch
    <3>2. PICK job \in Job : GoodJob(job)' /\ jobs' = Append(jobs, job)
      BY <2>1, <3>1, PutJobGood
    <3>3. /\ DOMAIN jobs' = 1 .. Len(jobs) + 1
          /\ DOMAIN jobs = 1 .. Len(jobs)
          /\ \A n \in 1 .. Len(jobs) : jobs'[n] = jobs[n]
          /\ jobs'[Len(jobs) + 1] = job
      BY <1>T, <3>2, AppendElements
    <3>4. Len(jobs) \in Nat
      BY <1>T
    <3> QED
      BY <2>0, <3>2, <3>3, <3>4
  <2>2. ASSUME NEW w \in Workers, TakeJob(w)
        PROVE  \A n \in DOMAIN jobs' : n + 1 \in DOMAIN jobs /\ jobs'[n] = jobs[n + 1]
    BY <1>T, <2>2, TailElements DEF TakeJob
  <2>3. CASE jobs' = jobs
    BY <2>0, <2>3
  <2>4. \/ SendBatch \/ (FlushBatch /\ pos > lo) \/ jobs' = jobs
        \/ \E w \in Workers : TakeJob(w)
    BY FrameNext DEF Frame, ChannelStep, FlushBatch, TypeOK, ReaderType,
       CloseJobs, CloseResults, ReceiveResult, Publish, channelVars
  <2> QED
    BY <2>0, <2>1, <2>2, <2>3, <2>4
<1>2. ASSUME NEW w \in Workers, wpc'[w] \in {"join", "send"}
      PROVE  \E job \in Job : wjob'[w] = job /\ GoodJob(job)'
  <2>1. CASE wpc[w] \in {"join", "send"} /\ wjob'[w] = wjob[w]
    BY <1>T, <2>1, GoodStable DEF BatchInv
  <2>2. CASE TakeJob(w)
    <3>1. wjob'[w] = jobs[1] /\ 1 \in DOMAIN jobs
      BY <1>T, <2>2, TailElements DEF TakeJob
    <3> QED
      BY <1>T, <3>1, GoodStable DEF BatchInv
  <2>3. TakeJob(w) \/ (wpc[w] \in {"join", "send"} /\ wjob'[w] = wjob[w])
    <3>1. ASSUME NEW v \in Workers, Worker(v)
          PROVE  TakeJob(w) \/ (wpc[w] \in {"join", "send"} /\ wjob'[w] = wjob[w])
      BY <1>T, <1>2, <3>1 DEF Worker, TakeJob, JoinRows, Publish, DropResult,
         WorkerExit
    <3>2. ~Iterate
      BY <1>2 DEF Iterate
    <3> QED
      BY <1>2, <3>1, <3>2, FrameNext DEF Frame, WorkerStep, workerVars
  <2> QED
    BY <2>1, <2>2, <2>3
<1>3. \A n \in DOMAIN results' :
         \E res \in Result : results'[n] = res /\ GoodResult(res)'
  <2>0. ASSUME NEW n \in DOMAIN results
        PROVE  \E res \in Result : results[n] = res /\ GoodResult(res)'
    BY <1>T, GoodStable DEF BatchInv
  <2>1. ASSUME NEW w \in Workers, Publish(w)
        PROVE  \A n \in DOMAIN results' :
                  \E res \in Result : results'[n] = res /\ GoodResult(res)'
    <3>1. PICK res \in Result :
             res = [seq |-> wjob[w].seq, rows |-> JoinBatch(wjob[w])]
      BY <1>T, JoinBatchType DEF Job, Result, TypeOK
    <3>2. GoodResult(res)
      <4>1. wjob[w] = BatchOf(wjob[w].seq) /\ Dispatched(wjob[w].seq)
        BY <2>1 DEF Publish, BatchInv, GoodJob
      <4>2. wjob[w].seq \in 0 .. seq
        BY <1>T, <4>1 DEF Job, Dispatched, TypeOK, ReaderType
      <4> QED
        BY <3>1, <4>1, <4>2 DEF GoodResult
    <3>3. /\ DOMAIN results' = 1 .. Len(results) + 1
          /\ DOMAIN results = 1 .. Len(results)
          /\ \A n \in 1 .. Len(results) : results'[n] = results[n]
          /\ results'[Len(results) + 1] = res
      BY <1>T, <2>1, <3>1, AppendElements DEF Publish
    <3>4. Len(results) \in Nat
      BY <1>T
    <3> QED
      BY <2>0, <3>2, <3>3, <3>4, GoodStable
  <2>2. CASE ReceiveResult
    <3>1. \A n \in DOMAIN results' :
             n + 1 \in DOMAIN results /\ results'[n] = results[n + 1]
      BY <1>T, <2>2, TailElements DEF ReceiveResult
    <3> QED
      BY <2>0, <3>1
  <2>3. CASE results' = results
    BY <2>0, <2>3
  <2>4. \/ ReceiveResult \/ results' = results
        \/ \E w \in Workers : Publish(w)
    BY FrameNext DEF Frame, ChannelStep, FlushBatch, SendBatch, CloseJobs,
       CloseResults, TakeJob, channelVars
  <2> QED
    BY <2>1, <2>2, <2>3, <2>4
<1>4. ASSUME NEW res \in received' PROVE GoodResult(res)' /\ res \in Result
  <2>1. CASE res \in received
    BY <1>T, <2>1, GoodStable DEF BatchInv
  <2>2. CASE res \notin received
    <3>1. ReceiveResult /\ res = results[1] /\ 1 \in DOMAIN results
      <4>1. ReceiveResult
        BY <1>4, <2>2, FrameNext DEF Frame, ConsumerStep, Consumer, consumerVars,
           orderVars, IterateFails, ReturnRow, TakeInOrder, ReturnError,
           ReturnTail, MaterializeTail, ReturnEOF, SeeResultsClosed, SeeDone
      <4> QED
        BY <1>T, <1>4, <2>2, <4>1, TailElements DEF ReceiveResult
    <3> QED
      BY <1>T, <3>1, GoodStable DEF BatchInv
  <2> QED
    BY <2>1, <2>2
<1>5. \A n \in DOMAIN jobs' : GoodJob(jobs[n])'
  BY <1>1 DEF GoodJob, Dispatched, BatchOf
<1>6. \A w \in Workers : wpc'[w] \in {"join", "send"} => GoodJob(wjob[w])'
  BY <1>2 DEF GoodJob, Dispatched, BatchOf
<1>7. \A n \in DOMAIN results' : GoodResult(results[n])'
  BY <1>3 DEF GoodResult
<1> QED
  BY <1>4, <1>5, <1>6, <1>7 DEF BatchInv

(***************************************************************************)
(* A job that has been enqueued is either still queued or with a worker    *)
(* that has not joined it yet.                                             *)
(***************************************************************************)
LEMMA JobKept ==
    ASSUME TypeOK, [Next]_vars, NEW n \in DOMAIN jobs
    PROVE  \/ \E m \in DOMAIN jobs' : jobs'[m] = jobs[n]
           \/ \E w \in Workers : wpc'[w] = "join" /\ wjob'[w] = jobs[n]
<1>T. /\ jobs \in Seq(Job) /\ wjob \in [Workers -> Job] /\ jobs # << >>
      /\ wpc \in [Workers -> {"new", "recv", "join", "send", "exit"}]
      /\ n \in 1 .. Len(jobs) /\ Len(jobs) \in Nat
  BY DEF TypeOK, ChannelType, WorkerType
<1>1. CASE jobs' = jobs
  BY <1>1
<1>2. ASSUME NEW job \in Job, jobs' = Append(jobs, job)
      PROVE  \E m \in DOMAIN jobs' : jobs'[m] = jobs[n]
  BY <1>T, <1>2, AppendElements
<1>3. ASSUME NEW w \in Workers, TakeJob(w)
      PROVE  \/ \E m \in DOMAIN jobs' : jobs'[m] = jobs[n]
             \/ wpc'[w] = "join" /\ wjob'[w] = jobs[n]
  <2>1. /\ jobs' = Tail(jobs) /\ wjob'[w] = Head(jobs) /\ wpc'[w] = "join"
    BY <1>T, <1>3 DEF TakeJob
  <2>2. CASE n = 1
    BY <1>T, <2>1, <2>2, TailElements
  <2>3. CASE n # 1
    <3>1. n - 1 \in 1 .. Len(jobs) - 1 /\ (n - 1) + 1 = n
      BY <1>T, <2>3
    <3>2. n - 1 \in DOMAIN jobs' /\ jobs'[n - 1] = jobs[n]
      BY <1>T, <2>1, <3>1, TailElements
    <3> QED
      BY <3>2
  <2> QED
    BY <2>2, <2>3
<1>4. \/ jobs' = jobs \/ PutJob \/ \E w \in Workers : TakeJob(w)
  BY FrameNext DEF Frame, ChannelStep, FlushBatch, SendBatch, CloseJobs,
     CloseResults, ReceiveResult, Publish, channelVars
<1>5. PutJob => \E job \in Job : jobs' = Append(jobs, job)
  BY DEF PutJob, TypeOK, ReaderType, Job
<1> QED
  BY <1>1, <1>2, <1>3, <1>4, <1>5

\* Until Close, a step loses no batch between reader and caller.
LEMMA NoBatchLostNext ==
    ASSUME TypeOK, ReaderInv, NoBatchLost, ~done', [Next]_vars
    PROVE  NoBatchLost'
<1>T. /\ jobs \in Seq(Job) /\ results \in Seq(Result)
      /\ wjob \in [Workers -> Job] /\ received \in SUBSET Result
      /\ wpc \in [Workers -> {"new", "recv", "join", "send", "exit"}]
      /\ seq \in Nat /\ pos \in Nat /\ lo \in Nat /\ lo <= pos /\ nextSeq \in Nat
      /\ seq' \in Nat /\ nextSeq' \in Nat
  <2>1. ReaderType' /\ ConsumerType'
    BY ReaderTypeNext, ConsumerTypeNext
  <2>2. seq' \in Nat /\ nextSeq' \in Nat
    BY <2>1 DEF ReaderType, ConsumerType
  <2> QED
    BY <2>2 DEF TypeOK, ChannelType, WorkerType, ReaderType, ConsumerType
<1>D. ~done
  BY DoneStable
<1> SUFFICES ASSUME NEW s \in 0 .. seq', Dispatched(s)', nextSeq' <= s
             PROVE  InJobs(s)' \/ WithWorker(s)' \/ InResults(s)' \/ InReceived(s)'
  BY DEF NoBatchLost
<1>N. nextSeq <= nextSeq' /\ (nextSeq' = nextSeq \/ TakeInOrder)
  <2>1. TakeInOrder => nextSeq' = nextSeq + 1
    BY DEF TakeInOrder
  <2>2. nextSeq' = nextSeq \/ TakeInOrder
    BY FrameNext DEF Frame, ConsumerStep, Consumer, consumerVars, orderVars,
       IterateFails, ReturnRow, ReturnError, ReturnTail, MaterializeTail,
       ReturnEOF, ReceiveResult, SeeResultsClosed, SeeDone
  <2> QED
    BY <1>T, <2>1, <2>2
<1>1. CASE Dispatched(s)
  <2>1. nextSeq <= s /\ s \in 0 .. seq
    BY <1>T, <1>N, <1>1 DEF Dispatched
  <2>2. CASE InJobs(s)
    <3>1. PICK n \in DOMAIN jobs : jobs[n].seq = s
      BY <2>2 DEF InJobs
    <3> QED
      BY <3>1, JobKept DEF InJobs, WithWorker
  <2>3. CASE WithWorker(s)
    <3>1. PICK w \in Workers : wpc[w] \in {"join", "send"} /\ wjob[w].seq = s
      BY <2>3 DEF WithWorker
    <3>2. CASE Publish(w)
      <4>1. PICK res : res.seq = s /\ results' = Append(results, res)
                       /\ res \in Result
        <5>1. [seq |-> wjob[w].seq, rows |-> JoinBatch(wjob[w])] \in Result
          BY <1>T, JoinBatchType DEF Job, Result, TypeOK
        <5> QED
          BY <3>1, <3>2, <5>1 DEF Publish
      <4>2. /\ Len(results) + 1 \in DOMAIN results'
            /\ results'[Len(results) + 1] = res
        BY <1>T, <4>1, AppendElements
      <4> QED
        BY <4>1, <4>2 DEF InResults
    <3>3. CASE ~Publish(w)
      <4>1. wpc'[w] \in {"join", "send"} /\ wjob'[w] = wjob[w]
        <5>1. ASSUME NEW v \in Workers, Worker(v)
              PROVE  wpc'[w] \in {"join", "send"} /\ wjob'[w] = wjob[w]
          BY <1>T, <1>D, <3>1, <3>3, <5>1 DEF Worker, TakeJob, JoinRows,
             Publish, DropResult, WorkerExit
        <5>2. ~Iterate
          <6>1. ~Iterate \/ rpc = "new"
            BY DEF Iterate
          <6>2. rpc = "new" => ~Dispatched(s)
            BY <1>T DEF Dispatched, ReaderInv
          <6> QED
            BY <1>1, <6>1, <6>2
        <5> QED
          BY <3>1, <5>1, <5>2, FrameNext DEF Frame, WorkerStep, workerVars
      <4> QED
        BY <3>1, <4>1 DEF WithWorker
    <3> QED
      BY <3>2, <3>3
  <2>4. CASE InResults(s)
    <3>1. PICK n \in DOMAIN results : results[n].seq = s
      BY <2>4 DEF InResults
    <3>2. n \in 1 .. Len(results) /\ Len(results) \in Nat
      BY <1>T
    <3>3. CASE ReceiveResult
      <4>1. CASE n = 1
        BY <1>T, <3>1, <3>3, <4>1, TailElements DEF ReceiveResult, InReceived
      <4>2. CASE n # 1
        <5>1. n - 1 \in 1 .. Len(results) - 1 /\ (n - 1) + 1 = n
          BY <3>2, <4>2
        <5>2. n - 1 \in DOMAIN results' /\ results'[n - 1] = results[n]
          BY <1>T, <3>3, <5>1, TailElements DEF ReceiveResult
        <5> QED
          BY <3>1, <5>2 DEF InResults
      <4> QED
        BY <4>1, <4>2
    <3>4. ASSUME NEW w \in Workers, Publish(w)
          PROVE  n \in DOMAIN results' /\ results'[n] = results[n]
      <4>1. PICK res \in Result : results' = Append(results, res)
        BY <1>T, <3>4, JoinBatchType DEF Publish, Job, Result, TypeOK
      <4> QED
        BY <1>T, <3>2, <4>1, AppendElements
    <3>5. \/ ReceiveResult \/ results' = results
          \/ \E w \in Workers : Publish(w)
      BY FrameNext DEF Frame, ChannelStep, FlushBatch, SendBatch, CloseJobs,
         CloseResults, TakeJob, channelVars
    <3> QED
      BY <3>1, <3>3, <3>4, <3>5 DEF InResults
  <2>5. CASE InReceived(s)
    <3>1. PICK res \in received : res.seq = s
      BY <2>5 DEF InReceived
    <3>2. TakeInOrder => s # nextSeq
      BY <1>T DEF TakeInOrder
    <3>3. res \in received'
      BY <3>1, <3>2, FrameNext DEF Frame, ConsumerStep, Consumer, consumerVars,
         orderVars, IterateFails, ReturnRow, TakeInOrder, InOrder, ReturnError,
         ReturnTail, MaterializeTail, ReturnEOF, ReceiveResult,
         SeeResultsClosed, SeeDone
    <3> QED
      BY <3>1, <3>3 DEF InReceived
  <2> QED
    BY <1>1, <2>1, <2>2, <2>3, <2>4, <2>5 DEF NoBatchLost
<1>2. CASE ~Dispatched(s)
  <2>1. s = seq /\ (SendBatch \/ (FlushBatch /\ pos > lo))
    <3>1. CASE SendBatch
      BY <1>T, <1>2, <3>1 DEF SendBatch, Dispatched
    <3>2. CASE FlushBatch
      BY <1>T, <1>2, <3>2 DEF FlushBatch, Dispatched
    <3>3. ~SendBatch /\ ~FlushBatch => Dispatched(s)
      <4>1. CASE Iterate
        BY <1>T, <4>1 DEF Iterate, Dispatched
      <4>2. CASE Reader /\ ~SendBatch /\ ~FlushBatch
        BY <1>T, <4>2 DEF Reader, PullRow, PullEOF, PullError, AppendRow,
           AbortSend, CloseJobs, Dispatched
      <4>3. CASE UNCHANGED readerVars
        BY <4>3 DEF readerVars, Dispatched
      <4> QED
        BY <4>1, <4>2, <4>3, FrameNext DEF Frame, ReaderStep
    <3> QED
      BY <1>2, <3>1, <3>2, <3>3
  <2>2. PutJob
    <3>1. pos > lo => pos # lo
      BY <1>T
    <3> QED
      BY <1>D, <2>1, <3>1 DEF SendBatch, FlushBatch
  <2>3. PICK job \in Job : job.seq = seq /\ jobs' = Append(jobs, job)
    BY <2>1, <2>2, PutJobGood
  <2>4. Len(jobs) + 1 \in DOMAIN jobs' /\ jobs'[Len(jobs) + 1] = job
    BY <1>T, <2>3, AppendElements
  <2> QED
    BY <2>1, <2>3, <2>4 DEF InJobs
<1> QED
  BY <1>1, <1>2

\* The rows of a dispatched batch are rows the reader has read.
LEMMA BatchBounds ==
    ASSUME TypeOK, ReaderInv, NEW s \in Nat, Dispatched(s)
    PROVE  /\ BatchOf(s) \in Job
           /\ BatchOf(s).lo = Start(s) /\ BatchOf(s).hi <= pos
           /\ s < seq => BatchOf(s).hi = Start(s + 1)
<1>T. seq \in Nat /\ pos \in Nat /\ lo \in Nat /\ lo <= pos /\ lo = Start(seq)
  BY DEF TypeOK, ReaderType, ReaderInv
<1>1. /\ Start(s) \in Nat /\ Start(s + 1) \in Nat
      /\ Start(s) <= Start(s + 1)
      /\ s < seq => Start(s + 1) <= Start(seq)
  BY <1>T, StartProperties
<1>2. CASE s < seq
  BY <1>T, <1>1, <1>2 DEF BatchOf, Job
<1>3. CASE ~(s < seq)
  BY <1>T, <1>1, <1>3 DEF BatchOf, Job, Dispatched
<1> QED
  BY <1>2, <1>3

\* Until Close, a step keeps the matched keys those of the joined batches.
LEMMA MatchedNext ==
    ASSUME TypeOK, ReaderInv, BatchInv, MatchedInv, ~done', [Next]_vars
    PROVE  MatchedInv'
<1>T. /\ jobs \in Seq(Job) /\ wjob \in [Workers -> Job]
      /\ wpc \in [Workers -> {"new", "recv", "join", "send", "exit"}]
      /\ seq \in Nat /\ pos \in Nat /\ lo \in Nat /\ lo <= pos
      /\ query \in Queries
  BY DEF TypeOK, ChannelType, WorkerType, ReaderType
<1>D. ~done
  BY DoneStable
<1>Q. query' = query
  BY FrameNext DEF Frame
<1>R. pos <= Len(query.left) /\ DOMAIN query.left = 1 .. Len(query.left)
      /\ Len(query.left) \in Nat
  BY <1>T, QueryShape DEF ReaderInv, Serial!Readable
<1>M. matched' = matched \/ \E w \in Workers : JoinRows(w)
  BY FrameNext DEF Frame, WorkerStep, Worker, workerVars, Iterate, TakeJob,
     Publish, DropResult, WorkerExit
<1>K. matched \subseteq matched'
  BY <1>M DEF JoinRows
<1>1. matched' \subseteq {query.left[i] : i \in DOMAIN query.left}
  <2>1. ASSUME NEW w \in Workers, JoinRows(w)
        PROVE  MatchedKeys(wjob[w]) \subseteq {query.left[i] : i \in DOMAIN query.left}
    <3>1. wjob[w] = BatchOf(wjob[w].seq) /\ Dispatched(wjob[w].seq)
      BY <2>1 DEF JoinRows, BatchInv, GoodJob
    <3>2. wjob[w].lo \in Nat /\ wjob[w].hi \in Nat /\ wjob[w].hi <= pos
      <4>1. wjob[w] \in Job
        BY <1>T
      <4>2. wjob[w].seq \in Nat
        BY <4>1 DEF Job
      <4>3. BatchOf(wjob[w].seq).hi <= pos
        BY <3>1, <4>2, BatchBounds
      <4> QED
        BY <3>1, <4>1, <4>3 DEF Job
    <3> QED
      BY <1>R, <1>T, <3>2 DEF MatchedKeys
  <2> QED
    BY <1>M, <2>1 DEF JoinRows, MatchedInv
<1>2. ASSUME query.joinType \in {"RIGHT", "FULL"}, NEW i \in 1 .. pos'
      PROVE  \/ Pending(i)'
             \/ Hash(query.left[i]) = {}
             \/ query.left[i] \in matched'
  <2>1. CASE ~(i <= pos)
    <3>1. AppendRow
      <4>1. pos' = pos \/ AppendRow
        BY FrameNext DEF Frame, ReaderStep, Reader, readerVars, Iterate,
           PullRow, PullEOF, PullError, SendBatch, AbortSend, FlushBatch,
           CloseJobs
      <4> QED
        BY <1>T, <2>1, <4>1
    <3>2. lo' = lo /\ rpc' \in {"send", "pull"}
      BY <1>D, <3>1 DEF AppendRow
    <3>3. lo < i
      BY <1>T, <2>1
    <3> QED
      BY <3>2, <3>3 DEF Pending
  <2>2. CASE i <= pos
    <3>1. i \in 1 .. pos /\ i \in Nat
      BY <1>T, <2>2
    <3>2. CASE lo < i /\ rpc \notin {"close", "exit"}
      <4>1. CASE SendBatch \/ FlushBatch
        <5>1. pos > lo /\ pos # lo
          BY <1>T, <3>1, <3>2
        <5>2. PutJob
          BY <1>D, <4>1, <5>1 DEF SendBatch, FlushBatch
        <5>3. PICK job \in Job : /\ job.lo = lo /\ job.hi = pos
                                 /\ jobs' = Append(jobs, job)
          BY <4>1, <5>1, <5>2, PutJobGood
        <5>4. Len(jobs) + 1 \in DOMAIN jobs' /\ jobs'[Len(jobs) + 1] = job
          BY <1>T, <5>3, AppendElements
        <5> QED
          BY <3>1, <3>2, <5>3, <5>4 DEF Pending
      <4>2. CASE ~SendBatch /\ ~FlushBatch
        <5>1. lo' = lo /\ rpc' \notin {"close", "exit"}
          <6>1. CASE Iterate
            BY <6>1 DEF Iterate
          <6>2. CASE Reader
            BY <3>2, <4>2, <6>2 DEF Reader, PullRow, PullEOF, PullError,
               AppendRow, AbortSend, CloseJobs
          <6>3. CASE UNCHANGED readerVars
            BY <3>2, <6>3 DEF readerVars
          <6> QED
            BY <6>1, <6>2, <6>3, FrameNext DEF Frame, ReaderStep
        <5> QED
          BY <3>2, <5>1 DEF Pending
      <4> QED
        BY <4>1, <4>2
    <3>3. ASSUME NEW n \in DOMAIN jobs, jobs[n].lo < i, i <= jobs[n].hi
          PROVE  Pending(i)'
      BY <3>3, JobKept DEF Pending
    <3>4. ASSUME NEW w \in Workers, wpc[w] = "join", wjob[w].lo < i, i <= wjob[w].hi
          PROVE  Pending(i)' \/ Hash(query.left[i]) = {} \/ query.left[i] \in matched'
      <4>1. CASE JoinRows(w)
        <5>1. wjob[w].lo \in Nat /\ wjob[w].hi \in Nat
          BY <1>T DEF Job
        <5>2. i \in wjob[w].lo + 1 .. wjob[w].hi
          BY <3>1, <3>4, <5>1
        <5>3. Hash(query.left[i]) # {} => query.left[i] \in MatchedKeys(wjob[w])
          BY <1>2, <5>2 DEF MatchedKeys
        <5> QED
          BY <4>1, <5>3 DEF JoinRows
      <4>2. CASE ~JoinRows(w)
        <5>1. wpc'[w] = "join" /\ wjob'[w] = wjob[w]
          <6>1. ASSUME NEW v \in Workers, Worker(v)
                PROVE  wpc'[w] = "join" /\ wjob'[w] = wjob[w]
            BY <1>T, <3>4, <4>2, <6>1 DEF Worker, TakeJob, JoinRows, Publish,
               DropResult, WorkerExit
          <6>2. CASE Iterate
            <7>1. pos = 0
              BY <6>2 DEF Iterate, ReaderInv
            <7> QED
              BY <3>1, <7>1
          <6> QED
            BY <3>4, <6>1, <6>2, FrameNext DEF Frame, WorkerStep, workerVars
        <5> QED
          BY <3>4, <5>1 DEF Pending
      <4> QED
        BY <4>1, <4>2
    <3>5. \/ Pending(i)
          \/ Hash(query.left[i]) = {}
          \/ query.left[i] \in matched
      BY <1>2, <3>1 DEF MatchedInv
    <3> QED
      BY <1>K, <3>2, <3>3, <3>4, <3>5 DEF Pending
  <2> QED
    BY <2>1, <2>2
<1>3. \A i : Hash(query.left[i])' = Hash(query.left[i])
  BY <1>Q DEF Hash
<1> QED
  BY <1>Q, <1>1, <1>2, <1>3 DEF MatchedInv

\* The build rows without a match are final once the probe is over.
LEMMA TailStable ==
    ASSUME TypeOK, ShutdownInv, EndInv, probeDone, [Next]_vars
    PROVE  matched' = matched /\ TailRows' = TailRows
<1>1. \A w \in Workers : wpc[w] = "exit"
  BY DEF EndInv, ShutdownInv, PipelineDone
<1>2. matched' = matched
  <2>1. rpc # "new"
    BY DEF EndInv, ShutdownInv, PipelineDone
  <2> QED
    BY <1>1, <2>1, FrameNext DEF Frame, WorkerStep, Worker, workerVars, Iterate,
       TakeJob, JoinRows, Publish, DropResult, WorkerExit
<1> QED
  BY <1>2, FrameNext DEF Frame, TailRows

\* Until Close, a step keeps the groups returned those of the serial order.
LEMMA OutputNext ==
    ASSUME TypeOK, ShutdownInv, ReaderInv, BatchInv, OutputInv, EndInv,
           ~done', [Next]_vars
    PROVE  OutputInv'
<1>T. /\ nextSeq \in Nat /\ cur \in Seq(Group) /\ curPos \in 0 .. Len(cur)
      /\ emitted \in Seq(Group) /\ tail \in Group /\ tailDone \in BOOLEAN
      /\ received \in SUBSET Result /\ query \in Queries /\ seq \in Nat
      /\ Len(cur) \in Nat /\ Len(emitted) \in Nat
  BY DEF TypeOK, ConsumerType, ReaderType
<1>Q. \A i : JoinRow(i)' = JoinRow(i)
  BY FrameNext DEF Frame, JoinRow, Hash
<1>B. ASSUME NEW s \in Nat, Dispatched(s)
      PROVE  /\ Dispatched(s)' /\ BatchOf(s)' = BatchOf(s) /\ BatchOf(s) \in Job
             /\ JoinBatch(BatchOf(s))' = JoinBatch(BatchOf(s))
  <2>1. Dispatched(s)' /\ BatchOf(s)' = BatchOf(s) /\ BatchOf(s) \in Job
    BY <1>B, DispatchStable
  <2> QED
    BY <2>1, FrameNext DEF JoinBatch, JoinRow, Hash, Frame
<1>R. Returned \in Nat
  <2>1. CASE nextSeq # 0
    <3>1. PICK s \in Nat : nextSeq = s + 1
      BY <2>1 DEF OutputInv
    <3>2. Start(s) \in Nat /\ nextSeq - 1 = s
      BY <3>1, StartProperties
    <3> QED
      BY <1>T, <2>1, <3>2 DEF Returned
  <2> QED
    BY <2>1 DEF Returned
<1>C. ASSUME nextSeq' = nextSeq, cur' = cur
      PROVE  /\ nextSeq' = 0 => cur' = << >>
             /\ nextSeq' # 0 =>
                   \E s \in Nat : /\ nextSeq' = s + 1 /\ Dispatched(s)'
                                  /\ cur' = JoinBatch(BatchOf(s))'
  <2>1. CASE nextSeq = 0
    BY <1>C, <2>1 DEF OutputInv
  <2>2. CASE nextSeq # 0
    <3>1. PICK s \in Nat : /\ nextSeq = s + 1 /\ Dispatched(s)
                           /\ cur = JoinBatch(BatchOf(s))
      BY <2>2 DEF OutputInv
    <3> QED
      BY <1>B, <1>C, <3>1
  <2> QED
    BY <2>1, <2>2
<1>1. CASE UNCHANGED <<nextSeq, cur, curPos, emitted, tail, tailDone>>
  <2>1. Returned' = Returned
    BY <1>1 DEF Returned
  <2>2. TailReturned' = TailReturned /\ (TailReturned => TailRows' = TailRows)
    <3>1. tailDone => TailRows' = TailRows
      BY TailStable DEF EndInv, ProbeOver
    <3> QED
      BY <1>1, <1>T, <3>1 DEF TailReturned
  <2>3. Len(emitted') = Returned' + (IF TailReturned' THEN 1 ELSE 0)
    BY <1>1, <2>1, <2>2 DEF OutputInv
  <2>4. \A i \in 1 .. Returned' : emitted'[i] = JoinRow(i)'
    BY <1>1, <1>Q, <2>1 DEF OutputInv
  <2>5. TailReturned' => emitted'[Returned' + 1] = TailRows'
    BY <1>1, <2>1, <2>2 DEF OutputInv
  <2> QED
    BY <1>1, <1>C, <2>3, <2>4, <2>5 DEF OutputInv
<1>2. CASE ReturnRow
  <2>1. /\ ~tailDone /\ ~tailDone' /\ nextSeq' = nextSeq /\ cur' = cur
        /\ curPos' = curPos + 1 /\ emitted' = Append(emitted, cur[curPos'])
        /\ curPos' \in 1 .. Len(cur)
    <3>1. ~Drained /\ ~tailDone
      BY <1>2 DEF ReturnRow, EndInv, ProbeOver
    <3> QED
      BY <1>2, <1>T, <3>1 DEF ReturnRow, Drained, tailVars
  <2>2. nextSeq # 0
    <3>1. cur # << >>
      BY <1>T, <2>1
    <3> QED
      BY <3>1 DEF OutputInv
  <2>3. PICK s \in Nat : /\ nextSeq = s + 1 /\ Dispatched(s)
                         /\ cur = JoinBatch(BatchOf(s))
    BY <2>2 DEF OutputInv
  <2>4. BatchOf(s) \in Job /\ BatchOf(s).lo = Start(s)
    BY <2>3, BatchBounds
  <2>5. cur[curPos'] = JoinRow(Start(s) + curPos')
    BY <1>T, <2>1, <2>3, <2>4, JoinBatchType
  <2>6. nextSeq - 1 = s /\ Start(s) \in Nat
    BY <2>3, StartProperties
  <2>7. Returned = Start(s) + curPos /\ Returned' = Returned + 1
    BY <1>T, <2>1, <2>2, <2>6 DEF Returned
  <2>8. ~TailReturned /\ ~TailReturned' /\ Len(emitted) = Returned
    <3>1. ~TailReturned /\ ~TailReturned'
      BY <2>1 DEF TailReturned
    <3> QED
      BY <1>R, <3>1 DEF OutputInv
  <2>9. cur[curPos'] \in Group
    BY <1>T, <2>1
  <2>10. /\ Len(emitted') = Len(emitted) + 1
         /\ \A n \in 1 .. Len(emitted) : emitted'[n] = emitted[n]
         /\ emitted'[Len(emitted) + 1] = cur[curPos']
    BY <1>T, <2>1, <2>9, AppendElements
  <2>11. \A i \in 1 .. Returned' : emitted'[i] = JoinRow(i)'
    <3> SUFFICES ASSUME NEW i \in 1 .. Returned'
                 PROVE  emitted'[i] = JoinRow(i)
      BY <1>Q
    <3>1. CASE i \in 1 .. Returned
      BY <2>8, <2>10, <3>1 DEF OutputInv
    <3>2. CASE i = Returned + 1
      <4>1. i = Start(s) + curPos'
        BY <1>T, <2>1, <2>6, <2>7, <3>2
      <4> QED
        BY <2>5, <2>8, <2>10, <3>2, <4>1
    <3> QED
      BY <1>R, <2>7, <3>1, <3>2
  <2>12. Len(emitted') = Returned' + (IF TailReturned' THEN 1 ELSE 0)
    BY <1>R, <2>7, <2>8, <2>10
  <2> QED
    BY <1>C, <2>1, <2>8, <2>11, <2>12 DEF OutputInv
<1>3. CASE TakeInOrder
  <2>1. PICK res \in received : /\ res.seq = nextSeq /\ cur' = res.rows
                                /\ curPos' = 0 /\ nextSeq' = nextSeq + 1
                                /\ emitted' = emitted /\ tailDone' = tailDone
                                /\ ~tailDone /\ curPos = Len(cur)
    BY <1>3, <1>T DEF TakeInOrder, InOrder, tailVars, EndInv, ProbeOver, Drained
  <2>2. PICK s \in 0 .. seq : /\ res.seq = s /\ Dispatched(s)
                              /\ res.rows = JoinBatch(BatchOf(s))
    BY <2>1 DEF BatchInv, GoodResult
  <2>3. s = nextSeq /\ s \in Nat /\ nextSeq' = s + 1 /\ nextSeq' # 0
    BY <1>T, <2>1, <2>2
  <2>4. Dispatched(s)' /\ cur' = JoinBatch(BatchOf(s))'
    BY <1>B, <2>1, <2>2, <2>3
  <2>5. Returned' = Returned
    <3>0. Start(s) \in Nat /\ nextSeq' - 1 = s
      BY <2>3, StartProperties
    <3>1. Returned' = Start(s)
      BY <2>1, <2>3, <3>0 DEF Returned
    <3>2. CASE nextSeq = 0
      BY <2>3, <3>1, <3>2, StartProperties DEF Returned
    <3>3. CASE nextSeq # 0
      <4>1. PICK t \in Nat : /\ nextSeq = t + 1 /\ Dispatched(t)
                             /\ cur = JoinBatch(BatchOf(t))
        BY <3>3 DEF OutputInv
      <4>2. t < seq
        BY <1>T, <2>2, <2>3, <4>1 DEF Dispatched
      <4>3. /\ BatchOf(t) \in Job /\ BatchOf(t).lo = Start(t)
            /\ BatchOf(t).hi = Start(t + 1)
        BY <4>1, <4>2, BatchBounds
      <4>4. Len(cur) = Start(t + 1) - Start(t)
        BY <1>T, <4>1, <4>3, JoinBatchType
      <4>5. Start(t) \in Nat /\ Start(t + 1) \in Nat /\ nextSeq - 1 = t /\ s = t + 1
        BY <2>3, <4>1, StartProperties
      <4> QED
        BY <2>1, <3>1, <3>3, <4>4, <4>5 DEF Returned
    <3> QED
      BY <3>2, <3>3
  <2>6. ~TailReturned /\ ~TailReturned'
    BY <2>1 DEF TailReturned
  <2>7. Len(emitted') = Returned' + (IF TailReturned' THEN 1 ELSE 0)
    BY <2>1, <2>5, <2>6 DEF OutputInv
  <2>8. \A i \in 1 .. Returned' : emitted'[i] = JoinRow(i)'
    BY <1>Q, <2>1, <2>5 DEF OutputInv
  <2> QED
    BY <2>3, <2>4, <2>6, <2>7, <2>8 DEF OutputInv
<1>4. CASE ReturnTail
  <2>1. /\ UNCHANGED <<nextSeq, cur, curPos, tailDone>> /\ tail' = {}
        /\ emitted' = Append(emitted, tail) /\ tail # {} /\ probeDone
    BY <1>4 DEF ReturnTail, AtTail, orderVars
  <2>2. tailDone /\ tail = TailRows /\ TailRows' = TailRows
    BY <2>1, TailStable DEF EndInv
  <2>3. ~TailReturned /\ TailReturned' /\ Returned' = Returned
    BY <2>1, <2>2 DEF TailReturned, Returned
  <2>4. /\ Len(emitted') = Len(emitted) + 1
        /\ \A n \in 1 .. Len(emitted) : emitted'[n] = emitted[n]
        /\ emitted'[Len(emitted) + 1] = tail
    BY <1>T, <2>1, AppendElements
  <2>5. Len(emitted) = Returned
    BY <1>R, <2>3 DEF OutputInv
  <2>6. \A i \in 1 .. Returned' : emitted'[i] = JoinRow(i)'
    BY <1>Q, <2>3, <2>4, <2>5 DEF OutputInv
  <2>7. Len(emitted') = Returned' + (IF TailReturned' THEN 1 ELSE 0)
    BY <2>3, <2>4, <2>5
  <2>8. emitted'[Returned' + 1] = TailRows'
    BY <2>2, <2>3, <2>4, <2>5
  <2> QED
    BY <1>C, <2>1, <2>6, <2>7, <2>8 DEF OutputInv
<1>5. CASE MaterializeTail
  <2>1. /\ UNCHANGED <<nextSeq, cur, curPos, emitted>> /\ tail' = TailRows
        /\ ~tailDone /\ probeDone
    BY <1>5 DEF MaterializeTail, AtTail, orderVars
  <2>2. TailRows' = TailRows
    BY <2>1, TailStable
  <2>3. ~TailReturned /\ ~TailReturned' /\ Returned' = Returned
    BY <2>1, <2>2 DEF TailReturned, Returned
  <2>4. \A i \in 1 .. Returned' : emitted'[i] = JoinRow(i)'
    BY <1>Q, <2>1, <2>3 DEF OutputInv
  <2>5. Len(emitted') = Returned' + (IF TailReturned' THEN 1 ELSE 0)
    BY <2>1, <2>3 DEF OutputInv
  <2> QED
    BY <1>C, <2>1, <2>3, <2>4, <2>5 DEF OutputInv
<1> QED
  <2>1. \/ UNCHANGED <<nextSeq, cur, curPos, emitted, tail, tailDone>>
        \/ ReturnRow \/ TakeInOrder \/ ReturnTail \/ MaterializeTail
    BY FrameNext DEF Frame, ConsumerStep, Consumer, consumerVars, orderVars,
       tailVars, IterateFails, ReturnError, ReturnEOF, ReceiveResult,
       SeeResultsClosed, SeeDone
  <2> QED
    BY <1>1, <1>2, <1>3, <1>4, <1>5, <2>1

\* Until Close, a step keeps what the end of the probe says of the rest.
LEMMA EndNext ==
    ASSUME TypeOK, ShutdownInv, EndInv, ~done', [Next]_vars
    PROVE  EndInv'
<1>D. ~done
  BY DoneStable
<1>B. /\ probeDone \in BOOLEAN /\ tailDone \in BOOLEAN
      /\ outcome \in {"none", "EOF", "error"} /\ nextSeq \in Nat
      /\ err \in BOOLEAN
  BY DEF TypeOK, ConsumerType, CloseType
<1>P. probeDone => rpc = "exit" /\ \A w \in Workers : wpc[w] = "exit"
  BY DEF EndInv, ShutdownInv, PipelineDone
<1>1. CASE UNCHANGED consumerVars
  <2> USE <1>1 DEF consumerVars, orderVars, tailVars
  <2>1. rpc' = "new" => rpc = "new"
    BY FrameNext DEF Frame, ReaderStep, Iterate, Reader, PullRow, PullEOF,
       PullError, AppendRow, SendBatch, AbortSend, FlushBatch, CloseJobs,
       readerVars
  <2>2. probeDone => resultsClosed' /\ results' = << >>
    <3> SUFFICES ASSUME probeDone PROVE resultsClosed' /\ results' = << >>
      OBVIOUS
    <3>1. resultsClosed /\ results = << >>
      BY DEF EndInv
    <3> QED
      BY <1>P, <3>1, FrameNext DEF Frame, ChannelStep, SendBatch, FlushBatch,
         CloseJobs, CloseResults, ReceiveResult, TakeJob, Publish, channelVars
  <2>3. probeDone => err' = err
    BY <1>P, FrameNext DEF Frame, CloseStep, PullError, CloseDone, CloseLeft
  <2>4. ProbeOver' = ProbeOver
    BY DEF ProbeOver, Drained, InOrder
  <2>5. tailDone => TailRows' = TailRows
    BY TailStable DEF EndInv, ProbeOver
  <2>6. outcome = "error" /\ Started' => Started
    BY FrameNext DEF Started, Frame, ReaderStep, Iterate, Reader, PullRow,
       PullEOF, PullError, AppendRow, SendBatch, AbortSend, FlushBatch,
       CloseJobs, readerVars
  <2>7. ProbeOver => probeDone
    BY DEF ProbeOver
  <2> QED
    BY <2>1, <2>2, <2>3, <2>4, <2>5, <2>6, <2>7 DEF EndInv
<1>2. ASSUME IterateFails \/ Consumer
      PROVE  /\ rpc' = rpc /\ resultsClosed' = resultsClosed /\ err' = err
             /\ TailRows' = TailRows
  BY <1>2, ConsumerFrame, FrameNext DEF readerVars, workerVars, Frame, TailRows
<1>3. CASE IterateFails
  <2>1. UNCHANGED <<results, orderVars, tailVars>> /\ outcome' = "error"
        /\ rpc = "new"
    BY <1>3 DEF IterateFails, channelVars
  <2>2. ProbeOver' = ProbeOver
    BY <2>1 DEF ProbeOver, Drained, InOrder, orderVars
  <2> QED
    BY <1>2, <1>3, <2>1, <2>2 DEF EndInv, Started, orderVars, tailVars
<1> USE DEF Started, Calling, orderVars, tailVars, channelVars
<1>4. CASE ReturnRow
  <2>1. ~tailDone
    BY <1>4 DEF ReturnRow, EndInv, ProbeOver
  <2> QED
    BY <1>2, <1>4, <2>1 DEF ReturnRow, EndInv, Consumer
<1>5. CASE TakeInOrder
  <2>1. ~tailDone
    BY <1>5 DEF TakeInOrder, EndInv, ProbeOver
  <2> QED
    BY <1>2, <1>5, <2>1 DEF TakeInOrder, EndInv, Consumer
<1>6. CASE ReturnError
  <2>1. ProbeOver /\ ProbeOver'
    BY <1>6 DEF ReturnError, AtTail, ProbeOver, Drained, InOrder
  <2> QED
    BY <1>2, <1>6, <2>1 DEF ReturnError, AtTail, EndInv, Consumer
<1>7. CASE ReturnTail
  <2>1. ProbeOver /\ ProbeOver'
    BY <1>7 DEF ReturnTail, AtTail, ProbeOver, Drained, InOrder
  <2> QED
    BY <1>2, <1>7, <2>1 DEF ReturnTail, AtTail, EndInv, Consumer
<1>8. CASE MaterializeTail
  <2>1. ProbeOver /\ ProbeOver'
    BY <1>8 DEF MaterializeTail, AtTail, ProbeOver, Drained, InOrder
  <2> QED
    BY <1>2, <1>8, <2>1 DEF MaterializeTail, AtTail, EndInv, Consumer
<1>9. CASE ReturnEOF
  <2>1. ProbeOver /\ ProbeOver'
    BY <1>9 DEF ReturnEOF, AtTail, ProbeOver, Drained, InOrder
  <2> QED
    BY <1>2, <1>9, <2>1 DEF ReturnEOF, AtTail, EndInv, Consumer
<1>10. CASE ReceiveResult
  <2>1. ~tailDone /\ ~probeDone
    BY <1>10 DEF ReceiveResult, Blocked, EndInv, ProbeOver
  <2> QED
    BY <1>2, <1>10, <2>1 DEF ReceiveResult, Blocked, EndInv, Consumer
<1>11. CASE SeeResultsClosed
  <2>1. ~tailDone
    BY <1>11 DEF SeeResultsClosed, Blocked, EndInv, ProbeOver
  <2> QED
    BY <1>2, <1>11, <2>1 DEF SeeResultsClosed, Blocked, EndInv, Consumer
<1>12. ~SeeDone
  BY <1>D DEF SeeDone
<1> QED
  BY <1>1, <1>3, <1>4, <1>5, <1>6, <1>7, <1>8, <1>9, <1>10, <1>11, <1>12,
     FrameNext DEF Frame, ConsumerStep, Consumer

-------------------------------------------------------------------------------
(* The invariant holds in every state. *)

\* The initial states satisfy the inductive invariant.
LEMMA InvInit == Init => IInv
<1> SUFFICES ASSUME Init PROVE IInv
  OBVIOUS
<1>1. TypeOK
  BY TypeInit
<1>2. ShutdownInv
  BY DEF Init, ShutdownInv, PipelineDone, Started
<1>3. ReaderInv
  <2>1. Serial!Readable(query) \in Nat
    BY <1>1, QueryShape DEF TypeOK, Serial!Readable
  <2> QED
    BY <2>1, StartProperties, ParamAssumption DEF Init, ReaderInv
<1>4. BatchInv
  BY DEF Init, BatchInv
<1>5. NoBatchLost
  BY DEF Init, NoBatchLost, Dispatched
<1>6. MatchedInv
  BY DEF Init, MatchedInv
<1>7. OutputInv
  BY DEF Init, OutputInv, Returned, TailReturned
<1>8. EndInv
  BY DEF Init, EndInv, Started
<1> QED
  BY <1>1, <1>2, <1>3, <1>4, <1>5, <1>6, <1>7, <1>8 DEF IInv, UntilClose

\* Every step preserves the inductive invariant.
LEMMA InvNext == IInv /\ [Next]_vars => IInv'
<1> SUFFICES ASSUME IInv, [Next]_vars PROVE IInv'
  OBVIOUS
<1>1. TypeOK' /\ ShutdownInv'
  BY TypeNext, ShutdownNext DEF IInv
<1>2. ASSUME ~done' PROVE UntilClose'
  <2>1. TypeOK /\ ShutdownInv /\ ReaderInv /\ BatchInv /\ NoBatchLost
        /\ MatchedInv /\ OutputInv /\ EndInv
    BY <1>2, DoneStable DEF IInv, UntilClose
  <2>2. ReaderInv'
    BY <1>2, <2>1, ReaderNext
  <2>3. BatchInv'
    BY <1>2, <2>1, BatchNext
  <2>4. NoBatchLost'
    BY <1>2, <2>1, NoBatchLostNext
  <2>5. MatchedInv'
    BY <1>2, <2>1, MatchedNext
  <2>6. OutputInv'
    BY <1>2, <2>1, OutputNext
  <2>7. EndInv'
    BY <1>2, <2>1, EndNext
  <2> QED
    BY <2>2, <2>3, <2>4, <2>5, <2>6, <2>7 DEF UntilClose
<1> QED
  BY <1>1, <1>2 DEF IInv

(***************************************************************************)
(* The inductive invariant holds in every reachable state.                 *)
(***************************************************************************)
THEOREM InvCorrect == Spec => []IInv
<1> QED
  BY InvInit, InvNext, PTL DEF Spec

(***************************************************************************)
(* Neither the reader nor a worker ever sends on a closed channel, with    *)
(* or without a concurrent Close.                                          *)
(***************************************************************************)
THEOREM ChannelSafety == Spec => []NoSendOnClosed
<1>1. IInv => NoSendOnClosed
  BY DEF IInv, ShutdownInv, NoSendOnClosed, PipelineDone
<1> QED
  BY <1>1, InvCorrect, PTL

(***************************************************************************)
(* A caller that reads to the end leaves no goroutine behind, for any      *)
(* number of workers and any capacity of the channels.                     *)
(***************************************************************************)
THEOREM EndReleases == Spec => []NoLeakAtEnd
<1>1. IInv => NoLeakAtEnd
  <2> SUFFICES ASSUME IInv, Started, ~done, outcome # "none"
               PROVE  PipelineDone /\ resultsClosed
    BY DEF NoLeakAtEnd
  <2>1. probeDone
    BY DEF IInv, UntilClose, EndInv, ProbeOver, TypeOK, ConsumerType
  <2> QED
    BY <2>1 DEF IInv, UntilClose, EndInv, ShutdownInv
<1> QED
  BY <1>1, InvCorrect, PTL

-------------------------------------------------------------------------------
(* What the join delivers: it is the serial join of SerialJoin. *)
-------------------------------------------------------------------------------
(* The reference result. *)

(***************************************************************************)
(* joinBatch finds through the hash table what comparing every pair finds. *)
(***************************************************************************)
LEMMA JoinRowIsReference ==
    ASSUME query \in Queries, NEW i
    PROVE  JoinRow(i) = Serial!RowsFor(query, i)
<1>1. query.joinType \in JoinTypes
  BY QueryShape
<1>2. Serial!HasMatch(query, i) <=> Hash(query.left[i]) # {}
  BY DEF Serial!HasMatch, Serial!Matches, Hash
<1>3. Hash(query.left[i]) = {j \in DOMAIN query.right : Serial!Matches(query, i, j)}
  BY DEF Serial!Matches, Hash
<1>4. CASE query.joinType = "CROSS"
  BY <1>4 DEF JoinRow, Serial!RowsFor, Serial!KeptAlone
<1>5. CASE query.joinType = "SEMI"
  BY <1>2, <1>5 DEF JoinRow, Serial!RowsFor, Serial!KeptAlone
<1>6. CASE query.joinType \in {"INNER", "RIGHT"}
  BY <1>3, <1>6 DEF JoinRow, Serial!RowsFor, Serial!KeptAlone
<1>7. CASE query.joinType \in {"LEFT", "FULL"}
  BY <1>2, <1>3, <1>7 DEF JoinRow, Serial!RowsFor, Serial!KeptAlone
<1> QED
  BY <1>1, <1>4, <1>5, <1>6, <1>7 DEF JoinTypes

TailSize == IF query.failAt = 0 /\ Serial!Unmatched(query) # {} THEN 1 ELSE 0

\* The groups of the nested-loop result, one by one.
LEMMA ReferenceElements ==
    ASSUME query \in Queries
    PROVE  /\ Serial!Reference(query) \in Seq(Group)
           /\ Len(Serial!Reference(query)) = Serial!Readable(query) + TailSize
           /\ \A i \in 1 .. Serial!Readable(query) :
                 Serial!Reference(query)[i] = JoinRow(i)
           /\ TailSize = 1 =>
                 Serial!Reference(query)[Serial!Readable(query) + 1]
                     = Serial!Unmatched(query)
<1> DEFINE R    == Serial!Readable(query)
           body == [i \in 1 .. R |-> Serial!RowsFor(query, i)]
           last == IF query.failAt = 0 /\ Serial!Unmatched(query) # {}
                   THEN <<Serial!Unmatched(query)>> ELSE << >>
<1>1. R \in Nat
  BY QueryShape DEF Serial!Readable
<1>2. \A i : Serial!RowsFor(query, i) \in Group
  BY QueryShape DEF Serial!RowsFor, Group
<1>3. Serial!Unmatched(query) \in Group
  BY QueryShape DEF Serial!Unmatched, Group
<1>4. body \in Seq(Group) /\ Len(body) = R
      /\ \A i \in 1 .. R : body[i] = Serial!RowsFor(query, i)
  BY <1>1, <1>2
<1>5. last \in Seq(Group) /\ Len(last) = TailSize
      /\ (TailSize = 1 => last[1] = Serial!Unmatched(query))
  BY <1>3 DEF TailSize
<1>6. Serial!Reference(query) = body \o last
  BY DEF Serial!Reference
<1> HIDE DEF R, body, last
<1>7. TailSize \in {0, 1}
  BY DEF TailSize
<1>8. /\ body \o last \in Seq(Group)
      /\ Len(body \o last) = R + TailSize
      /\ \A i \in 1 .. R : (body \o last)[i] = body[i]
      /\ TailSize = 1 => (body \o last)[R + 1] = last[1]
  BY <1>1, <1>4, <1>5, <1>7
<1> QED
  BY <1>4, <1>5, <1>6, <1>8, JoinRowIsReference DEF R

-------------------------------------------------------------------------------
(* What has been delivered. *)

(***************************************************************************)
(* Next never returns rows of a batch the reader has not finished.         *)
(***************************************************************************)
LEMMA ReturnedBound ==
    ASSUME IInv, ~done
    PROVE  /\ Returned \in Nat /\ Returned <= pos
           /\ nextSeq # 0 =>
                 \E s \in Nat :
                    /\ nextSeq = s + 1 /\ Dispatched(s)
                    /\ Returned = BatchOf(s).hi - Len(cur) + curPos
<1>T. /\ TypeOK /\ ReaderInv /\ OutputInv
      /\ nextSeq \in Nat /\ cur \in Seq(Group) /\ curPos \in 0 .. Len(cur)
      /\ pos \in Nat /\ Len(cur) \in Nat
  BY DEF IInv, UntilClose, TypeOK, ConsumerType, ReaderType
<1>1. CASE nextSeq = 0
  BY <1>T, <1>1 DEF Returned
<1>2. CASE nextSeq # 0
  <2>1. PICK s \in Nat : /\ nextSeq = s + 1 /\ Dispatched(s)
                         /\ cur = JoinBatch(BatchOf(s))
    BY <1>T, <1>2 DEF OutputInv
  <2>2. /\ BatchOf(s) \in Job /\ BatchOf(s).lo = Start(s) /\ BatchOf(s).hi <= pos
    BY <1>T, <2>1, BatchBounds
  <2>3. Len(cur) = BatchOf(s).hi - Start(s)
    BY <1>T, <2>1, <2>2, JoinBatchType DEF TypeOK
  <2>4. Start(s) \in Nat /\ nextSeq - 1 = s /\ BatchOf(s).hi \in Nat
    BY <2>1, <2>2, StartProperties DEF Job
  <2>5. Returned = Start(s) + curPos
    BY <1>2, <2>4 DEF Returned
  <2> QED
    BY <1>T, <2>1, <2>2, <2>3, <2>4, <2>5
<1> QED
  BY <1>1, <1>2

(***************************************************************************)
(* When Next finds the probe over it has returned a group for every probe  *)
(* row that could be read, and no build row can find a match any more.     *)
(***************************************************************************)
LEMMA ProbeComplete ==
    ASSUME IInv, ~done, ProbeOver
    PROVE  /\ Returned = Serial!Readable(query)
           /\ err <=> query.failAt # 0
           /\ ~err => TailRows = Serial!Unmatched(query)
<1>T. /\ TypeOK /\ ShutdownInv /\ ReaderInv /\ NoBatchLost /\ MatchedInv
      /\ OutputInv /\ EndInv
      /\ nextSeq \in Nat /\ seq \in Nat /\ pos \in Nat /\ lo \in Nat /\ lo <= pos
      /\ query \in Queries /\ cur \in Seq(Group) /\ curPos = Len(cur)
      /\ Len(cur) \in Nat
  BY DEF IInv, UntilClose, TypeOK, ReaderType, ConsumerType, ProbeOver, Drained
<1>1. /\ rpc = "exit" /\ \A w \in Workers : wpc[w] = "exit"
      /\ results = << >> /\ jobs = << >>
  BY <1>T, ParamAssumption DEF ProbeOver, EndInv, ShutdownInv, PipelineDone
<1>2. pos = Serial!Readable(query) /\ (err <=> query.failAt # 0)
  BY <1>T, <1>1 DEF ReaderInv
<1>3. nextSeq <= seq => ~Dispatched(nextSeq)
  BY <1>T, <1>1 DEF NoBatchLost, InJobs, WithWorker, InResults, InReceived,
     ProbeOver, InOrder
<1>4. Returned = pos
  <2>1. CASE nextSeq = 0
    BY <1>T, <1>1, <1>3, <2>1, StartProperties DEF Returned, Dispatched, ReaderInv
  <2>2. CASE nextSeq # 0
    <3>1. PICK s \in Nat : /\ nextSeq = s + 1 /\ Dispatched(s)
                           /\ Returned = BatchOf(s).hi - Len(cur) + curPos
      BY <2>2, ReturnedBound
    <3>2. BatchOf(s).hi \in Nat /\ Returned = BatchOf(s).hi
      <4>1. BatchOf(s) \in Job
        BY <1>T, <3>1, BatchBounds
      <4> QED
        BY <1>T, <3>1, <4>1 DEF Job
    <3>3. CASE s < seq
      <4>1. nextSeq = seq /\ pos = lo
        BY <1>T, <1>1, <1>3, <3>1, <3>3 DEF Dispatched
      <4>2. BatchOf(s).hi = Start(s + 1)
        BY <3>3 DEF BatchOf
      <4> QED
        BY <1>T, <3>1, <3>2, <4>1, <4>2 DEF ReaderInv
    <3>4. CASE ~(s < seq)
      BY <3>2, <3>4 DEF BatchOf
    <3> QED
      BY <3>3, <3>4
  <2> QED
    BY <2>1, <2>2
<1>5. ASSUME ~err PROVE TailRows = Serial!Unmatched(query)
  <2>1. pos = Len(query.left) /\ DOMAIN query.left = 1 .. pos
    BY <1>T, <1>2, <1>5, QueryShape DEF Serial!Readable
  <2>2. CASE query.joinType \in {"RIGHT", "FULL"}
    <3>1. ASSUME NEW i \in 1 .. pos
          PROVE  Hash(query.left[i]) = {} \/ query.left[i] \in matched
      <4>1. DOMAIN jobs = {}
        BY <1>1
      <4>2. ~Pending(i)
        BY <1>1, <4>1 DEF Pending
      <4> QED
        BY <1>T, <2>2, <4>2 DEF MatchedInv
    <3>2. matched \subseteq {query.left[i] : i \in DOMAIN query.left}
      BY <1>T DEF MatchedInv
    <3>3. ASSUME NEW j \in DOMAIN query.right
          PROVE  query.right[j] \notin matched
                 <=> \A i \in DOMAIN query.left : query.right[j] # query.left[i]
      <4>1. ASSUME NEW i \in DOMAIN query.left, query.right[j] = query.left[i]
            PROVE  query.right[j] \in matched
        BY <2>1, <3>1, <4>1 DEF Hash
      <4> QED
        BY <3>2, <4>1
    <3> QED
      BY <2>2, <3>3 DEF TailRows, Serial!Unmatched, Serial!Matches
  <2>3. CASE query.joinType \notin {"RIGHT", "FULL"}
    BY <2>3 DEF TailRows, Serial!Unmatched
  <2> QED
    BY <2>2, <2>3
<1> QED
  BY <1>2, <1>4, <1>5

(***************************************************************************)
(* Next returns the joined rows in the order of the serial join: whatever  *)
(* order workers publish their batches in, what it has returned is a       *)
(* prefix of the nested-loop result.                                       *)
(***************************************************************************)
LEMMA InvSerialOrder == IInv => SerialOrder
<1> SUFFICES ASSUME IInv, ~done
             PROVE  /\ Len(emitted) <= Len(Serial!Reference(query))
                    /\ \A p \in DOMAIN emitted :
                          emitted[p] = Serial!Reference(query)[p]
  BY DEF SerialOrder
<1>T. /\ query \in Queries /\ OutputInv /\ EndInv /\ ReaderInv
      /\ emitted \in Seq(Group) /\ pos \in Nat
      /\ DOMAIN emitted = 1 .. Len(emitted) /\ Len(emitted) \in Nat
  BY DEF IInv, UntilClose, TypeOK, ReaderType, ConsumerType
<1>1. Serial!Readable(query) \in Nat
  BY <1>T, QueryShape DEF Serial!Readable
<1>2. Returned \in Nat /\ Returned <= Serial!Readable(query)
  BY <1>T, <1>1, ReturnedBound DEF ReaderInv
<1>3. TailSize \in {0, 1}
  BY DEF TailSize
<1>4. CASE ~TailReturned
  BY <1>T, <1>1, <1>2, <1>3, <1>4, ReferenceElements DEF OutputInv
<1>5. CASE TailReturned
  <2>1. ProbeOver /\ ~err /\ TailRows # {}
    BY <1>T, <1>5 DEF EndInv, TailReturned
  <2>2. Returned = Serial!Readable(query) /\ TailRows = Serial!Unmatched(query)
        /\ TailSize = 1
    BY <2>1, ProbeComplete DEF TailSize
  <2>3. Len(emitted) = Returned + 1 /\ emitted[Returned + 1] = TailRows
    BY <1>T, <1>5 DEF OutputInv
  <2> QED
    BY <1>T, <1>1, <1>2, <2>2, <2>3, ReferenceElements DEF OutputInv
<1> QED
  BY <1>4, <1>5

\* What Next returns is a prefix of the nested-loop result, until Close.
THEOREM OrderCorrect == Spec => []SerialOrder
<1> QED
  BY InvSerialOrder, InvCorrect, PTL

(***************************************************************************)
(* io.EOF ends a complete result, and a failing probe input is reported    *)
(* after every row read before the failure: no batch is lost between the   *)
(* goroutines, whenever each of them stops.                                *)
(***************************************************************************)
LEMMA InvEndIsComplete == IInv => EndIsComplete
<1> SUFFICES ASSUME IInv, Started, ~done, outcome # "none"
             PROVE  /\ emitted = Serial!Reference(query)
                    /\ outcome = IF query.failAt = 0 THEN "EOF" ELSE "error"
  BY DEF EndIsComplete
<1>T. /\ query \in Queries /\ OutputInv /\ EndInv /\ SerialOrder
      /\ emitted \in Seq(Group) /\ outcome \in {"EOF", "error"}
  BY InvSerialOrder DEF IInv, UntilClose, TypeOK, ConsumerType
<1>1. ProbeOver /\ (outcome = "error" <=> err)
  BY <1>T DEF EndInv
<1>2. /\ Returned = Serial!Readable(query)
      /\ err <=> query.failAt # 0
      /\ ~err => TailRows = Serial!Unmatched(query)
  BY <1>1, ProbeComplete
<1>3. Returned \in Nat
  BY ReturnedBound
<1>4. TailSize = IF TailReturned THEN 1 ELSE 0
  BY <1>T, <1>1, <1>2 DEF TailSize, TailReturned, EndInv
<1>5. Len(emitted) = Len(Serial!Reference(query))
  BY <1>T, <1>2, <1>3, <1>4, ReferenceElements DEF OutputInv
<1>6. emitted = Serial!Reference(query)
  <2>1. Serial!Reference(query) \in Seq(Group)
    BY <1>T, ReferenceElements
  <2> QED
    BY <1>T, <1>5, <2>1 DEF SerialOrder
<1> QED
  BY <1>T, <1>1, <1>2, <1>6

\* Neither a missing batch nor a failed input is ever taken for the end.
THEOREM EndCorrect == Spec => []EndIsComplete
<1> QED
  BY InvEndIsComplete, InvCorrect, PTL

-------------------------------------------------------------------------------
(* Refinement. *)

status == IF ~Started THEN "new" ELSE IF done THEN "closed" ELSE "open"

serialVars == <<query, status, emitted, outcome>>

\* The initial states are those of the serial join.
LEMMA SerialInit == Init => Serial!Init
  BY DEF Init, Serial!Init, Started

\* The parts of a step that the serial join sees.
LEMMA VisibleSteps ==
    ASSUME IInv, [Next]_vars
    PROVE  \/ Iterate \/ IterateFails \/ CloseDone
           \/ ReturnRow \/ ReturnTail \/ ReturnEOF \/ ReturnError \/ SeeDone
           \/ UNCHANGED serialVars
<1>1. query' = query
  BY FrameNext DEF Frame
<1>2. \/ Iterate \/ (Started' <=> Started)
  BY FrameNext DEF Frame, ReaderStep, Reader, readerVars, Started, PullRow,
     PullEOF, PullError, AppendRow, SendBatch, AbortSend, FlushBatch, CloseJobs
<1>3. CloseDone \/ done' = done
  BY FrameNext DEF Frame, CloseStep, PullError, CloseLeft, closeVars
<1>4. \/ IterateFails \/ ReturnRow \/ ReturnTail \/ ReturnEOF \/ ReturnError
      \/ SeeDone \/ UNCHANGED <<emitted, outcome>>
  BY FrameNext DEF Frame, ConsumerStep, Consumer, consumerVars, TakeInOrder,
     MaterializeTail, ReceiveResult, SeeResultsClosed
<1> QED
  BY <1>1, <1>2, <1>3, <1>4 DEF serialVars, status

\* Until Close, a group is delivered as the serial join would deliver it.
LEMMA DeliverStep ==
    ASSUME TypeOK, SerialOrder', ~done', query' = query, Started, ~done,
           outcome = "none", UNCHANGED <<outcome, rpc, done>>,
           NEW rows \in Group, emitted' = Append(emitted, rows)
    PROVE  Serial!Deliver
<1>1. emitted \in Seq(Group) /\ query \in Queries
  BY DEF TypeOK, ConsumerType
<1>2. /\ DOMAIN emitted' = 1 .. Len(emitted) + 1
      /\ emitted'[Len(emitted) + 1] = rows
      /\ Len(emitted') = Len(emitted) + 1 /\ Len(emitted) \in Nat
  BY <1>1, AppendElements
<1>3. Serial!Reference(query)' = Serial!Reference(query)
  BY DEF Serial!Reference, Serial!Readable, Serial!RowsFor, Serial!Unmatched,
     Serial!KeptAlone, Serial!HasMatch, Serial!Matches
<1>4. /\ Len(emitted) + 1 <= Len(Serial!Reference(query))
      /\ rows = Serial!Reference(query)[Len(emitted) + 1]
  BY <1>2, <1>3 DEF SerialOrder
<1>5. Len(Serial!Reference(query)) \in Nat
  BY <1>1, ReferenceElements
<1> QED
  BY <1>2, <1>4, <1>5 DEF Serial!Deliver, Started

\* Every step is a step of the serial join, or one it does not see.
LEMMA SerialNext ==
    ASSUME IInv, IInv', [Next]_vars
    PROVE  Serial!Next \/ UNCHANGED serialVars
<1>T. /\ TypeOK /\ query' = query /\ TypeOK' /\ (done => Started)
      /\ SerialOrder' /\ EndIsComplete'
      /\ outcome \in {"none", "EOF", "error"}
  <2>1. SerialOrder' /\ EndIsComplete'
    BY InvSerialOrder, InvEndIsComplete, PTL
  <2> QED
    BY <2>1, FrameNext DEF IInv, ShutdownInv, Frame, TypeOK, ConsumerType
<1>1. CASE Iterate
  <2>1. ~Started /\ Started' /\ ~done /\ outcome = "none"
        /\ UNCHANGED <<query, done, emitted, outcome>>
    BY <1>1, <1>T DEF Iterate, Started, closeVars, consumerVars
  <2> QED
    BY <2>1 DEF Serial!Next, Serial!Open, Started
<1>2. CASE IterateFails
  <2>1. ~Started /\ ~Started' /\ outcome = "none" /\ outcome' = "error"
        /\ UNCHANGED <<query, emitted>>
    BY <1>2 DEF IterateFails, Started, readerVars
  <2> QED
    BY <2>1 DEF Serial!Next, Serial!OpenFails, Started
<1>3. CASE CloseDone
  <2>1. Started /\ Started' /\ ~done /\ done'
        /\ UNCHANGED <<query, emitted, outcome>>
    BY <1>3 DEF CloseDone, Started, readerVars, consumerVars
  <2> QED
    BY <2>1 DEF Serial!Next, Serial!Close, Started
<1>4. ASSUME ReturnRow \/ ReturnTail
      PROVE  /\ Started /\ outcome = "none" /\ UNCHANGED <<outcome, rpc, done>>
             /\ \E rows \in Group : emitted' = Append(emitted, rows)
  <2>1. CASE ReturnRow
    <3>1. curPos' \in 1 .. Len(cur) /\ cur \in Seq(Group)
      BY <2>1, <1>T DEF TypeOK, ConsumerType, ReturnRow, Drained
    <3> QED
      BY <2>1, <3>1 DEF ReturnRow, Calling, readerVars, closeVars
  <2>2. CASE ReturnTail
    BY <2>2, <1>T DEF TypeOK, ConsumerType, ReturnTail, AtTail, Calling,
       readerVars, closeVars
  <2> QED
    BY <1>4, <2>1, <2>2
<1>5. CASE ReturnRow \/ ReturnTail
  <2>1. PICK rows \in Group : emitted' = Append(emitted, rows)
    BY <1>4, <1>5
  <2>2. CASE ~done
    <3>1. Serial!Deliver
      BY <1>4, <1>5, <1>T, <2>1, <2>2, DeliverStep
    <3> QED
      BY <3>1 DEF Serial!Next
  <2>3. CASE done
    BY <1>4, <1>5, <1>T, <2>1, <2>3 DEF Serial!Next, Serial!AfterClose, Started,
       Group
  <2> QED
    BY <2>2, <2>3
<1>6. ASSUME ReturnEOF \/ ReturnError \/ SeeDone
      PROVE  /\ Started /\ outcome = "none" /\ UNCHANGED <<rpc, done, emitted>>
             /\ outcome' \in {"EOF", "error"}
  BY <1>6 DEF ReturnEOF, ReturnError, SeeDone, AtTail, Blocked, Calling,
     readerVars, closeVars
<1>7. CASE ReturnEOF \/ ReturnError \/ SeeDone
  <2>1. CASE ~done
    <3>1. /\ emitted = Serial!Reference(query)
          /\ outcome' = IF query.failAt = 0 THEN "EOF" ELSE "error"
      <4>1. Serial!Reference(query)' = Serial!Reference(query)
        BY <1>T DEF Serial!Reference, Serial!Readable, Serial!RowsFor,
           Serial!Unmatched, Serial!KeptAlone, Serial!HasMatch, Serial!Matches
      <4> QED
        BY <1>6, <1>7, <1>T, <2>1, <4>1 DEF EndIsComplete, Started
    <3> QED
      BY <1>6, <1>7, <1>T, <2>1, <3>1 DEF Serial!Next, Serial!Finish, Started
  <2>2. CASE done
    BY <1>6, <1>7, <1>T, <2>2 DEF Serial!Next, Serial!AfterClose, Started
  <2> QED
    BY <2>1, <2>2
<1> QED
  BY <1>1, <1>2, <1>3, <1>5, <1>7, VisibleSteps

(***************************************************************************)
(* The parallel join implements the serial one: every behaviour of the     *)
(* goroutines of join.go is, to its caller, a behaviour of a nested-loop   *)
(* join read one row at a time, until the caller closes it.                *)
(***************************************************************************)
THEOREM Refinement == Spec => ImplementsSerialJoin
<1>1. IInv /\ IInv' /\ [Next]_vars => [Serial!Next]_Serial!vars
  BY SerialNext DEF serialVars, status, Serial!vars
<1> QED
  BY <1>1, SerialInit, InvCorrect, PTL DEF Spec, ImplementsSerialJoin, Serial!Spec
===============================================================================
