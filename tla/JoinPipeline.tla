----------------------------- MODULE JoinPipeline -----------------------------
(***************************************************************************)
(* The parallel hash join of pkg/plan/join.go: one goroutine reads the     *)
(* probe (left) input in batches, workers join the batches against the     *)
(* hash table of the build (right) input, a closer closes the result       *)
(* channel, and Next puts the results back in order.  Close may come at    *)
(* any time, also while another goroutine is inside Next: the consumer of  *)
(* a join may itself be the reader goroutine of an enclosing join.         *)
(*                                                                         *)
(* A batch is the interval (lo, hi] of probe rows; the joined rows of one  *)
(* probe row are one group, delivered together.                            *)
(***************************************************************************)
EXTENDS Integers, Sequences, FiniteSets

CONSTANTS Workers,      \* the probe workers; the code starts max(2, GOMAXPROCS)
          BatchSize,    \* joinProbeBatchSize
          QueueDepth,   \* joinQueueDepth, the capacity of both channels
          Queries       \* the queries to run, see SerialJoin

JoinTypes == {"INNER", "LEFT", "RIGHT", "FULL", "SEMI", "CROSS"}

ASSUME ParamAssumption ==
    /\ Workers # {}
    /\ BatchSize \in Nat \ {0}
    /\ QueueDepth \in Nat \ {0}

ASSUME QueryAssumption ==
    \A q \in Queries : /\ q.left \in Seq(Int)
                       /\ q.right \in Seq(Int)
                       /\ q.joinType \in JoinTypes
                       /\ q.failAt \in 0 .. Len(q.left) + 1

VARIABLES
    query,          \* the node and its two inputs
    \* the reader goroutine (readBatches)
    rpc,            \* where it is
    pos,            \* probe rows appended to a batch so far
    lo, seq,        \* the current batch is (lo, pos], its number seq
    \* the channels
    jobs, jobsClosed, results, resultsClosed,
    \* the workers
    wpc, wjob,      \* where each is, and the batch it holds
    matched,        \* the keys some probe row matched (RIGHT and FULL)
    \* the iterator
    done,           \* the done channel is closed
    leftClosed,     \* Close has called leftIt.Close
    err,            \* setErr has been called
    nextSeq, received, probeDone, cur, curPos, tail, tailDone,
    \* what the caller has seen
    emitted,        \* groups returned by Next
    outcome         \* "none", "EOF" or "error"

readerVars   == <<rpc, pos, lo, seq>>
channelVars  == <<jobs, jobsClosed, results, resultsClosed>>
workerVars   == <<wpc, wjob, matched>>
closeVars    == <<done, leftClosed>>
orderVars    == <<nextSeq, received, probeDone, cur, curPos>>
tailVars     == <<tail, tailDone>>
consumerVars == <<orderVars, tailVars, emitted, outcome>>
vars == <<query, readerVars, channelVars, workerVars, closeVars, err,
          consumerVars>>

NoJob == [seq |-> 0, lo |-> 0, hi |-> 0]

(***************************************************************************)
(* The hash table and what a worker does with one batch.                   *)
(***************************************************************************)
NumLeft == Len(query.left)

\* hash[key]: the build rows under a key.
Hash(key) == {j \in DOMAIN query.right : query.right[j] = key}

\* The rows joinBatch appends for probe row i.
JoinRow(i) ==
    LET hit == Hash(query.left[i])
    IN  IF query.joinType = "CROSS" THEN DOMAIN query.right
        ELSE IF hit # {}
             THEN IF query.joinType = "SEMI" THEN {0} ELSE hit
             ELSE IF query.joinType \in {"LEFT", "FULL"} THEN {0} ELSE {}

JoinBatch(job) == [p \in 1 .. job.hi - job.lo |-> JoinRow(job.lo + p)]

\* recordMatched keeps keys only when the matched map exists.
MatchedKeys(job) ==
    IF query.joinType \in {"RIGHT", "FULL"}
    THEN {k \in {query.left[i] : i \in job.lo + 1 .. job.hi} : Hash(k) # {}}
    ELSE {}

\* The build rows materializeTail appends.
TailRows ==
    IF query.joinType \in {"RIGHT", "FULL"}
    THEN {j \in DOMAIN query.right : query.right[j] \notin matched}
    ELSE {}

(***************************************************************************)
(* Iterate: build, then start the goroutines.  Nothing else runs during    *)
(* the build, so it is one step; a failing child makes it return an error  *)
(* with no goroutine started.                                              *)
(***************************************************************************)
Init ==
    /\ query \in Queries
    /\ rpc = "new" /\ pos = 0 /\ lo = 0 /\ seq = 0
    /\ jobs = << >> /\ jobsClosed = FALSE
    /\ results = << >> /\ resultsClosed = FALSE
    /\ wpc = [w \in Workers |-> "new"] /\ wjob = [w \in Workers |-> NoJob]
    /\ matched = {}
    /\ done = FALSE /\ leftClosed = FALSE /\ err = FALSE
    /\ nextSeq = 0 /\ received = {} /\ probeDone = FALSE
    /\ cur = << >> /\ curPos = 0
    /\ tail = {} /\ tailDone = FALSE
    /\ emitted = << >> /\ outcome = "none"

IterateFails ==
    /\ rpc = "new" /\ outcome = "none"
    /\ outcome' = "error"
    /\ UNCHANGED <<query, readerVars, channelVars, workerVars, closeVars, err,
                   orderVars, tailVars, emitted>>

Iterate ==
    /\ rpc = "new" /\ outcome = "none"
    /\ rpc' = "pull"
    /\ wpc' = [w \in Workers |-> "recv"]
    /\ UNCHANGED <<query, pos, lo, seq, channelVars, wjob, matched, closeVars,
                   err, consumerVars>>

Started == rpc # "new"

(***************************************************************************)
(* The reader goroutine.                                                   *)
(***************************************************************************)
\* leftIt.Next returns a row, which the reader holds in its hand.
PullRow ==
    /\ rpc = "pull"
    /\ pos < NumLeft /\ query.failAt # pos + 1
    /\ rpc' = "check"
    /\ UNCHANGED <<query, pos, lo, seq, channelVars, workerVars, closeVars,
                   err, consumerVars>>

\* leftIt.Next returns io.EOF; a closed child may do so early.
PullEOF ==
    /\ rpc = "pull"
    /\ leftClosed \/ (pos = NumLeft /\ query.failAt # pos + 1)
    /\ rpc' = "flush"
    /\ UNCHANGED <<query, pos, lo, seq, channelVars, workerVars, closeVars,
                   err, consumerVars>>

\* Mutant: the failure of the probe input is taken for its end.
PullErrorUnseen ==
    /\ rpc = "pull"
    /\ leftClosed \/ query.failAt = pos + 1
    /\ rpc' = "flush"
    /\ UNCHANGED <<query, pos, lo, seq, channelVars, workerVars, closeVars,
                   err, consumerVars>>

\* leftIt.Next fails; a closed child may do so too.
PullError ==
    /\ rpc = "pull"
    /\ leftClosed \/ query.failAt = pos + 1
    /\ rpc' = "flush"
    /\ err' = TRUE
    /\ UNCHANGED <<query, pos, lo, seq, channelVars, workerVars, closeVars,
                   consumerVars>>

\* The row is dropped if done is closed, otherwise it joins the batch.
AppendRow ==
    /\ rpc = "check"
    /\ IF done
       THEN rpc' = "flush" /\ UNCHANGED pos
       ELSE /\ pos' = pos + 1
            /\ rpc' = IF pos' - lo >= BatchSize THEN "send" ELSE "pull"
    /\ UNCHANGED <<query, lo, seq, channelVars, workerVars, closeVars, err,
                   consumerVars>>

\* Mutant: a queue in place of the bounded channel.
PutJobUnbounded == jobs' = Append(jobs, [seq |-> seq, lo |-> lo, hi |-> pos])

\* it.jobs <- joinJob{seq, batch}
PutJob == /\ Len(jobs) < QueueDepth
          /\ jobs' = Append(jobs, [seq |-> seq, lo |-> lo, hi |-> pos])

SendBatch ==
    /\ rpc = "send"
    /\ PutJob
    /\ seq' = seq + 1
    /\ lo' = pos
    /\ rpc' = "pull"
    /\ UNCHANGED <<query, pos, jobsClosed, results, resultsClosed, workerVars,
                   closeVars, err, consumerVars>>

AbortSend ==
    /\ rpc = "send" /\ done
    /\ rpc' = "flush"
    /\ UNCHANGED <<query, pos, lo, seq, channelVars, workerVars, closeVars,
                   err, consumerVars>>

\* Mutant: the last partial batch is forgotten.
FlushNothing ==
    /\ rpc = "flush"
    /\ rpc' = "close"
    /\ UNCHANGED <<query, pos, lo, seq, channelVars, workerVars, closeVars,
                   err, consumerVars>>

\* The deferred function: send a last partial batch, unless done is closed.
FlushBatch ==
    /\ rpc = "flush"
    /\ \/ pos = lo /\ UNCHANGED jobs
       \/ pos > lo /\ PutJob
       \/ pos > lo /\ done /\ UNCHANGED jobs
    /\ rpc' = "close"
    /\ UNCHANGED <<query, pos, lo, seq, jobsClosed, results, resultsClosed,
                   workerVars, closeVars, err, consumerVars>>

\* Mutant: the jobs channel is never closed.
CloseNoJobs ==
    /\ rpc = "close"
    /\ rpc' = "exit"
    /\ UNCHANGED <<query, pos, lo, seq, channelVars, workerVars, closeVars,
                   err, consumerVars>>

\* close(it.jobs), then the deferred pipeline.Done.
CloseJobs ==
    /\ rpc = "close"
    /\ jobsClosed' = TRUE
    /\ rpc' = "exit"
    /\ UNCHANGED <<query, pos, lo, seq, jobs, results, resultsClosed,
                   workerVars, closeVars, err, consumerVars>>

Reader == \/ PullRow \/ PullEOF \/ PullError \/ AppendRow
          \/ SendBatch \/ AbortSend \/ FlushBatch \/ CloseJobs

(***************************************************************************)
(* The workers.                                                            *)
(***************************************************************************)
TakeJob(w) ==
    /\ wpc[w] = "recv" /\ jobs # << >>
    /\ wjob' = [wjob EXCEPT ![w] = Head(jobs)]
    /\ jobs' = Tail(jobs)
    /\ wpc' = [wpc EXCEPT ![w] = "join"]
    /\ UNCHANGED <<query, readerVars, jobsClosed, results, resultsClosed,
                   matched, closeVars, err, consumerVars>>

\* joinBatch only writes the matched map; its rows are computed at Publish.
JoinRows(w) ==
    /\ wpc[w] = "join"
    /\ matched' = matched \cup MatchedKeys(wjob[w])
    /\ wpc' = [wpc EXCEPT ![w] = "send"]
    /\ UNCHANGED <<query, readerVars, channelVars, wjob, closeVars, err,
                   consumerVars>>

\* it.results <- joinBatchResult{seq, rows}
Publish(w) ==
    /\ wpc[w] = "send"
    /\ Len(results) < QueueDepth
    /\ results' = Append(results, [seq  |-> wjob[w].seq,
                                   rows |-> JoinBatch(wjob[w])])
    /\ wjob' = [wjob EXCEPT ![w] = NoJob]
    /\ wpc' = [wpc EXCEPT ![w] = "recv"]
    /\ UNCHANGED <<query, readerVars, jobs, jobsClosed, resultsClosed, matched,
                   closeVars, err, consumerVars>>

\* Mutant: a worker's send does not select on done.
DropNothing(w) == wpc[w] = "done" /\ UNCHANGED vars

\* done is closed: the result is dropped, the worker keeps draining jobs.
DropResult(w) ==
    /\ wpc[w] = "send" /\ done
    /\ wjob' = [wjob EXCEPT ![w] = NoJob]
    /\ wpc' = [wpc EXCEPT ![w] = "recv"]
    /\ UNCHANGED <<query, readerVars, channelVars, matched, closeVars, err,
                   consumerVars>>

WorkerExit(w) ==
    /\ wpc[w] = "recv" /\ jobs = << >> /\ jobsClosed
    /\ wpc' = [wpc EXCEPT ![w] = "exit"]
    /\ UNCHANGED <<query, readerVars, channelVars, wjob, matched, closeVars,
                   err, consumerVars>>

Worker(w) == TakeJob(w) \/ JoinRows(w) \/ Publish(w) \/ DropResult(w)
             \/ WorkerExit(w)

\* Mutant: the closer waits for the reader only.
ReaderDone == rpc = "exit"

\* pipeline.Wait has returned: reader and workers have all called Done.
PipelineDone == rpc = "exit" /\ \A w \in Workers : wpc[w] = "exit"

CloseResults ==
    /\ PipelineDone /\ ~resultsClosed
    /\ resultsClosed' = TRUE
    /\ UNCHANGED <<query, readerVars, jobs, jobsClosed, results, workerVars,
                   closeVars, err, consumerVars>>

(***************************************************************************)
(* Next: one action per turn of its loop, in the order of its tests.  The  *)
(* caller stops at the first end or error, as Collect and readBatches do.  *)
(***************************************************************************)
Calling == Started /\ outcome = "none"

Drained == curPos = Len(cur)

\* Mutant: any batch that has arrived is the next one.
AnyOrder == received

InOrder == {res \in received : res.seq = nextSeq}

\* 1. the current batch has a row
ReturnRow ==
    /\ Calling /\ ~Drained
    /\ curPos' = curPos + 1
    /\ emitted' = Append(emitted, cur[curPos'])
    /\ UNCHANGED <<query, readerVars, channelVars, workerVars, closeVars, err,
                   nextSeq, received, probeDone, cur, tailVars, outcome>>

\* 2. the next batch in order has been received
TakeInOrder ==
    /\ Calling /\ Drained
    /\ \E res \in InOrder :
         /\ cur' = res.rows
         /\ received' = received \ {res}
    /\ curPos' = 0
    /\ nextSeq' = nextSeq + 1
    /\ UNCHANGED <<query, readerVars, channelVars, workerVars, closeVars, err,
                   probeDone, tailVars, emitted, outcome>>

\* 3. the probe is over
AtTail == Calling /\ Drained /\ InOrder = {} /\ probeDone

\* Mutant: an error is returned as soon as it is seen.
ReturnErrorEarly ==
    /\ Calling /\ Drained /\ InOrder = {} /\ err
    /\ outcome' = "error"
    /\ UNCHANGED <<query, readerVars, channelVars, workerVars, closeVars, err,
                   orderVars, tailVars, emitted>>

ReturnError ==
    /\ AtTail /\ err
    /\ outcome' = "error"
    /\ UNCHANGED <<query, readerVars, channelVars, workerVars, closeVars, err,
                   orderVars, tailVars, emitted>>

ReturnTail ==
    /\ AtTail /\ ~err /\ tail # {}
    /\ emitted' = Append(emitted, tail)
    /\ tail' = {}
    /\ UNCHANGED <<query, readerVars, channelVars, workerVars, closeVars, err,
                   orderVars, tailDone, outcome>>

MaterializeTail ==
    /\ AtTail /\ ~err /\ tail = {} /\ ~tailDone
    /\ tail' = TailRows
    /\ tailDone' = TRUE
    /\ UNCHANGED <<query, readerVars, channelVars, workerVars, closeVars, err,
                   orderVars, emitted, outcome>>

ReturnEOF ==
    /\ AtTail /\ ~err /\ tail = {} /\ tailDone
    /\ outcome' = "EOF"
    /\ UNCHANGED <<query, readerVars, channelVars, workerVars, closeVars, err,
                   orderVars, tailVars, emitted>>

\* 4. block for a result, for the end of results, or for done
Blocked == Calling /\ Drained /\ InOrder = {} /\ ~probeDone

ReceiveResult ==
    /\ Blocked /\ results # << >>
    /\ received' = received \cup {Head(results)}
    /\ results' = Tail(results)
    /\ UNCHANGED <<query, readerVars, jobs, jobsClosed, resultsClosed,
                   workerVars, closeVars, err, nextSeq, probeDone, cur, curPos,
                   tailVars, emitted, outcome>>

SeeResultsClosed ==
    /\ Blocked /\ results = << >> /\ resultsClosed
    /\ probeDone' = TRUE
    /\ UNCHANGED <<query, readerVars, channelVars, workerVars, closeVars, err,
                   nextSeq, received, cur, curPos, tailVars, emitted, outcome>>

SeeDone ==
    /\ Blocked /\ done
    /\ outcome' = "EOF"
    /\ UNCHANGED <<query, readerVars, channelVars, workerVars, closeVars, err,
                   orderVars, tailVars, emitted>>

Consumer == \/ ReturnRow \/ TakeInOrder \/ ReturnError \/ ReturnTail
            \/ MaterializeTail \/ ReturnEOF \/ ReceiveResult
            \/ SeeResultsClosed \/ SeeDone

(***************************************************************************)
(* Close: close(done) once, then leftIt.Close.                             *)
(***************************************************************************)
CloseDone ==
    /\ Started /\ ~done
    /\ done' = TRUE
    /\ UNCHANGED <<query, readerVars, channelVars, workerVars, leftClosed, err,
                   consumerVars>>

CloseLeft ==
    /\ done /\ ~leftClosed
    /\ leftClosed' = TRUE
    /\ UNCHANGED <<query, readerVars, channelVars, workerVars, done, err,
                   consumerVars>>

-------------------------------------------------------------------------------
Next == \/ IterateFails \/ Iterate
        \/ Reader
        \/ \E w \in Workers : Worker(w)
        \/ CloseResults
        \/ Consumer
        \/ CloseDone \/ CloseLeft

Spec == Init /\ [][Next]_vars

\* Goroutines are scheduled, and neither leftIt.Next nor leftIt.Close blocks
\* for ever.  Nothing makes a caller go on calling Next, nor close.
Goroutines == /\ WF_vars(Reader)
              /\ \A w \in Workers : WF_vars(Worker(w))
              /\ WF_vars(CloseResults)
              /\ WF_vars(CloseLeft)

GoSpec == Spec /\ Goroutines

-------------------------------------------------------------------------------
(***************************************************************************)
(* Properties.                                                             *)
(***************************************************************************)
Group  == SUBSET (0 .. Len(query.right))
Job    == {job \in [seq : Nat, lo : Nat, hi : Nat] : job.lo <= job.hi}
Result == [seq : Nat, rows : Seq(Group)]

ReaderType ==
    /\ rpc \in {"new", "pull", "check", "send", "flush", "close", "exit"}
    /\ pos \in Nat /\ lo \in 0 .. pos /\ seq \in Nat

ChannelType ==
    /\ jobs \in Seq(Job) /\ Len(jobs) <= QueueDepth
    /\ results \in Seq(Result) /\ Len(results) <= QueueDepth
    /\ jobsClosed \in BOOLEAN /\ resultsClosed \in BOOLEAN

WorkerType ==
    /\ wpc \in [Workers -> {"new", "recv", "join", "send", "exit"}]
    /\ wjob \in [Workers -> Job]
    /\ matched \subseteq {query.right[j] : j \in DOMAIN query.right}

CloseType == done \in BOOLEAN /\ leftClosed \in BOOLEAN /\ err \in BOOLEAN

ConsumerType ==
    /\ nextSeq \in Nat /\ received \in SUBSET Result
    /\ probeDone \in BOOLEAN
    /\ cur \in Seq(Group) /\ curPos \in 0 .. Len(cur)
    /\ tail \in Group /\ tailDone \in BOOLEAN
    /\ emitted \in Seq(Group)
    /\ outcome \in {"none", "EOF", "error"}

TypeOK == /\ query \in Queries
          /\ ReaderType /\ ChannelType /\ WorkerType
          /\ CloseType /\ ConsumerType

Serial == INSTANCE SerialJoin
          WITH status <- IF ~Started THEN "new"
                         ELSE IF done THEN "closed" ELSE "open"

(***************************************************************************)
(* Next returns "the next joined row in serial (left-input) order": until  *)
(* Close, the groups delivered are a prefix of the nested-loop result,     *)
(* whatever order the workers finish their batches in.                     *)
(***************************************************************************)
SerialOrder ==
    ~done => /\ Len(emitted) <= Len(Serial!Reference(query))
             /\ \A p \in DOMAIN emitted :
                    emitted[p] = Serial!Reference(query)[p]

(***************************************************************************)
(* io.EOF is returned only for a complete result, a failing probe input is *)
(* always reported, and only after every row read before the failure.      *)
(***************************************************************************)
EndIsComplete ==
    Started /\ ~done /\ outcome # "none" =>
        /\ emitted = Serial!Reference(query)
        /\ outcome = (IF query.failAt = 0 THEN "EOF" ELSE "error")

(***************************************************************************)
(* No goroutine sends on a channel that has been closed: that panics.      *)
(***************************************************************************)
NoSendOnClosed ==
    /\ jobsClosed => rpc = "exit"
    /\ resultsClosed => \A w \in Workers : wpc[w] = "exit"

(***************************************************************************)
(* A caller that reads to the end without closing leaks no goroutine.      *)
(***************************************************************************)
NoLeakAtEnd ==
    Started /\ ~done /\ outcome # "none" => PipelineDone /\ resultsClosed

(***************************************************************************)
(* The parallel join implements the serial one.                            *)
(***************************************************************************)
ImplementsSerialJoin == Serial!Spec

(***************************************************************************)
(* A caller that, like Collect, keeps calling Next until io.EOF or an      *)
(* error reaches it: reader, workers and caller never wait for each other  *)
(* in a circle.                                                            *)
(***************************************************************************)
CollectEnds == WF_vars(Consumer) => (Started ~> outcome # "none")

(***************************************************************************)
(* After Close every goroutine ends, though nobody reads results any more. *)
(***************************************************************************)
CloseReleases == done ~> PipelineDone /\ resultsClosed
===============================================================================
