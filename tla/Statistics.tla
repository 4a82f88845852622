----------------------------- MODULE Statistics -----------------------------
(***************************************************************************)
(* Statistics that threads record into while others evaluate, clear and    *)
(* save them: an aggregate that is exchanged as a whole, a histogram whose *)
(* counters are read one by one, and the manager that writes the results   *)
(* of both into files. Averages of nothing are not evaluated: for integers *)
(* they divide by zero.                                                    *)
(***************************************************************************)
EXTENDS Integers, Sequences, FiniteSets, Functions, FiniteSetsExt

CONSTANTS
  StatThreads,
  Samples,             \* the values that are recorded
  Lower, Upper, Buckets,
  MaxSamples,          \* bound: samples recorded
  MaxLines             \* bound: lines of a file that is appended to

ASSUME StatisticsAssumption ==
  /\ Buckets \in Nat \ {0} /\ {Lower, Upper} \subseteq Int /\ Lower < Upper
  /\ Samples \subseteq Int /\ IsFiniteSet(Samples) /\ Samples # {}   \* numbers of some width
  /\ {MaxSamples, MaxLines} \subseteq Nat

VARIABLES
  saState,     \* state_ of the aggregate
  saThread,    \* the sample a thread records, and the state it loaded
  saLog,       \* history: how often each sample was recorded since the aggregate was cleared
  shCount,     \* hist_data_, with under_samples_ at 0 and over_samples_ at Buckets + 1
  shThread,    \* a thread that evaluates or clears: the counters it has left and what it read
  shBefore,    \* history: the counters when an evaluation began; empty when they were cleared since
  smAppend,    \* append_output_
  smFile,      \* the lines of the file, or NoFile
  smSaving,    \* per thread that saves: how far it is, what it has read of the flag and of the file
  smMixed,     \* history: what is in the file is of saves that overlapped, or during which the flag was set
  stRecorded   \* bound: the samples so far

statVars == <<saState, saThread, saLog, shCount, shThread, shBefore, stRecorded>>
saveVars == <<smAppend, smFile, smSaving, smMixed>>

Places == 0 .. Buckets + 1
NothingRecorded == [sum |-> 0, min |-> Max(Samples), max |-> Min(Samples), count |-> 0]
Quiet == [op |-> "none", sample |-> Min(Samples), loaded |-> NothingRecorded]
NotEvaluating == [op |-> "none", left |-> {}, read |-> [i \in Places |-> 0]]
NoFile == <<"none">>
Edges == {"header", "footer"}
\* alone: nobody else saves and nobody sets the flag since it began.
NotSaving == [at |-> "none", append |-> FALSE, existed |-> FALSE, left |-> {}, writes |-> {}, alone |-> FALSE]

StatInit ==
  /\ saState = NothingRecorded /\ saThread = [t \in StatThreads |-> Quiet] /\ saLog = [v \in Samples |-> 0]
  /\ shCount = [i \in Places |-> 0] /\ shThread = [t \in StatThreads |-> NotEvaluating]
  /\ shBefore = [t \in StatThreads |-> <<>>] /\ stRecorded = 0

\* The flag is set at first, though its documentation says that it defaults to false.
SaveInit == smAppend = TRUE /\ smFile = NoFile /\ smSaving = [t \in StatThreads |-> NotSaving] /\ smMixed = FALSE

AtRest(t) == saThread[t].op = "none" /\ shThread[t].op = "none"
Lesser(a, b) == IF a < b THEN a ELSE b
Greater(a, b) == IF a > b THEN a ELSE b
WithSample(s, v) == [sum |-> s.sum + v, min |-> Lesser(s.min, v), max |-> Greater(s.max, v), count |-> s.count + 1]

(***************************************************************************)
(* aggregate_statistic                                                     *)
(***************************************************************************)

BeginRecord(t, v) ==
  /\ AtRest(t) /\ stRecorded < MaxSamples
  /\ saThread' = [saThread EXCEPT ![t] = [op |-> "record", sample |-> v, loaded |-> saState]]
  /\ stRecorded' = stRecorded + 1
  /\ UNCHANGED <<saState, saLog, shCount, shThread, shBefore>>

MutantExchanges(loaded) == TRUE

Exchanges(loaded) == loaded = saState

\* compare_exchange_weak: when it fails the state is loaded again. Then the sample is put into the histogram.
ExchangeState(t) ==
  /\ saThread[t].op = "record"
  /\ IF Exchanges(saThread[t].loaded)
     THEN /\ saState' = WithSample(saThread[t].loaded, saThread[t].sample)
          /\ saLog' = [saLog EXCEPT ![saThread[t].sample] = @ + 1]
          /\ saThread' = [saThread EXCEPT ![t].op = "histogram"]
     ELSE /\ saThread' = [saThread EXCEPT ![t].loaded = saState]
          /\ UNCHANGED <<saState, saLog>>
  /\ UNCHANGED <<shCount, shThread, shBefore, stRecorded>>

\* Also part of clear_values.
ClearAggregate(t) ==
  /\ AtRest(t) /\ saState' = NothingRecorded /\ saLog' = [v \in Samples |-> 0]
  /\ shThread' = [shThread EXCEPT ![t] = [NotEvaluating EXCEPT !.op = "clear", !.left = Places]]
  /\ shBefore' = [u \in StatThreads |-> <<>>]
  /\ UNCHANGED <<saThread, shCount, stRecorded>>

(***************************************************************************)
(* histogram_statistic                                                     *)
(***************************************************************************)

BucketIndex(v) == (Buckets * (v - Lower)) \div (Upper - Lower)
BucketBound(i) == ((i * (Upper - Lower)) \div Buckets) + Lower
PlaceFor(v) == IF v < Lower THEN 0 ELSE IF v >= Upper THEN Buckets + 1 ELSE BucketIndex(v) + 1

RecordInHistogram(t) ==
  /\ saThread[t].op = "histogram"
  /\ shCount' = [shCount EXCEPT ![PlaceFor(saThread[t].sample)] = @ + 1]
  /\ saThread' = [saThread EXCEPT ![t] = Quiet]
  /\ UNCHANGED <<saState, saLog, shThread, shBefore, stRecorded>>

WithoutPlace(reads, i) == [reads EXCEPT !.left = @ \ {i}]
NextCleared(left) == IF 0 \in left THEN 0 ELSE IF Buckets + 1 \in left THEN Buckets + 1 ELSE Min(left)

ClearPlace(t) ==
  /\ shThread[t].op = "clear"
  /\ LET i == NextCleared(shThread[t].left)
     IN /\ shCount' = [shCount EXCEPT ![i] = 0]
        /\ shThread' = [shThread EXCEPT ![t] = IF shThread[t].left = {i} THEN NotEvaluating ELSE WithoutPlace(shThread[t], i)]
  /\ shBefore' = [u \in StatThreads |-> <<>>]
  /\ UNCHANGED <<saState, saThread, saLog, stRecorded>>

Evaluate(t) ==
  /\ AtRest(t) /\ saState.count > 0
  /\ shThread' = [shThread EXCEPT ![t] = [NotEvaluating EXCEPT !.op = "evaluate", !.left = Places]]
  /\ shBefore' = [shBefore EXCEPT ![t] = <<shCount>>]
  /\ UNCHANGED <<saState, saThread, saLog, shCount, stRecorded>>

\* The buckets in their order, then what is under and over them.
NextPlace(left) == IF left \cap (1 .. Buckets) # {} THEN Min(left \cap (1 .. Buckets)) ELSE Min(left)

ReadPlace(t) ==
  /\ shThread[t].op = "evaluate" /\ shThread[t].left # {}
  /\ LET i == NextPlace(shThread[t].left)
     IN shThread' = [shThread EXCEPT ![t] = [WithoutPlace(shThread[t], i) EXCEPT !.read[i] = shCount[i]]]
  /\ UNCHANGED <<saState, saThread, saLog, shCount, shBefore, stRecorded>>

Evaluated(t) ==
  /\ shThread[t].op = "evaluate" /\ shThread[t].left = {}
  /\ shThread' = [shThread EXCEPT ![t] = NotEvaluating] /\ shBefore' = [shBefore EXCEPT ![t] = <<>>]
  /\ UNCHANGED <<saState, saThread, saLog, shCount, stRecorded>>

(***************************************************************************)
(* statistics_manager::save                                                *)
(***************************************************************************)

Saving(t) == smSaving[t].at # "none"

\* save holds the mutex shared, so several threads may be in it for one statistic; setting the flag takes no lock at
\* all.  The flag is read a first time for the way to open the file.
BeginSave(t) ==
  /\ ~Saving(t) /\ (smAppend => Len(smFile) < MaxLines)
  /\ LET others == {u \in StatThreads : Saving(u)}
     IN smSaving' = [u \in StatThreads |->
          IF u = t THEN [NotSaving EXCEPT !.at = "begun", !.append = smAppend, !.alone = (others = {})]
          ELSE [smSaving[u] EXCEPT !.alone = FALSE]]
  /\ UNCHANGED <<smAppend, smFile, smMixed>>

LookForFile(t) ==
  /\ smSaving[t].at = "begun"
  /\ smSaving' = [smSaving EXCEPT ![t].at = "looked", ![t].existed = smFile # NoFile]
  /\ UNCHANGED <<smAppend, smFile, smMixed>>

\* A file that is not appended to is emptied.
OpenFile(t) ==
  /\ smSaving[t].at = "looked"
  /\ smFile' = IF smSaving[t].append /\ smFile # NoFile THEN smFile ELSE <<>>
  /\ smSaving' = [smSaving EXCEPT ![t].at = "open", ![t].left = Edges]
  /\ UNCHANGED <<smAppend, smMixed>>

\* Arguments of one call, in any order, for each of which the flag is read again: a footer only when nothing is
\* appended later, a header unless the file had one.
DecideEdge(t, edge) ==
  /\ smSaving[t].at = "open" /\ edge \in smSaving[t].left
  /\ smSaving' = [smSaving EXCEPT ![t].left = @ \ {edge},
                   ![t].writes = IF smAppend /\ (edge = "header" => smSaving[t].existed) THEN @ ELSE @ \cup {edge}]
  /\ UNCHANGED <<smAppend, smFile, smMixed>>

Text(edges) == (IF "header" \in edges THEN <<"header">> ELSE <<>>) \o <<"result">>
               \o (IF "footer" \in edges THEN <<"footer">> ELSE <<>>)

\* Appended, or from the start over what others have written since it was emptied, lines as long as the new ones.
WriteResult(t) ==
  /\ smSaving[t].at = "open" /\ smSaving[t].left = {}
  /\ LET text == Text(smSaving[t].writes)
     IN smFile' = IF smSaving[t].append THEN smFile \o text ELSE text \o SubSeq(smFile, Len(text) + 1, Len(smFile))
  /\ smMixed' = (~smSaving[t].alone \/ (smMixed /\ smSaving[t].append))
  /\ smSaving' = [smSaving EXCEPT ![t] = NotSaving]
  /\ UNCHANGED smAppend

SetAppend ==
  /\ smAppend' = ~smAppend
  /\ smSaving' = [t \in StatThreads |-> [smSaving[t] EXCEPT !.alone = FALSE]]
  /\ UNCHANGED <<smFile, smMixed>>

StatNext ==
  \/ \E t \in StatThreads :
       \/ \E v \in Samples : BeginRecord(t, v)
       \/ ExchangeState(t) \/ ClearAggregate(t) \/ RecordInHistogram(t)
       \/ ClearPlace(t) \/ Evaluate(t) \/ ReadPlace(t) \/ Evaluated(t)

StatSpec == StatInit /\ [][StatNext]_statVars

SaveNext ==
  \/ \E t \in StatThreads :
       \/ BeginSave(t) \/ LookForFile(t) \/ OpenFile(t) \/ WriteResult(t)
       \/ \E edge \in Edges : DecideEdge(t, edge)
  \/ SetAppend

SaveSpec == SaveInit /\ [][SaveNext]_saveVars

(***************************************************************************)
(* Properties                                                              *)
(***************************************************************************)

Total(f) == FoldFunction(+, 0, f)
Logged == {v \in Samples : saLog[v] > 0}

\* However recordings and clears interleave, the aggregate is that of the samples recorded since the clear.
AggregateRight ==
  /\ saState.count = Total(saLog)
  /\ saState.sum = Total([v \in Samples |-> v * saLog[v]])
  /\ Logged # {} => saState.min = Min(Logged) /\ saState.max = Max(Logged)

\* An evaluation is no snapshot, but unless a clear interferes no counter it has read is less than when it
\* began or more than now.
EvaluationBounded ==
  \A t \in StatThreads : shThread[t].op = "evaluate" /\ shBefore[t] # <<>> =>
    \A i \in Places \ shThread[t].left : shBefore[t][1][i] <= shThread[t].read[i] /\ shThread[t].read[i] <= shCount[i]

\* Samples are counted in a bucket whose bounds, which integers round down, enclose them.
BucketsEnclose ==
  \A v \in Samples : Lower <= v /\ v < Upper =>
    /\ PlaceFor(v) \in 1 .. Buckets
    /\ BucketBound(BucketIndex(v)) <= v /\ v <= BucketBound(BucketIndex(v) + 1)

\* A file has a header, and nowhere but on top, whatever saves have replaced it and appended to it one after the other,
\* with the flag set in between.  The code does not keep it for saves of two threads at once, which may both find no
\* file and both write a header, nor for a flag that is set during a save; such a file is right again when a save
\* that nobody disturbs has replaced it.
OneHeader ==
  (\A t \in StatThreads : ~Saving(t)) /\ ~smMixed /\ smFile # NoFile => {i \in DOMAIN smFile : smFile[i] = "header"} = {1}

\* All of it holds at once, for what is recorded, what is evaluated and what is saved.
StatisticsSafe == AggregateRight /\ EvaluationBounded /\ BucketsEnclose /\ OneHeader
=============================================================================
