-------------------------- MODULE ConcurrentProofs --------------------------
(***************************************************************************)
(* Proofs that the concurrency operator (module Concurrent) never shares   *)
(* or loses a pooled buffer, never blocks on returnChan and never writes   *)
(* into step vectors the caller holds, and that it implements the stream   *)
(* of module OperatorStream, for every channel capacity and any number of  *)
(* batches.                                                                *)
(***************************************************************************)
EXTENDS Concurrent, FiniteSetTheorems, SequenceTheorems, TLAPS

(* Which goroutine holds a buffer at which point of its code. *)
Hands ==
  /\ pullPc # "off" => inited
  /\ consPc \in {"receive", "swap", "return"} => pullPc # "off"
  /\ pullPc \in {"next", "send", "returnEnd", "returnErr"} => readBuf # NoBuf
  /\ pullPc \in {"off", "select", "take"} => readBuf = NoBuf
  /\ consPc \in {"swap", "return"} <=> consBuf # NoBuf
  /\ drainPc = "return" <=> drainBuf # NoBuf

(* No two buffers share inner slices, and the caller's are its own. *)
SlicesDisjoint == \A p, q \in Places : p # q => slices[p] # slices[q]

(* The inductive invariant: what the goroutines hold makes the moves of   *)
(* buffers typed and disjoint, and disjoint slices make writes harmless.  *)
IInv == TypeOK /\ Hands /\ BuffersPartition /\ SlicesDisjoint /\ CallerBatchStable

-----------------------------------------------------------------------------
(* The elements of a channel after a send. *)
LEMMA RangeOfAppend ==
  ASSUME NEW S, NEW s \in Seq(S), NEW e \in S
  PROVE  Range(Append(s, e)) = Range(s) \cup {e}
  <1>1. DOMAIN s = 1..Len(s) /\ Len(s) \in Nat
    BY LenProperties
  <1>2. /\ DOMAIN Append(s, e) = 1..(Len(s) + 1)
        /\ \A i \in 1..Len(s) : Append(s, e)[i] = s[i]
        /\ Append(s, e)[Len(s) + 1] = e
    BY AppendProperties, LenProperties
  <1>3. 1..(Len(s) + 1) = 1..Len(s) \cup {Len(s) + 1}
    BY <1>1
  <1>4. Range(s) = {s[i] : i \in 1..Len(s)}
    BY <1>1 DEF Range
  <1>5. Range(Append(s, e)) = {Append(s, e)[i] : i \in 1..Len(s) \cup {Len(s) + 1}}
    BY <1>2, <1>3 DEF Range
  <1> HIDE DEF Range
  <1> QED
    BY <1>2, <1>4, <1>5

(* A receive takes the head; what is left are the later elements. *)
LEMMA ReceiveProperties ==
  ASSUME NEW S, NEW s \in Seq(S), s # <<>>
  PROVE  /\ Head(s) \in S /\ Head(s) = s[1]
         /\ Tail(s) \in Seq(S) /\ Len(Tail(s)) = Len(s) - 1
         /\ \A i \in 1..Len(Tail(s)) : Tail(s)[i] = s[i + 1]
         /\ Len(s) \in Nat \ {0} /\ DOMAIN s = 1..Len(s)
         /\ DOMAIN Tail(s) = 1..(Len(s) - 1)
  BY HeadTailProperties, LenProperties, EmptySeq

(* The elements of a channel before and after a receive. *)
LEMMA RangeOfTail ==
  ASSUME NEW S, NEW s \in Seq(S), s # <<>>
  PROVE  Range(s) = Range(Tail(s)) \cup {Head(s)}
  <1>1. \A i \in 1..(Len(s) - 1) : i + 1 \in 1..Len(s)
    BY ReceiveProperties
  <1>2. \A i \in 1..Len(s) : i = 1 \/ (i - 1 \in 1..(Len(s) - 1) /\ (i - 1) + 1 = i)
    BY ReceiveProperties
  <1>3. 1 \in 1..Len(s)
    BY ReceiveProperties
  <1>4. Range(Tail(s)) \cup {Head(s)} \subseteq Range(s)
    BY <1>1, <1>3, ReceiveProperties DEF Range
  <1>5. ASSUME NEW i \in 1..Len(s) PROVE s[i] \in Range(Tail(s)) \cup {Head(s)}
    <2>1. CASE i = 1
      BY <2>1, ReceiveProperties
    <2>2. CASE i - 1 \in 1..(Len(s) - 1) /\ (i - 1) + 1 = i
      <3>1. Tail(s)[i - 1] = s[i] /\ i - 1 \in DOMAIN Tail(s)
        BY <2>2, ReceiveProperties
      <3> QED
        BY <3>1 DEF Range
    <2> QED
      BY <1>2, <2>1, <2>2
  <1> QED
    BY <1>4, <1>5, ReceiveProperties DEF Range

(* A channel that gets a buffer it does not hold stays without duplicates. *)
LEMMA DistinctAppend ==
  ASSUME NEW S, NEW s \in Seq(S), NEW e \in S, Distinct(s), e # NoBuf => e \notin Range(s)
  PROVE  Distinct(Append(s, e))
  <1>1. DOMAIN s = 1..Len(s) /\ Len(s) \in Nat
    BY LenProperties
  <1>2. /\ DOMAIN Append(s, e) = 1..(Len(s) + 1)
        /\ \A i \in 1..Len(s) : Append(s, e)[i] = s[i]
        /\ Append(s, e)[Len(s) + 1] = e
    BY AppendProperties, LenProperties
  <1>3. \A i \in 1..(Len(s) + 1) : i \in 1..Len(s) \/ i = Len(s) + 1
    BY <1>1
  <1>4. \A i \in 1..Len(s) : s[i] = e => e = NoBuf
    BY <1>1 DEF Range
  <1> QED
    BY <1>1, <1>2, <1>3, <1>4, Zenon DEF Distinct

(* The buffer received from a channel without duplicates is gone from it. *)
LEMMA DistinctTail ==
  ASSUME NEW S, NEW s \in Seq(S), s # <<>>, Distinct(s)
  PROVE  /\ Distinct(Tail(s))
         /\ Head(s) # NoBuf => Head(s) \notin Range(Tail(s))
  <1>1. \A i \in 1..(Len(s) - 1) : i + 1 \in DOMAIN s /\ i + 1 # 1 /\ Tail(s)[i] = s[i + 1]
    BY ReceiveProperties
  <1>2. 1 \in DOMAIN s /\ Head(s) = s[1] /\ DOMAIN Tail(s) = 1..(Len(s) - 1)
    BY ReceiveProperties
  <1>3. \A i, j \in 1..(Len(s) - 1) : i # j => i + 1 # j + 1
    BY ReceiveProperties
  <1>4. Distinct(Tail(s))
    <2> SUFFICES ASSUME NEW i \in 1..(Len(s) - 1), NEW j \in 1..(Len(s) - 1), i # j,
                        Tail(s)[i] # NoBuf
                 PROVE  Tail(s)[i] # Tail(s)[j]
      BY <1>2, Zenon DEF Distinct
    <2> QED
      BY <1>1, <1>3 DEF Distinct
  <1>5. Head(s) # NoBuf => Head(s) \notin Range(Tail(s))
    BY <1>1, <1>2 DEF Distinct, Range
  <1> QED
    BY <1>4, <1>5

(* A message or a free buffer that is received has its type. *)
LEMMA ReceiveTypes ==
  ASSUME TypeOK
  PROVE  /\ buffer # <<>> => /\ Head(buffer) \in Places
                             /\ Tail(buffer) \in Seq(Places)
                             /\ Len(Tail(buffer)) <= BufferSize
         /\ returnChan # <<>> => /\ Head(returnChan) \in Buffers
                                 /\ Tail(returnChan) \in Seq(Buffers)
  <1>1. buffer \in Seq(Places) /\ Len(buffer) <= BufferSize /\ returnChan \in Seq(Buffers)
    BY DEF TypeOK
  <1> QED
    BY <1>1, ReceiveProperties, BufferSizeAssumption

(* Every action keeps the variables in their types. *)
LEMMA TypeStep == TypeOK /\ Hands /\ [Next]_vars => TypeOK'
  <1> USE BufferSizeAssumption, NumBatchesAssumption
      DEF TypeOK, Hands, Batches
  <1> SUFFICES ASSUME TypeOK, Hands, [Next]_vars PROVE TypeOK'
    BY Zenon
  <1>0. Buffers \subseteq Places /\ NoBuf \in Places /\ Places \ {NoBuf} = Buffers
    BY DEF Places, Buffers, NoBuf
  <1>1. CASE CancelContext
    BY <1>1 DEF CancelContext, childVars, pullVars, drainVars, consVars, dataVars
  <1>2. CASE Consumer
    <2> USE DEF childVars, pullVars, drainVars, consVars, dataVars, ConsPcs
    <2>0. [b \in Buffers |-> b] \in Seq(Buffers)
      BY DEF Buffers
    <2>1. CASE Series
      BY <2>1, <2>0 DEF Series, InitBuffers
    <2>2. CASE Call
      BY <2>2 DEF Call
    <2>3. CASE CheckContext
      BY <2>3 DEF CheckContext
    <2>4. CASE StartOnce
      BY <2>4, <2>0 DEF StartOnce, InitBuffers, PullPcs, DrainPcs
    <2>5. CASE Receive
      BY <2>5, <1>0, ReceiveTypes, Zenon DEF Receive
    <2>6. CASE Swap
      BY <2>6, <1>0, Zenon DEF Swap, SwapSlices
    <2>7. CASE ReturnSwapped
      BY <2>7, <1>0 DEF ReturnSwapped
    <2> QED
      BY <1>2, <2>1, <2>2, <2>3, <2>4, <2>5, <2>6, <2>7, Zenon DEF Consumer
  <1>3. CASE Pull
    <2> USE DEF childVars, pullVars, drainVars, consVars, dataVars, PullPcs
    <2>1. CASE PullSelect
      BY <2>1 DEF PullSelect
    <2>2. CASE PullTake
      BY <2>2, <1>0, ReceiveTypes, Zenon DEF PullTake
    <2>3. CASE PullNextData
      BY <2>3, <1>0 DEF PullNextData
    <2>4. CASE PullNextEnd
      BY <2>4 DEF PullNextEnd
    <2>5. CASE PullNextErr
      BY <2>5 DEF PullNextErr
    <2>6. CASE PullNextPanic
      BY <2>6 DEF PullNextPanic
    <2>7. CASE PullReturn
      BY <2>7, <1>0 DEF PullReturn
    <2>8. CASE PullSend
      BY <2>8, <1>0 DEF PullSend
    <2>9. CASE PullSendErr
      BY <2>9, <1>0 DEF PullSendErr
    <2>10. CASE PullClose
      BY <2>10 DEF PullClose
    <2> QED
      BY <1>3, <2>1, <2>2, <2>3, <2>4, <2>5, <2>6, <2>7, <2>8, <2>9, <2>10, Zenon DEF Pull
  <1>4. CASE Drain
    <2> USE DEF childVars, pullVars, drainVars, consVars, dataVars, DrainPcs
    <2>1. CASE DrainWake
      BY <2>1 DEF DrainWake
    <2>2. CASE DrainRange
      BY <2>2, <1>0, ReceiveTypes, Zenon DEF DrainRange
    <2>3. CASE DrainReturn
      BY <2>3, <1>0 DEF DrainReturn
    <2> QED
      BY <1>4, <2>1, <2>2, <2>3, Zenon DEF Drain
  <1>5. CASE UNCHANGED vars
    BY <1>5 DEF vars, childVars, pullVars, drainVars, consVars, dataVars
  <1> QED
    BY <1>1, <1>2, <1>3, <1>4, <1>5, Zenon DEF Next

(* Every action keeps the goroutines' hands as their code points say. *)
LEMMA HandsStep == TypeOK /\ Hands /\ [Next]_vars => Hands'
  <1> USE DEF Hands, childVars, pullVars, drainVars, consVars, dataVars
  <1> SUFFICES ASSUME TypeOK, Hands, [Next]_vars PROVE Hands'
    OBVIOUS
  <1>0. NoBuf \notin Buffers
    BY DEF Buffers, NoBuf
  <1>1. CASE CancelContext
    BY <1>1 DEF CancelContext
  <1>2. CASE Consumer
    <2>1. CASE Receive
      BY <1>2, <2>1 DEF Receive
    <2> QED
      BY <1>2, <2>1 DEF Consumer, Series, Call, CheckContext, StartOnce, Swap,
         ReturnSwapped, InitBuffers
  <1>3. CASE Pull
    <2>1. CASE PullTake
      BY <2>1, <1>0, ReceiveTypes DEF PullTake
    <2> QED
      BY <1>3, <2>1 DEF Pull, PullSelect, PullNextData, PullNextEnd, PullNextErr,
         PullNextPanic, PullReturn, PullSend, PullSendErr, PullClose
  <1>4. CASE Drain
    BY <1>4 DEF Drain, DrainWake, DrainRange, DrainReturn
  <1>5. CASE UNCHANGED vars
    BY <1>5 DEF vars
  <1> QED
    BY <1>1, <1>2, <1>3, <1>4, <1>5 DEF Next

(* Every action keeps each pooled buffer in exactly one place. *)
LEMMA PartitionStep == TypeOK /\ Hands /\ BuffersPartition /\ [Next]_vars => BuffersPartition'
  <1> USE DEF childVars, pullVars, drainVars, consVars, dataVars
  <1> SUFFICES ASSUME TypeOK, Hands, BuffersPartition, [Next]_vars PROVE BuffersPartition'
    OBVIOUS
  <1>0. /\ NoBuf \notin Buffers
        /\ Buffers \subseteq Places /\ NoBuf \in Places
        /\ \A p \in Places : p # NoBuf => p \in Buffers
    BY DEF Buffers, Places, NoBuf
  <1>1. returnChan \in Seq(Buffers) /\ buffer \in Seq(Places)
    BY DEF TypeOK
  <1>2. readBuf \in Places /\ drainBuf \in Places /\ consBuf \in Places /\ inited \in BOOLEAN
    BY DEF TypeOK
  <1>3. ASSUME UNCHANGED <<inited, returnChan, buffer, readBuf, drainBuf, consBuf>>
        PROVE  BuffersPartition'
    BY <1>3 DEF BuffersPartition, Free, Queued, Held, Distinct
  (* seriesOnce: the pool goes from nowhere into returnChan. *)
  <1>4. ASSUME InitBuffers, UNCHANGED <<buffer, readBuf, drainBuf, consBuf>>
        PROVE  BuffersPartition'
    <2>1. CASE inited
      BY <1>3, <1>4, <2>1 DEF InitBuffers
    <2>2. CASE ~inited
      <3>1. inited' /\ returnChan' = [b \in Buffers |-> b]
        BY <1>4, <2>2 DEF InitBuffers
      <3>2. Free' = Buffers /\ Distinct(returnChan')
        BY <3>1 DEF Free, Range, Distinct
      <3> QED
        BY <1>4, <2>2, <3>1, <3>2 DEF BuffersPartition, Queued, Held, Distinct
    <2> QED
      BY <1>2, <2>1, <2>2
  (* A send on returnChan by the goroutine that holds the buffer b. *)
  <1>5. ASSUME NEW b \in Buffers, b \in Held, returnChan' = Append(returnChan, b),
               Held' = Held \ {b}, UNCHANGED <<inited, buffer>>,
               readBuf' # NoBuf => readBuf' \notin {consBuf', drainBuf'},
               consBuf' # NoBuf => consBuf' # drainBuf'
        PROVE  BuffersPartition'
    <2>1. b \notin Free /\ b \notin Queued
      BY <1>5 DEF BuffersPartition
    <2>2. Free' = Free \cup {b}
      BY <1>1, <1>5, RangeOfAppend DEF Free
    <2>3. Distinct(returnChan')
      BY <1>1, <1>5, <2>1, DistinctAppend DEF Free, BuffersPartition
    <2>4. Queued' = Queued /\ Distinct(buffer')
      BY <1>5 DEF Queued, BuffersPartition, Distinct
    <2> QED
      BY <1>5, <2>1, <2>2, <2>3, <2>4, <1>2 DEF BuffersPartition
  (* A receive from the channel into empty hands. *)
  <1>6. ASSUME buffer # <<>>, buffer' = Tail(buffer), UNCHANGED <<inited, returnChan>>,
               Held' = Held \cup ({Head(buffer)} \ {NoBuf})
        PROVE  /\ Free' \cup Queued' \cup Held' = IF inited' THEN Buffers ELSE {}
               /\ Free' \cap (Queued' \cup Held') = {}
               /\ Queued' \cap Held' = {}
               /\ Distinct(returnChan') /\ Distinct(buffer')
               /\ Head(buffer) # NoBuf => Head(buffer) \notin Held
    <2>1. /\ Range(buffer) = Range(Tail(buffer)) \cup {Head(buffer)}
          /\ Distinct(Tail(buffer))
          /\ Head(buffer) # NoBuf => Head(buffer) \notin Range(Tail(buffer))
      BY <1>1, <1>6, RangeOfTail, DistinctTail DEF BuffersPartition
    <2>2. Queued' = Range(Tail(buffer)) \ {NoBuf} /\ Queued = Range(buffer) \ {NoBuf}
      BY <1>6 DEF Queued
    <2>3. Free' = Free /\ Distinct(returnChan')
      BY <1>6 DEF Free, BuffersPartition, Distinct
    <2> QED
      BY <1>6, <2>1, <2>2, <2>3 DEF BuffersPartition
  <1>7. CASE CancelContext \/ UNCHANGED vars
    BY <1>3, <1>7 DEF CancelContext, vars
  <1>8. CASE Consumer
    <2>1. CASE Series \/ StartOnce
      BY <1>4, <2>1 DEF Series, StartOnce
    <2>2. CASE Call \/ CheckContext \/ Swap
      BY <1>3, <2>2 DEF Call, CheckContext, Swap
    <2>3. CASE Receive
      <3>1. CASE buffer = <<>>
        BY <1>3, <2>3, <3>1 DEF Receive
      <3>2. CASE buffer # <<>>
        <4>1. consBuf = NoBuf /\ consBuf' = Head(buffer) /\ UNCHANGED <<readBuf, drainBuf>>
          BY <2>3, <3>2 DEF Receive, Hands
        <4>2. Held' = Held \cup ({Head(buffer)} \ {NoBuf})
          BY <4>1 DEF Held
        <4>3. buffer' = Tail(buffer) /\ UNCHANGED <<inited, returnChan>>
          BY <2>3, <3>2 DEF Receive
        <4> QED
          BY <1>6, <3>2, <4>1, <4>2, <4>3 DEF BuffersPartition, Held
      <3> QED
        BY <3>1, <3>2
    <2>4. CASE ReturnSwapped
      <3>1. consBuf # NoBuf /\ consBuf' = NoBuf /\ UNCHANGED <<readBuf, drainBuf, inited, buffer>>
        BY <2>4 DEF ReturnSwapped, Hands
      <3>2. consBuf \in Held /\ Held' = Held \ {consBuf}
        BY <3>1 DEF Held, BuffersPartition
      <3> QED
        BY <1>0, <1>2, <1>5, <2>4, <3>1, <3>2 DEF ReturnSwapped, BuffersPartition
    <2> QED
      BY <1>8, <2>1, <2>2, <2>3, <2>4 DEF Consumer
  <1>9. CASE Pull
    <2>1. CASE PullSelect \/ PullNextData \/ PullNextEnd \/ PullNextErr \/ PullNextPanic \/ PullClose
      BY <1>3, <2>1 DEF PullSelect, PullNextData, PullNextEnd, PullNextErr, PullNextPanic, PullClose
    <2>2. CASE PullTake
      <3>1. CASE UNCHANGED <<returnChan, readBuf>>
        BY <1>3, <2>2, <3>1 DEF PullTake
      <3>2. CASE /\ returnChan # <<>> /\ returnChan' = Tail(returnChan)
                 /\ readBuf' = Head(returnChan)
        <4>1. readBuf = NoBuf /\ UNCHANGED <<consBuf, drainBuf, inited, buffer>>
          BY <2>2 DEF PullTake, Hands
        <4>2. Head(returnChan) \in Buffers /\ Head(returnChan) # NoBuf
          BY <1>0, <3>2, ReceiveTypes
        <4>3. Held' = Held \cup {Head(returnChan)}
          BY <3>2, <4>1, <4>2 DEF Held
        <4>4. /\ Free = Free' \cup {Head(returnChan)}
              /\ Distinct(returnChan')
              /\ Head(returnChan) \notin Free'
          BY <1>1, <3>2, <4>2, RangeOfTail, DistinctTail DEF BuffersPartition, Free
        <4>5. Queued' = Queued /\ Distinct(buffer')
          BY <4>1 DEF Queued, BuffersPartition, Distinct
        <4>6. Head(returnChan) \notin Held
          BY <4>4 DEF BuffersPartition
        <4> QED
          BY <3>2, <4>1, <4>2, <4>3, <4>4, <4>5, <4>6 DEF BuffersPartition, Held
      <3> QED
        BY <2>2, <3>1, <3>2 DEF PullTake
    <2>3. CASE PullReturn
      <3>1. readBuf # NoBuf /\ readBuf' = NoBuf /\ UNCHANGED <<consBuf, drainBuf, inited, buffer>>
        BY <2>3 DEF PullReturn, Hands
      <3>2. readBuf \in Held /\ Held' = Held \ {readBuf}
        BY <3>1 DEF Held, BuffersPartition
      <3> QED
        BY <1>0, <1>2, <1>5, <2>3, <3>1, <3>2 DEF PullReturn, BuffersPartition
    <2>4. CASE PullSend
      <3>1. readBuf # NoBuf /\ readBuf' = NoBuf /\ UNCHANGED <<consBuf, drainBuf, inited, returnChan>>
        BY <2>4 DEF PullSend, Hands
      <3>2. readBuf \in Held /\ Held' = Held \ {readBuf}
        BY <3>1 DEF Held, BuffersPartition
      <3>3. readBuf \notin Range(buffer)
        BY <3>1, <3>2 DEF BuffersPartition, Queued
      <3>4. buffer' = Append(buffer, readBuf)
        BY <2>4 DEF PullSend
      <3>5. Range(buffer') = Range(buffer) \cup {readBuf} /\ Distinct(buffer')
        BY <1>1, <1>2, <3>3, <3>4, RangeOfAppend, DistinctAppend DEF BuffersPartition
      <3>6. Queued' = Queued \cup {readBuf}
        BY <3>1, <3>5 DEF Queued
      <3>7. Free' = Free /\ Distinct(returnChan')
        BY <3>1 DEF Free, BuffersPartition, Distinct
      <3> QED
        BY <3>1, <3>2, <3>5, <3>6, <3>7 DEF BuffersPartition
    <2>5. CASE PullSendErr
      <3>1. /\ buffer' = Append(buffer, NoBuf)
            /\ UNCHANGED <<readBuf, consBuf, drainBuf, inited, returnChan>>
        BY <2>5 DEF PullSendErr
      <3>2. Range(buffer') = Range(buffer) \cup {NoBuf} /\ Distinct(buffer')
        BY <1>0, <1>1, <3>1, RangeOfAppend, DistinctAppend DEF BuffersPartition
      <3>3. Queued' = Queued /\ Held' = Held /\ Free' = Free /\ Distinct(returnChan')
        BY <3>1, <3>2 DEF Queued, Held, Free, BuffersPartition, Distinct
      <3> QED
        BY <3>1, <3>2, <3>3 DEF BuffersPartition
    <2> QED
      BY <1>9, <2>1, <2>2, <2>3, <2>4, <2>5 DEF Pull
  <1>10. CASE Drain
    <2>1. CASE DrainWake
      BY <1>3, <2>1 DEF DrainWake
    <2>2. CASE DrainRange
      <3>1. CASE buffer = <<>>
        BY <1>3, <2>2, <3>1 DEF DrainRange
      <3>2. CASE buffer # <<>>
        <4>1. drainBuf = NoBuf /\ drainBuf' = Head(buffer) /\ UNCHANGED <<readBuf, consBuf>>
          BY <2>2, <3>2 DEF DrainRange, Hands
        <4>2. Held' = Held \cup ({Head(buffer)} \ {NoBuf})
          BY <4>1 DEF Held
        <4>3. buffer' = Tail(buffer) /\ UNCHANGED <<inited, returnChan>>
          BY <2>2, <3>2 DEF DrainRange
        <4> QED
          BY <1>6, <3>2, <4>1, <4>2, <4>3 DEF BuffersPartition, Held
      <3> QED
        BY <3>1, <3>2
    <2>3. CASE DrainReturn
      <3>1. drainBuf # NoBuf /\ drainBuf' = NoBuf /\ UNCHANGED <<readBuf, consBuf, inited, buffer>>
        BY <2>3 DEF DrainReturn, Hands
      <3>2. drainBuf \in Held /\ Held' = Held \ {drainBuf}
        BY <3>1 DEF Held, BuffersPartition
      <3> QED
        BY <1>0, <1>2, <1>5, <2>3, <3>1, <3>2 DEF DrainReturn, BuffersPartition
    <2> QED
      BY <1>10, <2>1, <2>2, <2>3 DEF Drain
  <1> QED
    BY <1>7, <1>8, <1>9, <1>10 DEF Next

(* Only the swap moves inner slices, and it exchanges them. *)
LEMMA SlicesStep == TypeOK /\ Hands /\ SlicesDisjoint /\ [Next]_vars => SlicesDisjoint'
  <1> USE DEF SlicesDisjoint, childVars, pullVars, drainVars, consVars, dataVars
  <1> SUFFICES ASSUME TypeOK, Hands, SlicesDisjoint, [Next]_vars PROVE SlicesDisjoint'
    OBVIOUS
  <1>1. CASE Swap
    <2>1. slices \in [Places -> Places] /\ consBuf \in Places /\ NoBuf \in Places
      BY DEF TypeOK, Places
    <2>2. slices' = [slices EXCEPT ![NoBuf] = slices[consBuf], ![consBuf] = slices[NoBuf]]
      BY <1>1 DEF Swap, SwapSlices
    <2> QED
      BY <2>1, <2>2
  <1>2. CASE UNCHANGED slices
    BY <1>2
  <1> QED
    BY <1>1, <1>2, Zenon DEF Next, CancelContext, Consumer, Pull, Drain, Series, Call,
       CheckContext, StartOnce, Receive, ReturnSwapped, PullSelect, PullTake,
       PullNextData, PullNextEnd, PullNextErr, PullNextPanic, PullReturn, PullSend,
       PullSendErr, PullClose, DrainWake, DrainRange, DrainReturn, vars

(* The child writes only into slices that the caller does not hold. *)
LEMMA StableStep == IInv /\ [Next]_vars => CallerBatchStable'
  <1> USE DEF CallerBatchStable, childVars, pullVars, drainVars, consVars, dataVars
  <1> SUFFICES ASSUME IInv, [Next]_vars PROVE CallerBatchStable'
    OBVIOUS
  <1>1. CASE PullNextData
    <2>1. slices \in [Places -> Places] /\ readBuf \in Places /\ NoBuf \in Places
      BY DEF IInv, TypeOK, Places
    <2>2. slices[readBuf] # slices[NoBuf]
      BY <1>1, <2>1 DEF IInv, Hands, SlicesDisjoint, PullNextData
    <2>3. content'[slices[NoBuf]] = content[slices[NoBuf]]
      BY <1>1, <2>1, <2>2 DEF PullNextData, IInv, TypeOK
    <2> QED
      BY <1>1, <2>3 DEF PullNextData, IInv
  <1>2. CASE ReturnSwapped
    BY <1>2 DEF ReturnSwapped
  <1>3. CASE Swap
    BY <1>3 DEF Swap
  <1>4. CASE UNCHANGED <<slices, content, received>> /\ (consPc' # "return" => consPc # "return")
    BY <1>4 DEF IInv
  <1> QED
    BY <1>1, <1>2, <1>3, <1>4, Zenon DEF Next, CancelContext, Consumer, Pull, Drain, Series,
       Call, CheckContext, StartOnce, Receive, PullSelect, PullTake,
       PullNextEnd, PullNextErr, PullNextPanic, PullReturn, PullSend,
       PullSendErr, PullClose, DrainWake, DrainRange, DrainReturn, vars

(* The initial state of the operator satisfies the invariant. *)
LEMMA InitIInv == Init => IInv
  <1> SUFFICES ASSUME Init PROVE IInv
    OBVIOUS
  <1> USE BufferSizeAssumption, NumBatchesAssumption DEF Init
  <1>1. NoBuf \in Places /\ 0 \in Batches
    BY DEF Places, Batches
  <1>2. TypeOK
    <2>1. returnChan \in Seq(Buffers) /\ buffer \in Seq(Places) /\ Len(buffer) <= BufferSize
      BY EmptySeq
    <2>2. slices \in [Places -> Places] /\ content \in [Places -> Batches]
      BY <1>1
    <2> QED
      BY <1>1, <2>1, <2>2, Zenon DEF TypeOK, PullPcs, DrainPcs, ConsPcs
  <1>3. Hands
    BY DEF Hands
  <1>4. BuffersPartition
    BY DEF BuffersPartition, Free, Queued, Held, Range, Distinct
  <1>5. SlicesDisjoint
    BY DEF SlicesDisjoint
  <1>6. CallerBatchStable
    BY <1>1 DEF CallerBatchStable
  <1> QED
    BY <1>2, <1>3, <1>4, <1>5, <1>6 DEF IInv

(* The inductive invariant of the concurrency operator. *)
THEOREM Invariance == Spec => []IInv
  <1>1. IInv /\ [Next]_vars => IInv'
    BY TypeStep, HandsStep, PartitionStep, SlicesStep, StableStep DEF IInv
  <1> QED
    BY InitIInv, <1>1, PTL DEF Spec

(* The size of a range of indices. *)
LEMMA FirstNumbers ==
  ASSUME NEW n \in Nat
  PROVE  IsFiniteSet(1..n) /\ Cardinality(1..n) = n
  <1>1. IsFiniteSet(1..n) /\ Cardinality(1..n) = IF 1 > n THEN 0 ELSE n - 1 + 1
    <2>1. 1 \in Int /\ n \in Int
      OBVIOUS
    <2> QED
      BY <2>1, FS_Interval, Zenon
  <1> QED
    BY <1>1

(* There are no more free buffers than pooled ones. *)
LEMMA FreeBound == IInv => Len(returnChan) <= BufferSize + 1
  <1> SUFFICES ASSUME IInv PROVE Len(returnChan) <= BufferSize + 1
    OBVIOUS
  <1>1. returnChan \in Seq(Buffers) /\ Len(returnChan) \in Nat
        /\ DOMAIN returnChan = 1..Len(returnChan)
    BY LenProperties DEF IInv, TypeOK
  <1>2. returnChan \in [1..Len(returnChan) -> Buffers]
    BY <1>1, LenProperties
  <1>3. \A i \in 1..Len(returnChan) : returnChan[i] # NoBuf
    BY <1>2 DEF Buffers, NoBuf
  <1>4. returnChan \in Injection(1..Len(returnChan), Buffers)
    BY <1>1, <1>2, <1>3 DEF IInv, BuffersPartition, Distinct, Injection, IsInjective
  <1>5. IsFiniteSet(Buffers) /\ Cardinality(Buffers) = BufferSize + 1
    BY FirstNumbers, BufferSizeAssumption DEF Buffers
  <1>6. Cardinality(1..Len(returnChan)) = Len(returnChan)
    BY <1>1, FirstNumbers
  <1> QED
    BY <1>4, <1>5, <1>6, FS_Injection

(* Types, for every channel capacity and number of batches. *)
THEOREM TypeCorrect == Spec => []TypeOK
  BY Invariance, PTL DEF IInv

(* No buffer of the pool is shared by two goroutines or lost. *)
THEOREM BuffersPartitioned == Spec => []BuffersPartition
  BY Invariance, PTL DEF IInv

(* The caller's step vectors are not written to until it asks again. *)
THEOREM CallerBatchIsStable == Spec => []CallerBatchStable
  BY Invariance, PTL DEF IInv

(* Handing a buffer back through returnChan never blocks. *)
THEOREM ReturnIsNonBlocking == Spec => []ReturnNeverBlocks
  <1>1. IInv => ReturnNeverBlocks
    <2> SUFFICES ASSUME IInv PROVE ReturnHasRoom
      BY DEF ReturnNeverBlocks
    <2>1. Len(returnChan) \in Nat
      BY LenProperties DEF IInv, TypeOK
    <2> QED
      BY <2>1, FreeBound, BufferSizeAssumption DEF ReturnHasRoom
  <1> QED
    BY Invariance, <1>1, PTL
-----------------------------------------------------------------------------
(* The batch in the inner slices of a buffer, and the last batch the caller   *)
(* has taken out of the channel.                                              *)
Batch(b) == content[slices[b]]
Taken == IF consPc = "swap" THEN Batch(consBuf) ELSE Batch(NoBuf)

(* The error message is the last one in the channel. *)
NoError == \A i \in DOMAIN buffer : buffer[i] # NoBuf

(* What pull and the caller know of the child and of each other. *)
PhaseInv ==
  /\ pullPc \in {"off", "select", "take", "next", "send"} => childSt = "open"
  /\ pullPc = "returnEnd" => childSt = "ended"
  /\ pullPc = "returnErr" => childSt = "failed"
  /\ closed => pullPc = "done"
  /\ \A i \in DOMAIN buffer : buffer[i] = NoBuf => i = Len(buffer) /\ pullPc \in {"close", "done"}
  /\ status = "err" => consPc = "idle"
  /\ status = "eof" => closed /\ buffer = <<>>
  /\ consPc \in {"swap", "return"} => status = "open"

(* Batches overtake each other nowhere between the child and the caller. *)
OrderInv ==
  /\ Taken <= childPos
  /\ consPc \in {"swap", "return"} => received < Taken
  /\ \A i \in DOMAIN buffer : buffer[i] # NoBuf => Taken < Batch(buffer[i]) /\ Batch(buffer[i]) <= childPos
  /\ \A i, j \in DOMAIN buffer :
       i < j /\ buffer[i] # NoBuf /\ buffer[j] # NoBuf => Batch(buffer[i]) < Batch(buffer[j])
  /\ pullPc = "send" => /\ Batch(readBuf) = childPos /\ Taken < childPos
                        /\ \A i \in DOMAIN buffer : buffer[i] # NoBuf => Batch(buffer[i]) < childPos

(* As long as the context is live, none is missing, and an error in the       *)
(* channel or in front of it is one of the child.                             *)
LiveInv ==
  ~ctxDone =>
    /\ drainPc \in {"off", "wait"}
    /\ consPc \in {"swap", "return"} => Taken = received + 1
    /\ \A i \in DOMAIN buffer : buffer[i] # NoBuf => Batch(buffer[i]) = Taken + i
    /\ NoError => childPos = Taken + Len(buffer) + (IF pullPc = "send" THEN 1 ELSE 0)
    /\ ~NoError => childPos + 1 = Taken + Len(buffer)
    /\ ~NoError \/ pullPc = "sendErr" => childSt = "failed"
    /\ pullPc \in {"close", "done"} => childSt = "ended" \/ ~NoError \/ status = "err"

StreamInv == PhaseInv /\ OrderInv /\ LiveInv

(* The values that the steps of the stream are about. *)
LEMMA StreamTypes ==
  ASSUME IInv
  PROVE  /\ childPos \in Nat /\ received \in Nat /\ Len(buffer) \in Nat /\ DOMAIN buffer = 1..Len(buffer)
         /\ buffer \in Seq(Places)
         /\ consBuf \in Places /\ readBuf \in Places /\ NoBuf \in Places
         /\ slices \in [Places -> Places] /\ content \in [Places -> Nat]
         /\ Taken \in Nat /\ \A p \in Places : content[slices[p]] \in Nat
         /\ \A i \in DOMAIN buffer : buffer[i] \in Places
  <1>1. /\ childPos \in Nat /\ received \in Nat /\ buffer \in Seq(Places)
        /\ consBuf \in Places /\ readBuf \in Places /\ NoBuf \in Places
        /\ slices \in [Places -> Places] /\ content \in [Places -> Nat]
    BY NumBatchesAssumption DEF IInv, TypeOK, Batches, Places
  <1>2. \A p \in Places : content[slices[p]] \in Nat
    BY <1>1
  <1>3. Len(buffer) \in Nat /\ DOMAIN buffer = 1..Len(buffer) /\ \A i \in DOMAIN buffer : buffer[i] \in Places
    BY <1>1, LenProperties, ElementOfSeq
  <1>4. Taken \in Nat
    BY <1>1, <1>2 DEF Taken, Batch
  <1> QED
    BY <1>1, <1>2, <1>3, <1>4

(* A queued batch is in nobody's hands, so its slices are not touched. *)
LEMMA QueuedApart ==
  ASSUME IInv, NEW i \in DOMAIN buffer, buffer[i] # NoBuf
  PROVE  /\ buffer[i] # consBuf /\ buffer[i] # readBuf
         /\ slices[buffer[i]] # slices[NoBuf]
         /\ slices[buffer[i]] # slices[consBuf] /\ slices[buffer[i]] # slices[readBuf]
  <1>1. buffer[i] \in Queued
    BY DEF Queued, Range
  <1>2. buffer[i] \notin Held
    BY <1>1 DEF IInv, BuffersPartition
  <1>3. buffer[i] # consBuf /\ buffer[i] # readBuf
    BY <1>2 DEF Held
  <1> QED
    BY <1>3, StreamTypes DEF IInv, SlicesDisjoint

(* Every action keeps what the goroutines know of each other. *)
LEMMA PhaseStep == IInv /\ PhaseInv /\ [Next]_vars => PhaseInv'
  <1> SUFFICES ASSUME IInv, PhaseInv, [Next]_vars PROVE PhaseInv'
    OBVIOUS
  <1> USE DEF PhaseInv, childVars, pullVars, drainVars, consVars, dataVars
  <1>1. CASE CancelContext \/ UNCHANGED vars
    BY <1>1 DEF CancelContext, vars
  (* A receive leaves the error message the last one. *)
  <1>2. ASSUME buffer # <<>>, buffer' = Tail(buffer), UNCHANGED pullPc
        PROVE  \A i \in DOMAIN buffer' : buffer'[i] = NoBuf => i = Len(buffer') /\ pullPc' \in {"close", "done"}
    <2>1. /\ DOMAIN buffer' = 1..(Len(buffer) - 1) /\ Len(buffer') = Len(buffer) - 1
          /\ \A i \in 1..(Len(buffer) - 1) : buffer'[i] = buffer[i + 1]
          /\ Len(buffer) \in Nat \ {0} /\ DOMAIN buffer = 1..Len(buffer)
      BY <1>2, StreamTypes, ReceiveProperties
    <2>2. \A i \in 1..(Len(buffer) - 1) : i + 1 \in DOMAIN buffer /\ (i + 1 = Len(buffer) => i = Len(buffer'))
      BY <2>1
    <2> QED
      BY <1>2, <2>1, <2>2, Zenon
  <1>3. CASE Consumer
    <2>1. CASE Receive /\ buffer # <<>>
      <3>1. /\ buffer' = Tail(buffer) /\ consPc = "receive" /\ UNCHANGED <<closed, pullPc, childSt>>
            /\ consPc' = IF Head(buffer) = NoBuf THEN "idle" ELSE "swap"
            /\ status' = IF Head(buffer) = NoBuf THEN "err" ELSE status
        BY <2>1 DEF Receive
      <3>2. status = "open"
        BY <2>1, <3>1 DEF IInv, TypeOK
      <3> QED
        BY <1>2, <2>1, <3>1, <3>2
    <2>2. CASE Receive /\ buffer = <<>>
      BY <2>2 DEF Receive
    <2>3. CASE Swap
      BY <2>3 DEF Swap
    <2>4. CASE ReturnSwapped
      BY <2>4 DEF ReturnSwapped
    <2>5. CASE Series \/ Call \/ CheckContext
      BY <2>5 DEF Series, Call, CheckContext
    <2>6. CASE StartOnce
      BY <2>6 DEF StartOnce
    <2> QED
      BY <1>3, <2>1, <2>2, <2>3, <2>4, <2>5, <2>6, Zenon DEF Consumer
  <1>4. CASE Pull
    <2>1. CASE PullSelect
      BY <2>1 DEF PullSelect
    <2>2. CASE PullTake
      BY <2>2 DEF PullTake
    <2>3. CASE PullNextData \/ PullNextEnd \/ PullNextErr \/ PullNextPanic
      BY <2>3 DEF PullNextData, PullNextEnd, PullNextErr, PullNextPanic
    <2>4. CASE PullReturn
      BY <2>4 DEF PullReturn
    <2>5. ASSUME NEW m \in Places, buffer' = Append(buffer, m), pullPc \in {"send", "sendErr"},
                 pullPc = "send" => m # NoBuf, pullPc = "sendErr" => pullPc' = "close",
                 UNCHANGED <<closed, childSt, status, consPc>>, pullPc = "send" => pullPc' = "select"
          PROVE  PhaseInv'
      <3>1. /\ DOMAIN buffer' = 1..(Len(buffer) + 1) /\ Len(buffer') = Len(buffer) + 1
            /\ \A i \in 1..Len(buffer) : buffer'[i] = buffer[i]
            /\ buffer'[Len(buffer) + 1] = m
        BY <2>5, StreamTypes, AppendProperties, LenProperties
      <3>2. ~closed /\ NoError
        BY <2>5 DEF NoError
      <3>3. ASSUME NEW i \in DOMAIN buffer', buffer'[i] = NoBuf PROVE i = Len(buffer') /\ pullPc' = "close"
        <4>1. i \notin 1..Len(buffer)
          BY <3>1, <3>2, <3>3, StreamTypes DEF NoError
        <4>2. i = Len(buffer) + 1
          BY <3>1, <4>1, StreamTypes
        <4> QED
          BY <2>5, <3>1, <3>3, <4>2
      <3> QED
        BY <2>5, <3>2, <3>3
    <2>6. CASE PullSend
      BY <2>5, <2>6, StreamTypes, Zenon DEF PullSend, IInv, Hands
    <2>7. CASE PullSendErr
      BY <2>5, <2>7, StreamTypes DEF PullSendErr
    <2>8. CASE PullClose
      BY <2>8 DEF PullClose
    <2> QED
      BY <1>4, <2>1, <2>2, <2>3, <2>4, <2>6, <2>7, <2>8, Zenon DEF Pull
  <1>5. CASE Drain
    <2>1. CASE DrainRange /\ buffer # <<>>
      <3>1. buffer' = Tail(buffer) /\ UNCHANGED <<closed, pullPc, childSt, status, consPc>>
        BY <2>1 DEF DrainRange
      <3> QED
        BY <1>2, <2>1, <3>1
    <2>2. CASE (DrainRange /\ buffer = <<>>) \/ DrainWake \/ DrainReturn
      BY <2>2 DEF DrainRange, DrainWake, DrainReturn
    <2> QED
      BY <1>5, <2>1, <2>2 DEF Drain
  <1> QED
    BY <1>1, <1>3, <1>4, <1>5 DEF Next
(* The channel after a receive: every message moves up by one. *)
LEMMA AfterReceive ==
  ASSUME IInv, buffer # <<>>, buffer' = Tail(buffer)
  PROVE  /\ Len(buffer) \in Nat \ {0} /\ Len(buffer') = Len(buffer) - 1
         /\ DOMAIN buffer' = 1..(Len(buffer) - 1) /\ 1 \in DOMAIN buffer /\ Head(buffer) = buffer[1]
         /\ \A i \in DOMAIN buffer' : i \in Nat /\ i + 1 \in DOMAIN buffer /\ buffer'[i] = buffer[i + 1]
  <1>1. /\ DOMAIN buffer' = 1..(Len(buffer) - 1) /\ Len(buffer') = Len(buffer) - 1 /\ Head(buffer) = buffer[1]
        /\ \A i \in 1..(Len(buffer) - 1) : buffer'[i] = buffer[i + 1]
        /\ Len(buffer) \in Nat \ {0} /\ DOMAIN buffer = 1..Len(buffer)
    BY StreamTypes, ReceiveProperties
  <1>2. 1 \in 1..Len(buffer) /\ \A i \in 1..(Len(buffer) - 1) : i \in Nat /\ i + 1 \in 1..Len(buffer)
    BY <1>1
  <1> QED
    BY <1>1, <1>2

(* The batches that are left after a receive are still in order. *)
LEMMA LeftInOrder ==
  ASSUME IInv, OrderInv, buffer # <<>>, buffer' = Tail(buffer), slices' = slices, content' = content,
         NEW i \in DOMAIN buffer', NEW j \in DOMAIN buffer', i < j, buffer'[i] # NoBuf, buffer'[j] # NoBuf
  PROVE  Batch(buffer[i])' < Batch(buffer[j])'
  <1>1. /\ i \in Nat /\ i + 1 \in DOMAIN buffer /\ buffer'[i] = buffer[i + 1]
        /\ j \in Nat /\ j + 1 \in DOMAIN buffer /\ buffer'[j] = buffer[j + 1]
    BY AfterReceive, Zenon
  <1>2. i + 1 < j + 1
    BY <1>1
  <1>3. Batch(buffer[i + 1]) < Batch(buffer[j + 1])
    BY <1>1, <1>2, Zenon DEF OrderInv
  <1> QED
    BY <1>1, <1>3, Zenon DEF Batch

(* The channel after a send: the message is the last one. *)
LEMMA AfterSend ==
  ASSUME IInv, NEW m \in Places, buffer' = Append(buffer, m)
  PROVE  /\ Len(buffer) \in Nat /\ Len(buffer') = Len(buffer) + 1
         /\ DOMAIN buffer' = DOMAIN buffer \cup {Len(buffer) + 1} /\ buffer'[Len(buffer) + 1] = m
         /\ \A i \in DOMAIN buffer : i \in Nat /\ i < Len(buffer) + 1 /\ buffer'[i] = buffer[i]
  <1>1. /\ DOMAIN buffer' = 1..(Len(buffer) + 1) /\ Len(buffer') = Len(buffer) + 1
        /\ \A i \in 1..Len(buffer) : buffer'[i] = buffer[i]
        /\ buffer'[Len(buffer) + 1] = m
    BY StreamTypes, AppendProperties, LenProperties
  <1>2. Len(buffer) \in Nat /\ DOMAIN buffer = 1..Len(buffer)
    BY StreamTypes
  <1>3. 1..(Len(buffer) + 1) = 1..Len(buffer) \cup {Len(buffer) + 1} /\ \A i \in 1..Len(buffer) : i \in Nat /\ i < Len(buffer) + 1
    BY <1>2
  <1> QED
    BY <1>1, <1>2, <1>3

(* The swap in Next leaves the batches in the channel alone, the one that     *)
(* pull sends and the one the caller has taken.                               *)
LEMMA SwapKeepsBatches ==
  ASSUME IInv, Swap
  PROVE  /\ \A i \in DOMAIN buffer : buffer[i] # NoBuf => Batch(buffer[i])' = Batch(buffer[i])
         /\ Taken' = Taken
         /\ pullPc = "send" => Batch(readBuf)' = Batch(readBuf)
  <1>1. /\ slices' = [slices EXCEPT ![NoBuf] = slices[consBuf], ![consBuf] = slices[NoBuf]]
        /\ UNCHANGED <<content, buffer, consBuf, readBuf>> /\ consPc = "swap" /\ consPc' = "return"
    BY DEF Swap, SwapSlices, dataVars, pullVars
  <1>2. consBuf # NoBuf
    BY <1>1 DEF IInv, Hands
  <1>3. \A p \in Places : p # NoBuf /\ p # consBuf => slices'[p] = slices[p]
    BY <1>1, StreamTypes
  <1>4. slices'[NoBuf] = slices[consBuf]
    BY <1>1, <1>2, StreamTypes
  <1>5. \A i \in DOMAIN buffer : buffer[i] # NoBuf => Batch(buffer[i])' = Batch(buffer[i])
    BY <1>1, <1>3, StreamTypes, QueuedApart DEF Batch
  <1>6. Taken' = Taken
    BY <1>1, <1>4 DEF Taken, Batch
  <1>7. ASSUME pullPc = "send" PROVE Batch(readBuf)' = Batch(readBuf)
    <2>1. readBuf # NoBuf /\ readBuf # consBuf
      BY <1>7 DEF IInv, Hands, BuffersPartition
    <2> QED
      BY <1>1, <1>3, <2>1, StreamTypes DEF Batch
  <1> QED
    BY <1>5, <1>6, <1>7

(* The child writes the batch pull sends next, and over no other. *)
LEMMA WriteKeepsBatches ==
  ASSUME IInv, PullNextData
  PROVE  /\ \A i \in DOMAIN buffer : buffer[i] # NoBuf => Batch(buffer[i])' = Batch(buffer[i])
         /\ Taken' = Taken /\ Batch(readBuf)' = childPos + 1
  <1>1. /\ content' = [content EXCEPT ![slices[readBuf]] = childPos + 1]
        /\ UNCHANGED <<slices, buffer, consBuf, consPc, readBuf>> /\ pullPc = "next"
    BY DEF PullNextData, consVars
  <1>2. readBuf # NoBuf /\ (consPc = "swap" => readBuf # consBuf)
    BY <1>1 DEF IInv, Hands, BuffersPartition
  <1>3. \A p \in Places : slices[p] # slices[readBuf] => content'[slices[p]] = content[slices[p]]
    BY <1>1, StreamTypes
  <1>4. slices[NoBuf] # slices[readBuf] /\ (consPc = "swap" => slices[consBuf] # slices[readBuf])
    BY <1>2, StreamTypes DEF IInv, SlicesDisjoint
  <1>5. \A i \in DOMAIN buffer : buffer[i] # NoBuf => Batch(buffer[i])' = Batch(buffer[i])
    BY <1>1, <1>3, StreamTypes, QueuedApart DEF Batch
  <1>6. Taken' = Taken
    BY <1>1, <1>3, <1>4, StreamTypes DEF Taken, Batch
  <1>7. Batch(readBuf)' = childPos + 1
    BY <1>1, StreamTypes DEF Batch
  <1> QED
    BY <1>5, <1>6, <1>7

(* The steps that touch neither the channel nor a batch: a call that begins   *)
(* or ends without data, and pull between its reads and its sends.            *)
Aside ==
  /\ UNCHANGED <<buffer, slices, content, childPos, received>>
  /\ UNCHANGED <<consPc, consBuf>> \/ {consPc, consPc'} \cap {"swap", "return"} = {}
  /\ UNCHANGED <<pullPc, readBuf>> \/ "send" \notin {pullPc, pullPc'}

(* Such steps keep the order of the batches. *)
LEMMA AsideKeepsOrder == IInv /\ OrderInv /\ Aside => OrderInv' /\ Taken' = Taken
  <1> SUFFICES ASSUME IInv, OrderInv, Aside PROVE OrderInv' /\ Taken' = Taken
    OBVIOUS
  <1>1. Taken' = Taken
    BY Zenon DEF Aside, Taken, Batch
  <1>2. consPc' \in {"swap", "return"} => received' < Taken'
    BY <1>1, Zenon DEF Aside, OrderInv
  <1>3. pullPc' = "send" => /\ Batch(readBuf)' = childPos' /\ Taken' < childPos'
                            /\ \A i \in DOMAIN buffer' : buffer'[i] # NoBuf => Batch(buffer[i])' < childPos'
    BY <1>1 DEF Aside, OrderInv, Batch
  <1> QED
    BY <1>1, <1>2, <1>3 DEF Aside, OrderInv, Batch

(* No action lets a batch overtake another or the caller take one twice. *)
LEMMA OrderStep == IInv /\ PhaseInv /\ OrderInv /\ [Next]_vars => OrderInv'
  <1> SUFFICES ASSUME IInv, PhaseInv, OrderInv, [Next]_vars PROVE OrderInv'
    OBVIOUS
  <1> USE DEF childVars, pullVars, drainVars, consVars, dataVars
  <1>1. CASE Receive /\ buffer # <<>> /\ Head(buffer) # NoBuf
    <2>1. /\ buffer' = Tail(buffer) /\ consBuf' = Head(buffer) /\ consPc = "receive" /\ consPc' = "swap"
          /\ UNCHANGED <<slices, content, childPos, received, pullPc, readBuf>>
      BY <1>1 DEF Receive
    <2>2. Taken = received /\ Taken' = Batch(buffer[1])
      BY <1>1, <2>1, AfterReceive, Zenon DEF Taken, Batch, IInv, CallerBatchStable
    <2>3. Taken < Taken' /\ Taken' <= childPos
      BY <1>1, <2>1, <2>2, AfterReceive DEF OrderInv
    <2>4. \A i \in DOMAIN buffer' : buffer'[i] # NoBuf =>
            Taken' < Batch(buffer[i])' /\ Batch(buffer[i])' <= childPos
      BY <1>1, <2>1, <2>2, AfterReceive DEF OrderInv, Batch
    <2>5. \A i, j \in DOMAIN buffer' :
            i < j /\ buffer'[i] # NoBuf /\ buffer'[j] # NoBuf => Batch(buffer[i])' < Batch(buffer[j])'
      BY <1>1, <2>1, LeftInOrder, Zenon
    <2>6. pullPc' = "send" =>
            /\ Batch(readBuf)' = childPos' /\ Taken' < childPos'
            /\ \A i \in DOMAIN buffer' : buffer'[i] # NoBuf => Batch(buffer[i])' < childPos'
      BY <1>1, <2>1, <2>2, AfterReceive DEF OrderInv, Batch
    <2> QED
      BY <2>1, <2>2, <2>3, <2>4, <2>5, <2>6, Zenon DEF OrderInv
  (* The caller that finds an error, and drainBufferOnCancel, take a message *)
  (* out of the channel without taking its batch.                            *)
  <1>2. ASSUME buffer # <<>>, buffer' = Tail(buffer), {consPc, consPc'} \cap {"swap", "return"} = {}
                 \/ UNCHANGED <<consPc, consBuf>>,
               UNCHANGED <<slices, content, childPos, received, pullPc, readBuf>>
        PROVE  OrderInv'
    <2>1. Taken' = Taken
      BY <1>2, Zenon DEF Taken, Batch
    <2>2. \A i \in DOMAIN buffer' : buffer'[i] # NoBuf =>
            Taken' < Batch(buffer[i])' /\ Batch(buffer[i])' <= childPos
      BY <1>2, <2>1, AfterReceive, Zenon DEF OrderInv, Batch
    <2>3. \A i, j \in DOMAIN buffer' :
            i < j /\ buffer'[i] # NoBuf /\ buffer'[j] # NoBuf => Batch(buffer[i])' < Batch(buffer[j])'
      BY <1>2, LeftInOrder, Zenon
    <2>4. pullPc' = "send" =>
            /\ Batch(readBuf)' = childPos' /\ Taken' < childPos'
            /\ \A i \in DOMAIN buffer' : buffer'[i] # NoBuf => Batch(buffer[i])' < childPos'
      BY <1>2, <2>1, AfterReceive DEF OrderInv, Batch
    <2> QED
      BY <1>2, <2>1, <2>2, <2>3, <2>4, Zenon DEF OrderInv
  <1>3. CASE Receive
    BY <1>1, <1>2, <1>3, AsideKeepsOrder DEF Receive, Aside
  <1>4. CASE Swap
    <2>1. UNCHANGED <<buffer, childPos, received, pullPc, readBuf>> /\ consPc = "swap"
      BY <1>4 DEF Swap
    <2> QED
      BY <1>4, <2>1, SwapKeepsBatches DEF OrderInv
  <1>5. CASE ReturnSwapped
    <2>1. /\ UNCHANGED <<buffer, childPos, slices, content, pullPc, readBuf>>
          /\ consPc = "return" /\ consPc' = "idle"
      BY <1>5 DEF ReturnSwapped
    <2>2. Taken' = Taken
      BY <2>1 DEF Taken, Batch
    <2> QED
      BY <2>1, <2>2 DEF OrderInv, Batch
  <1>6. CASE Series \/ Call \/ CheckContext
    BY <1>6, AsideKeepsOrder, Zenon DEF Series, Call, CheckContext, Aside
  <1>7. CASE StartOnce
    BY <1>7, AsideKeepsOrder DEF StartOnce, Aside
  <1>8. CASE PullNextData
    <2>1. /\ childPos' = childPos + 1 /\ pullPc = "next" /\ pullPc' = "send"
          /\ UNCHANGED <<buffer, received, consPc, readBuf>>
      BY <1>8 DEF PullNextData
    <2>2. /\ Taken' = Taken /\ Batch(readBuf)' = childPos'
          /\ \A i \in DOMAIN buffer : buffer[i] # NoBuf => Batch(buffer[i])' = Batch(buffer[i])
      BY <1>8, <2>1, WriteKeepsBatches
    <2>3. \A i \in DOMAIN buffer : buffer[i] # NoBuf =>
            Taken' < Batch(buffer[i])' /\ Batch(buffer[i])' < childPos' /\ Batch(buffer[i])' <= childPos'
      <3> SUFFICES ASSUME NEW i \in DOMAIN buffer, buffer[i] # NoBuf
                   PROVE  /\ Taken' < Batch(buffer[i])'
                          /\ Batch(buffer[i])' < childPos' /\ Batch(buffer[i])' <= childPos'
        BY Zenon
      <3>1. PICK b \in Nat : b = Batch(buffer[i])
        BY StreamTypes, Zenon DEF Batch
      <3>2. PICK c \in Nat : c = childPos
        BY StreamTypes, Zenon
      <3>3. Taken < b /\ b <= c
        BY <3>1, <3>2, Zenon DEF OrderInv
      <3>4. b < c + 1 /\ b <= c + 1
        BY <3>3
      <3> QED
        BY <2>1, <2>2, <3>1, <3>2, <3>3, <3>4, Zenon
    <2>4. Taken' <= childPos' /\ Taken' < childPos'
      <3>1. PICK c \in Nat : c = childPos
        BY StreamTypes, Zenon
      <3>2. PICK a \in Nat : a = Taken
        BY StreamTypes, Zenon
      <3>3. a <= c
        BY <3>1, <3>2, Zenon DEF OrderInv
      <3>4. a <= c + 1 /\ a < c + 1
        BY <3>3
      <3> QED
        BY <2>1, <2>2, <3>1, <3>2, <3>4, Zenon
    <2>5. \A i, j \in DOMAIN buffer :
            i < j /\ buffer[i] # NoBuf /\ buffer[j] # NoBuf => Batch(buffer[i])' < Batch(buffer[j])'
      BY <2>2 DEF OrderInv
    <2> QED
      BY <2>1, <2>2, <2>3, <2>4, <2>5 DEF OrderInv
  <1>9. CASE PullSend
    <2>1. /\ buffer' = Append(buffer, readBuf) /\ pullPc = "send" /\ pullPc' = "select" /\ readBuf \in Places
          /\ UNCHANGED <<childPos, slices, content, received, consPc, consBuf>>
      BY <1>9, StreamTypes, Zenon DEF PullSend
    <2>2. Taken' = Taken
      BY <2>1 DEF Taken, Batch
    <2>3. \A i \in DOMAIN buffer' : buffer'[i] # NoBuf =>
            Taken' < Batch(buffer[i])' /\ Batch(buffer[i])' <= childPos'
      <3>1. PICK n \in Nat : n = Len(buffer) + 1
        BY <2>1, AfterSend
      <3>2. /\ DOMAIN buffer' = DOMAIN buffer \cup {n} /\ buffer'[n] = readBuf
            /\ \A i \in DOMAIN buffer : buffer'[i] = buffer[i]
        BY <2>1, <3>1, AfterSend, Zenon
      <3>3. Taken < childPos /\ Batch(readBuf) = childPos
        BY <2>1, Zenon DEF OrderInv
      <3>4. PICK c \in Nat : c = childPos
        BY StreamTypes, Zenon
      <3>5. c <= c
        OBVIOUS
      <3>6. Taken' < Batch(buffer[n])' /\ Batch(buffer[n])' <= childPos'
        BY <2>1, <2>2, <3>2, <3>3, <3>4, <3>5, Zenon DEF Batch
      <3>7. \A i \in DOMAIN buffer : buffer'[i] # NoBuf => Taken' < Batch(buffer[i])' /\ Batch(buffer[i])' <= childPos'
        BY <2>1, <2>2, <3>2, Zenon DEF OrderInv, Batch
      <3> QED
        BY <3>2, <3>6, <3>7, Zenon
    <2>4. \A i, j \in DOMAIN buffer' :
            i < j /\ buffer'[i] # NoBuf /\ buffer'[j] # NoBuf => Batch(buffer[i])' < Batch(buffer[j])'
      <3>1. PICK n \in Nat : n = Len(buffer) + 1
        BY <2>1, AfterSend
      <3>2. /\ DOMAIN buffer' = DOMAIN buffer \cup {n} /\ buffer'[n] = readBuf
            /\ \A i \in DOMAIN buffer : i \in Nat /\ i < n /\ buffer'[i] = buffer[i]
        BY <2>1, <3>1, AfterSend
      <3>3. /\ \A i \in DOMAIN buffer : Batch(buffer[i])' = Batch(buffer[i])
            /\ Batch(buffer[n])' = childPos
        BY <2>1, <3>2 DEF OrderInv, Batch
      <3> SUFFICES ASSUME NEW i \in DOMAIN buffer', NEW j \in DOMAIN buffer',
                          i < j, buffer'[i] # NoBuf, buffer'[j] # NoBuf
                   PROVE  Batch(buffer[i])' < Batch(buffer[j])'
        BY Zenon
      <3>4. i \in DOMAIN buffer
        BY <3>1, <3>2
      <3>5. buffer[i] # NoBuf
        BY <3>2, <3>4, Zenon
      <3>6. CASE j \in DOMAIN buffer
        <4>1. buffer[j] # NoBuf
          BY <3>2, <3>6, Zenon
        <4>2. Batch(buffer[i]) < Batch(buffer[j])
          BY <3>4, <3>5, <3>6, <4>1, Zenon DEF OrderInv
        <4> QED
          BY <3>3, <3>4, <3>6, <4>2, Zenon
      <3>7. CASE j = n
        <4>1. Batch(buffer[i]) < childPos
          BY <2>1, <3>4, <3>5, Zenon DEF OrderInv
        <4> QED
          BY <3>3, <3>4, <3>7, <4>1, Zenon
      <3> QED
        BY <3>2, <3>6, <3>7, Zenon
    <2> QED
      BY <2>1, <2>2, <2>3, <2>4, Zenon DEF OrderInv
  <1>10. CASE PullSendErr
    <2>1. /\ buffer' = Append(buffer, NoBuf) /\ pullPc = "sendErr" /\ pullPc' = "close" /\ NoBuf \in Places
          /\ UNCHANGED <<childPos, slices, content, received, consPc, consBuf>>
      BY <1>10, StreamTypes DEF PullSendErr
    <2>2. Taken' = Taken
      BY <2>1 DEF Taken, Batch
    <2>3. \A i \in DOMAIN buffer' : buffer'[i] # NoBuf => i \in DOMAIN buffer /\ buffer'[i] = buffer[i]
      BY <2>1, AfterSend, Zenon
    <2>4. \A i \in DOMAIN buffer' : buffer'[i] # NoBuf =>
            i \in DOMAIN buffer /\ buffer[i] # NoBuf /\ Batch(buffer[i])' = Batch(buffer[i])
      BY <2>1, <2>3, Zenon DEF Batch
    <2> QED
      BY <2>1, <2>2, <2>4, Zenon DEF OrderInv
  <1>11. CASE PullSelect \/ PullTake \/ PullNextEnd \/ PullNextErr \/ PullNextPanic \/ PullReturn \/ PullClose
    BY <1>11, AsideKeepsOrder, Zenon DEF PullSelect, PullTake, PullNextEnd, PullNextErr, PullNextPanic, PullReturn,
       PullClose, Aside
  <1>12. CASE Drain
    BY <1>2, <1>12, AsideKeepsOrder, Zenon DEF Drain, DrainRange, DrainWake, DrainReturn, Aside
  <1>13. CASE CancelContext \/ UNCHANGED vars
    BY <1>13, AsideKeepsOrder, Zenon DEF CancelContext, vars, Aside
  <1> QED
    BY <1>3, <1>4, <1>5, <1>6, <1>7, <1>8, <1>9, <1>10, <1>11, <1>12, <1>13 DEF Next, Consumer, Pull
(* While the context is live no action loses a batch or invents an error. *)
LEMMA LiveStep == IInv /\ StreamInv /\ [Next]_vars => LiveInv'
  <1> SUFFICES ASSUME IInv, PhaseInv, OrderInv, LiveInv, [Next]_vars PROVE LiveInv'
    BY DEF StreamInv
  <1> USE DEF childVars, pullVars, drainVars, consVars, dataVars
  <1>1. CASE ctxDone'
    BY <1>1 DEF LiveInv
  <1>2. CASE ctxDone
    <2>1. ctxDone'
      BY <1>2, Zenon DEF Next, CancelContext, Consumer, Series, Call, CheckContext, StartOnce, Receive, Swap,
         ReturnSwapped, Pull, PullSelect, PullTake, PullNextData, PullNextEnd, PullNextErr, PullNextPanic,
         PullReturn, PullSend, PullSendErr, PullClose, Drain, DrainWake, DrainRange, DrainReturn, vars
    <2> QED
      BY <1>1, <2>1
  <1>3. ASSUME ~ctxDone, ~ctxDone' PROVE LiveInv'
    <2>0. /\ drainPc \in {"off", "wait"}
          /\ consPc \in {"swap", "return"} => Taken = received + 1
          /\ \A i \in DOMAIN buffer : buffer[i] # NoBuf => Batch(buffer[i]) = Taken + i
          /\ NoError => childPos = Taken + Len(buffer) + (IF pullPc = "send" THEN 1 ELSE 0)
          /\ ~NoError => childPos + 1 = Taken + Len(buffer)
          /\ ~NoError \/ pullPc = "sendErr" => childSt = "failed"
          /\ pullPc \in {"close", "done"} => childSt = "ended" \/ ~NoError \/ status = "err"
      BY <1>3 DEF LiveInv
    (* The steps aside: what is left to show is about pull and the child. *)
    <2>1. ASSUME Aside, drainPc' \in {"off", "wait"},
                 pullPc' = "sendErr" => childSt' = "failed",
                 ~NoError => childSt' = childSt,
                 pullPc' \in {"close", "done"} => childSt' = "ended" \/ ~NoError \/ status' = "err"
          PROVE  LiveInv'
      <3>1. Taken' = Taken /\ NoError' = NoError /\ buffer' = buffer /\ childPos' = childPos
        BY <2>1, AsideKeepsOrder DEF Aside, NoError
      <3>2. \A i \in DOMAIN buffer' : buffer'[i] # NoBuf => Batch(buffer[i])' = Taken' + i
        BY <2>0, <2>1, <3>1 DEF Aside, Batch
      <3>3. pullPc' = "send" <=> pullPc = "send"
        BY <2>1 DEF Aside
      <3>4. consPc' \in {"swap", "return"} => Taken' = received' + 1
        BY <2>0, <2>1, <3>1, Zenon DEF Aside
      <3> QED
        BY <2>0, <2>1, <3>1, <3>2, <3>3, <3>4 DEF LiveInv
    <2>2. CASE Receive /\ buffer # <<>>
      <3>1. /\ buffer' = Tail(buffer) /\ consBuf' = Head(buffer) /\ consPc = "receive"
            /\ consPc' = IF Head(buffer) = NoBuf THEN "idle" ELSE "swap"
            /\ status' = IF Head(buffer) = NoBuf THEN "err" ELSE status
            /\ UNCHANGED <<slices, content, childPos, childSt, received, pullPc, readBuf, drainPc>>
        BY <2>2 DEF Receive
      <3>2. Taken = received
        BY <3>1 DEF Taken, Batch, IInv, CallerBatchStable
      <3>3. CASE Head(buffer) = NoBuf
        <4>1. Len(buffer) = 1 /\ DOMAIN buffer' = {} /\ Len(buffer') = 0 /\ ~NoError
          BY <2>2, <3>1, <3>3, AfterReceive DEF PhaseInv, NoError
        <4>2. Taken' = Taken /\ NoError' /\ pullPc # "send"
          BY <2>2, <3>1, <3>3, <4>1, AfterReceive DEF Taken, Batch, NoError, PhaseInv
        <4>3. childPos + 1 = Taken + Len(buffer)
          BY <2>0, <4>1
        <4>4. childPos' = Taken' + Len(buffer')
          <5>1. childPos' = childPos /\ Len(buffer') = 0 /\ Len(buffer) = 1 /\ Taken' = Taken
            BY <3>1, <4>1, <4>2
          <5>2. childPos \in Nat /\ Taken \in Nat
            BY StreamTypes
          <5> QED
            BY <4>3, <5>1, <5>2
        <4> QED
          <5>1. childPos' = Taken' + Len(buffer') + (IF pullPc' = "send" THEN 1 ELSE 0)
            BY <3>1, <4>1, <4>2, <4>4, StreamTypes
          <5> QED
            BY <2>0, <3>1, <3>3, <4>1, <4>2, <5>1, Zenon DEF LiveInv
      <3>4. CASE Head(buffer) # NoBuf
        <4>1. Taken' = Taken + 1
          BY <2>0, <2>2, <3>1, <3>4, AfterReceive, Zenon DEF Taken, Batch
        <4>2. \A i \in DOMAIN buffer' : buffer'[i] # NoBuf => Batch(buffer[i])' = Taken' + i
          <5> SUFFICES ASSUME NEW i \in DOMAIN buffer', buffer'[i] # NoBuf PROVE Batch(buffer[i])' = Taken' + i
            OBVIOUS
          <5>1. i \in Nat /\ i + 1 \in DOMAIN buffer /\ buffer'[i] = buffer[i + 1]
            BY <2>2, <3>1, AfterReceive, Zenon
          <5>2. Batch(buffer[i])' = Batch(buffer[i + 1])
            BY <3>1, <5>1 DEF Batch
          <5> QED
            <6>1. PICK a \in Nat : a = Taken
              BY StreamTypes, Zenon
            <6>2. Batch(buffer[i + 1]) = a + (i + 1)
              BY <2>0, <5>1, <6>1, Zenon
            <6>3. a + (i + 1) = (a + 1) + i
              BY <5>1
            <6> QED
              BY <4>1, <5>2, <6>1, <6>2, <6>3, Zenon
        <4>3. NoError' = NoError
          <5>1. ASSUME NEW i \in DOMAIN buffer PROVE i = 1 \/ (i - 1 \in DOMAIN buffer' /\ buffer'[i - 1] = buffer[i])
            <6>1. i \in 1..Len(buffer) /\ Len(buffer) \in Nat
              BY StreamTypes
            <6>2. i # 1 => i - 1 \in 1..(Len(buffer) - 1) /\ (i - 1) + 1 = i
              BY <6>1
            <6>3. /\ DOMAIN buffer' = 1..(Len(buffer) - 1)
                  /\ \A k \in DOMAIN buffer' : buffer'[k] = buffer[k + 1]
              BY <2>2, <3>1, AfterReceive
            <6> QED
              BY <6>2, <6>3
          <5>2. \A k \in DOMAIN buffer' : k + 1 \in DOMAIN buffer /\ buffer'[k] = buffer[k + 1]
            BY <2>2, <3>1, AfterReceive
          <5>3. buffer[1] # NoBuf
            BY <2>2, <3>1, <3>4, AfterReceive
          <5>4. NoError => NoError'
            BY <5>2 DEF NoError
          <5>5. NoError' => NoError
            BY <5>1, <5>3 DEF NoError
          <5> QED
            BY <5>4, <5>5 DEF NoError
        <4>4. /\ NoError => childPos' = Taken' + Len(buffer') + (IF pullPc' = "send" THEN 1 ELSE 0)
              /\ ~NoError => childPos' + 1 = Taken' + Len(buffer')
          <5>1. Len(buffer) \in Nat /\ Len(buffer') = Len(buffer) - 1 /\ Taken \in Nat /\ childPos \in Nat
            BY <2>2, <3>1, AfterReceive, StreamTypes
          <5>0. childPos' = childPos
            BY <3>1
          <5>2. ASSUME NEW k \in {0, 1}, childPos = Taken + Len(buffer) + k
                PROVE  childPos' = Taken' + Len(buffer') + k
            BY <4>1, <5>0, <5>1, <5>2
          <5>3. ASSUME childPos + 1 = Taken + Len(buffer) PROVE childPos' + 1 = Taken' + Len(buffer')
            BY <4>1, <5>0, <5>1, <5>3
          <5>4. pullPc' = pullPc
            BY <3>1
          <5>5. CASE pullPc = "send"
            BY <2>0, <5>2, <5>3, <5>4, <5>5
          <5>6. CASE pullPc # "send"
            BY <2>0, <5>2, <5>3, <5>4, <5>6
          <5> QED
            BY <5>5, <5>6
        <4> QED
          BY <2>0, <3>1, <3>2, <3>4, <4>1, <4>2, <4>3, <4>4, Zenon DEF LiveInv
      <3> QED
        BY <3>3, <3>4
    <2>3. CASE Receive /\ buffer = <<>>
      <3>1. Aside /\ drainPc' = drainPc /\ pullPc' = pullPc /\ childSt' = childSt /\ status' = "eof" /\ status # "err"
        BY <2>3 DEF Receive, Aside, PhaseInv
      <3> QED
        BY <2>0, <2>1, <3>1
    <2>4. CASE Swap
      <3>1. /\ UNCHANGED <<buffer, childPos, childSt, received, pullPc, readBuf, drainPc, status>>
            /\ consPc = "swap"
        BY <2>4 DEF Swap
      <3>2. NoError' = NoError
        BY <3>1 DEF NoError
      <3> QED
        BY <2>0, <2>4, <3>1, <3>2, SwapKeepsBatches DEF LiveInv
    <2>5. CASE ReturnSwapped
      <3>1. /\ UNCHANGED <<buffer, childPos, childSt, slices, content, pullPc, readBuf, drainPc, status>>
            /\ consPc = "return" /\ consPc' = "idle"
        BY <2>5 DEF ReturnSwapped
      <3>2. Taken' = Taken /\ NoError' = NoError
        BY <3>1 DEF Taken, Batch, NoError
      <3> QED
        BY <2>0, <3>1, <3>2, Zenon DEF LiveInv, Batch
    <2>6. CASE Series \/ Call \/ CheckContext
      <3>1. Aside /\ UNCHANGED <<drainPc, pullPc, childSt, status>>
        BY <1>3, <2>6, Zenon DEF Series, Call, CheckContext, Aside
      <3> QED
        BY <2>0, <2>1, <3>1
    <2>7. CASE StartOnce
      <3>1. Aside /\ UNCHANGED <<childSt, status>> /\ drainPc' \in {"off", "wait"}
            /\ (pullPc' = pullPc \/ pullPc' = "select")
        BY <2>0, <2>7 DEF StartOnce, Aside
      <3> QED
        BY <2>0, <2>1, <3>1
    <2>8. CASE PullNextData
      <3>1. /\ childPos' = childPos + 1 /\ pullPc = "next" /\ pullPc' = "send"
            /\ UNCHANGED <<buffer, received, consPc, readBuf, drainPc, childSt, status>>
        BY <2>8 DEF PullNextData
      <3>2. NoError /\ NoError'
        BY <3>1 DEF PhaseInv, NoError
      <3>3. /\ Taken' = Taken
            /\ \A i \in DOMAIN buffer : buffer[i] # NoBuf => Batch(buffer[i])' = Batch(buffer[i])
        BY <2>8, WriteKeepsBatches
      <3>4. childPos' = Taken' + Len(buffer') + 1
        BY <2>0, <3>1, <3>2, <3>3, StreamTypes
      <3> QED
        BY <2>0, <3>1, <3>2, <3>3, <3>4 DEF LiveInv
    <2>9. CASE PullSend
      <3>1. /\ buffer' = Append(buffer, readBuf) /\ pullPc = "send" /\ pullPc' = "select" /\ readBuf \in Places
            /\ UNCHANGED <<childPos, slices, content, received, consPc, consBuf, drainPc, childSt, status>>
        BY <2>9, StreamTypes, Zenon DEF PullSend
      <3>2. Taken' = Taken /\ readBuf # NoBuf
        BY <3>1 DEF Taken, Batch, IInv, Hands
      <3>3. NoError /\ NoError'
        BY <3>1, <3>2, AfterSend DEF PhaseInv, NoError
      <3>4. childPos' = Taken' + Len(buffer')
        <4>1. childPos' = Taken' + Len(buffer) + 1 /\ Len(buffer') = Len(buffer) + 1
          BY <2>0, <3>1, <3>2, <3>3, AfterSend, Zenon
        <4>2. PICK a \in Nat : a = Taken
          BY StreamTypes, Zenon
        <4>3. PICK l \in Nat : l = Len(buffer)
          BY StreamTypes, Zenon
        <4>4. a + l + 1 = a + (l + 1)
          OBVIOUS
        <4> QED
          BY <3>2, <4>1, <4>2, <4>3, <4>4, Zenon
      <3>5. \A i \in DOMAIN buffer' : buffer'[i] # NoBuf => Batch(buffer[i])' = Taken' + i
        <4>1. \A i \in DOMAIN buffer : buffer'[i] # NoBuf => Batch(buffer[i])' = Taken' + i
          BY <2>0, <3>1, <3>2, AfterSend, Zenon DEF Batch
        <4>2. Batch(readBuf) = Taken + (Len(buffer) + 1)
          <5>1. Batch(readBuf) = childPos /\ childPos = Taken + Len(buffer) + 1
            BY <2>0, <3>1, <3>3, Zenon DEF OrderInv
          <5>2. PICK a \in Nat : a = Taken
            BY StreamTypes, Zenon
          <5>3. PICK l \in Nat : l = Len(buffer)
            BY StreamTypes, Zenon
          <5>4. a + l + 1 = a + (l + 1)
            OBVIOUS
          <5> QED
            BY <5>1, <5>2, <5>3, <5>4, Zenon
        <4>3. /\ \A i \in DOMAIN buffer' : i \in DOMAIN buffer \/ i = Len(buffer) + 1
              /\ buffer'[Len(buffer) + 1] = readBuf
          BY <3>1, AfterSend, Zenon
        <4>4. ASSUME NEW i \in DOMAIN buffer', i = Len(buffer) + 1 PROVE Batch(buffer[i])' = Taken' + i
          BY <3>1, <3>2, <4>2, <4>3, <4>4 DEF Batch
        <4> QED
          BY <4>1, <4>3, <4>4
      <3>6. childPos' = Taken' + Len(buffer') + 0
        BY <3>1, <3>2, <3>4, AfterSend, StreamTypes
      <3> QED
        BY <2>0, <3>1, <3>2, <3>3, <3>5, <3>6, Zenon DEF LiveInv
    <2>10. CASE PullSendErr
      <3>1. /\ buffer' = Append(buffer, NoBuf) /\ pullPc = "sendErr" /\ pullPc' = "close" /\ NoBuf \in Places
            /\ UNCHANGED <<childPos, slices, content, received, consPc, consBuf, drainPc, childSt, status>>
        BY <2>10, StreamTypes, Zenon DEF PullSendErr
      <3>2. Taken' = Taken /\ NoError
        BY <3>1, Zenon DEF Taken, Batch, PhaseInv, NoError
      <3>3. ~NoError'
        BY <3>1, AfterSend, Zenon DEF NoError
      <3>4. childPos' + 1 = Taken' + Len(buffer')
        <4>1. childPos' = Taken + Len(buffer) + 0 /\ Len(buffer') = Len(buffer) + 1
          BY <2>0, <3>1, <3>2, AfterSend, Zenon
        <4>2. PICK a \in Nat : a = Taken
          BY StreamTypes, Zenon
        <4>3. PICK l \in Nat : l = Len(buffer)
          BY StreamTypes, Zenon
        <4>4. (a + l + 0) + 1 = a + (l + 1)
          OBVIOUS
        <4> QED
          BY <3>2, <4>1, <4>2, <4>3, <4>4, Zenon
      <3>5. \A i \in DOMAIN buffer' : buffer'[i] # NoBuf => i \in DOMAIN buffer /\ buffer'[i] = buffer[i]
        BY <3>1, AfterSend
      <3>6. \A i \in DOMAIN buffer' : buffer'[i] # NoBuf => Batch(buffer[i])' = Taken' + i
        BY <2>0, <3>1, <3>2, <3>5 DEF Batch
      <3> QED
        BY <2>0, <3>1, <3>2, <3>3, <3>4, <3>6, Zenon DEF LiveInv
    <2>11. CASE PullSelect \/ PullTake \/ PullClose
      <3>1. /\ Aside /\ UNCHANGED <<childSt, status, drainPc>>
            /\ pullPc' \in {"take", "next"} \/ (pullPc = "close" /\ pullPc' = "done")
        BY <1>3, <2>11, Zenon DEF PullSelect, PullTake, PullClose, Aside
      <3> QED
        BY <2>0, <2>1, <3>1
    <2>12. CASE PullNextEnd \/ PullNextErr \/ PullNextPanic
      <3>1. /\ Aside /\ UNCHANGED <<status, drainPc>> /\ pullPc = "next"
            /\ \/ pullPc' \in {"returnEnd", "returnErr"}
               \/ pullPc' = "sendErr" /\ childSt' = "failed"
        BY <2>12, Zenon DEF PullNextEnd, PullNextErr, PullNextPanic, Aside
      <3>2. NoError
        BY <3>1 DEF PhaseInv, NoError
      <3> QED
        BY <2>0, <2>1, <3>1, <3>2
    <2>13. CASE PullReturn
      <3>1. /\ Aside /\ UNCHANGED <<childSt, status, drainPc>>
            /\ \/ pullPc = "returnEnd" /\ pullPc' = "close"
               \/ pullPc = "returnErr" /\ pullPc' = "sendErr"
        BY <2>13 DEF PullReturn, Aside
      <3> QED
        BY <2>0, <2>1, <3>1 DEF PhaseInv
    <2>14. CASE UNCHANGED vars
      <3>1. Aside /\ UNCHANGED <<drainPc, pullPc, childSt, status>>
        BY <2>14 DEF vars, Aside
      <3> QED
        BY <2>0, <2>1, <3>1
    <2> QED
      BY <1>3, <2>0, <2>2, <2>3, <2>4, <2>5, <2>6, <2>7, <2>8, <2>9, <2>10, <2>11, <2>12, <2>13, <2>14, Zenon
         DEF Next, CancelContext, Consumer, Pull, Drain, DrainWake, DrainRange, DrainReturn
  <1> QED
    BY <1>1, <1>2, <1>3
(* Nothing is under way before the first call. *)
LEMMA InitStream == Init => StreamInv
  <1> SUFFICES ASSUME Init PROVE StreamInv
    OBVIOUS
  <1>1. /\ buffer = <<>> /\ DOMAIN buffer = {} /\ Len(buffer) = 0 /\ childPos = 0 /\ childSt = "open"
        /\ pullPc = "off" /\ drainPc = "off" /\ consPc = "idle" /\ closed = FALSE /\ status = "open"
    BY DEF Init
  <1>2. Taken = 0
    BY DEF Init, Taken, Batch, Places, NoBuf
  <1>3. NoError
    BY <1>1 DEF NoError
  <1> QED
    BY <1>1, <1>2, <1>3 DEF StreamInv, PhaseInv, OrderInv, LiveInv

(* Every step of the operator is a step of the stream it promises, or none. *)
LEMMA StreamStep == IInv /\ StreamInv /\ [Next]_vars => [Stream!Next]_(Stream!streamVars)
  <1> SUFFICES ASSUME IInv, PhaseInv, OrderInv, LiveInv, [Next]_vars
               PROVE  Stream!Next \/ UNCHANGED <<ctxDone, childPos, childSt, received, status>>
    BY DEF StreamInv, Stream!streamVars
  <1> USE DEF childVars, pullVars, drainVars, consVars, dataVars
  <1>1. CASE CancelContext
    BY <1>1, Zenon DEF CancelContext, Stream!Next, Stream!Cancel
  <1>2. CASE PullNextData
    BY <1>2 DEF PullNextData, PhaseInv, Stream!Next, Stream!Produce
  <1>3. CASE PullNextEnd
    BY <1>3 DEF PullNextEnd, PhaseInv, Stream!Next, Stream!SourceEnds
  <1>4. CASE PullNextErr \/ PullNextPanic
    BY <1>4 DEF PullNextErr, PullNextPanic, PhaseInv, Stream!Next, Stream!SourceFails
  <1>5. CASE CheckContext
    <2>1. CASE ctxDone
      BY <1>5, <2>1 DEF CheckContext, PhaseInv, Stream!Next, Stream!Fail
    <2>2. CASE ~ctxDone
      BY <1>5, <2>2 DEF CheckContext
    <2> QED
      BY <2>1, <2>2
  <1>6. CASE ReturnSwapped
    <2>1. /\ received' = Taken /\ status = "open"
          /\ UNCHANGED <<ctxDone, childPos, childSt, status>>
      BY <1>6, Zenon DEF ReturnSwapped, Taken, Batch, PhaseInv
    <2>2. received < Taken /\ Taken <= childPos
      BY <1>6, Zenon DEF ReturnSwapped, OrderInv
    <2>3. Taken \in (received + 1)..childPos
      BY <2>2, StreamTypes
    <2>4. Taken = received + 1 \/ ctxDone
      BY <1>6 DEF ReturnSwapped, LiveInv
    <2> QED
      BY <2>1, <2>3, <2>4 DEF Stream!Next, Stream!Deliver
  <1>7. CASE Receive
    <2>1. /\ consPc = "receive" /\ status # "err" /\ UNCHANGED <<ctxDone, childPos, childSt, received>>
      BY <1>7 DEF Receive, PhaseInv
    <2>2. Taken = received
      BY <2>1 DEF Taken, Batch, IInv, CallerBatchStable
    <2>3. CASE buffer = <<>>
      <3>1. closed /\ status' = "eof" /\ pullPc = "done" /\ NoError
        BY <1>7, <2>3 DEF Receive, PhaseInv, NoError
      <3>2. Len(buffer) = 0
        BY <2>3
      <3>3. ~ctxDone => childSt = "ended" /\ childPos = Taken + Len(buffer) + 0
        BY <2>1, <3>1 DEF LiveInv
      <3>4. ctxDone \/ (childSt = "ended" /\ received = childPos)
        BY <2>2, <3>2, <3>3, StreamTypes
      <3>5. CASE status = "eof"
        BY <2>1, <3>1, <3>5
      <3>6. CASE status = "open"
        BY <2>1, <3>1, <3>4, <3>6 DEF Stream!Next, Stream!End
      <3> QED
        BY <2>1, <3>5, <3>6 DEF IInv, TypeOK
    <2>4. CASE buffer # <<>> /\ Head(buffer) = NoBuf
      <3>1. buffer' = Tail(buffer) /\ status' = "err"
        BY <1>7, <2>4 DEF Receive
      <3>2. 1 \in DOMAIN buffer /\ buffer[1] = NoBuf
        BY <2>4, <3>1, AfterReceive
      <3>3. Len(buffer) = 1 /\ ~NoError
        BY <3>2, Zenon DEF PhaseInv, NoError
      <3>4. ~ctxDone => childSt = "failed" /\ childPos + 1 = Taken + Len(buffer)
        BY <3>3 DEF LiveInv
      <3>5. ctxDone \/ (childSt = "failed" /\ received = childPos)
        BY <2>2, <3>3, <3>4, StreamTypes
      <3> QED
        BY <2>1, <3>1, <3>5 DEF Stream!Next, Stream!Fail
    <2>5. CASE buffer # <<>> /\ Head(buffer) # NoBuf
      BY <1>7, <2>1, <2>5 DEF Receive
    <2> QED
      BY <2>3, <2>4, <2>5
  <1>8. CASE Series \/ Call \/ StartOnce \/ Swap
    BY <1>8 DEF Series, Call, StartOnce, Swap
  <1>9. CASE PullSelect \/ PullTake \/ PullReturn \/ PullSend \/ PullSendErr \/ PullClose
    BY <1>9, Zenon DEF PullSelect, PullTake, PullReturn, PullSend, PullSendErr, PullClose
  <1>10. CASE Drain
    BY <1>10 DEF Drain, DrainWake, DrainRange, DrainReturn
  <1>11. CASE UNCHANGED vars
    BY <1>11 DEF vars
  <1> QED
    BY <1>1, <1>2, <1>3, <1>4, <1>5, <1>6, <1>7, <1>8, <1>9, <1>10, <1>11 DEF Next, Consumer, Pull

(* The operator implements the contract of a VectorOperator: for every size   *)
(* of the channel and every number of batches, the caller of Next receives    *)
(* the child's batches in order and complete, and the end or the failure      *)
(* after the last of them, unless the context is done.                        *)
THEOREM Refinement == Spec => StreamRefinement
  <1>1. Init => Stream!Init
    BY DEF Init, Stream!Init
  <1>2. Init => StreamInv
    BY InitStream
  <1>3. IInv /\ StreamInv /\ [Next]_vars => StreamInv'
    BY PhaseStep, OrderStep, LiveStep DEF StreamInv
  <1> QED
    BY <1>1, <1>2, <1>3, StreamStep, Invariance, PTL DEF Spec, StreamRefinement, Stream!Spec
=============================================================================
