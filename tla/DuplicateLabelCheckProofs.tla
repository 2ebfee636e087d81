--------------------- MODULE DuplicateLabelCheckProofs ---------------------
(***************************************************************************)
(* Proofs about the duplicate label check (module DuplicateLabelCheck):    *)
(* the remapping of series IDs is sound, no two samples with the same      *)
(* labels and timestamp get through, and the error is never a false alarm, *)
(* for every list of series, step, mask width and order of batches.        *)
(***************************************************************************)
EXTENDS DuplicateLabelCheck, SequenceTheorems, TLAPS

(* The output ID of a series of the child. *)
Out(i) == IF Aliased THEN outputIDs[i] ELSE i

(* What init knows of the first pos series. *)
RemapInv ==
  /\ \A i \in 1..pos : input[i] \in DOMAIN canon
  /\ \A l \in DOMAIN canon : canon[l] \in DOMAIN series /\ series[canon[l]] = l
  /\ Aliased => /\ Len(outputIDs) = pos
                /\ IsInjective(series)
                /\ \A k \in DOMAIN series : series[k] \in DOMAIN canon
                /\ \A i \in 1..pos : /\ outputIDs[i] \in DOMAIN series
                                     /\ series[outputIDs[i]] = input[i]
  /\ ~Aliased => /\ series = input
                 /\ \A i, j \in 1..pos : input[i] = input[j] => i = j
                 /\ \A l \in DOMAIN canon : canon[l] \in 1..pos

(* Every sample is accounted for under its output ID, and, when series are *)
(* aliased, the masks hold the samples from the origin on and no others.   *)
SampleInv ==
  /\ \A g \in given : g[1] \in DOMAIN input
  /\ \A x \in emitted \cup buf :
       x.in \in DOMAIN input /\ x.out = Out(x.in) /\ <<x.in, x.t>> \in given
  /\ status = "init" => emitted \cup buf = {} /\ given = {} /\ origin = NoOrigin
  /\ status \in {"idle", "batch"} \/ emitted \cup buf # {} => pos = Len(input)

MaskInv ==
  Aliased /\ status \in {"idle", "batch"} =>
    /\ DOMAIN seen = DOMAIN series
    /\ origin = NoOrigin => emitted \cup buf = {} /\ \A o \in DOMAIN seen : seen[o] = {}
    /\ \A x \in emitted \cup buf : x.t >= origin =>
         (x.t - origin) % Step = 0 /\ (x.t - origin) \div Step \in seen[x.out]
    /\ \A o \in DOMAIN seen : \A b \in seen[o] :
         b \in Nat /\ \E g \in given : Out(g[1]) = o /\ g[2] = origin + Step * b
    /\ status = "batch" => /\ origin \in Times /\ now >= origin
                           /\ (now - origin) % Step = 0
                           /\ (now - origin) \div Step < Window

IInv == TypeOK /\ RemapInv /\ SampleInv /\ MaskInv /\ NoDuplicates /\ AlarmIsTrue

-----------------------------------------------------------------------------
(* A multiple of the step is the step times its quotient. *)
LEMMA DivExact ==
  ASSUME NEW a \in Int, a % Step = 0
  PROVE  a = Step * (a \div Step) /\ a \div Step \in Int
  BY StepAssumption

(* Offsets from a later, aligned origin have their quotients shifted. *)
LEMMA DivShift ==
  ASSUME NEW a \in Int, NEW b \in Int, a % Step = 0, b % Step = 0
  PROVE  (a - b) % Step = 0 /\ (a - b) \div Step = (a \div Step) - (b \div Step)
  <1>1. \A q \in Int : (Step * q) \div Step = q /\ (Step * q) % Step = 0
    BY StepAssumption
  <1>2. a - b = Step * ((a \div Step) - (b \div Step)) /\ (a \div Step) - (b \div Step) \in Int
    BY DivExact, StepAssumption
  <1> QED
    BY <1>1, <1>2

(* init keeps the remapping sound with every series it looks at. *)
LEMMA RemapStep == TypeOK /\ RemapInv /\ InitLoop => RemapInv'
  <1> SUFFICES ASSUME TypeOK, RemapInv, InitLoop PROVE RemapInv'
    OBVIOUS
  <1> DEFINE m     == input[pos + 1]
             isNew == m \notin DOMAIN canon
             out   == IF ~isNew THEN canon[m]
                      ELSE IF Aliased THEN Len(series) + 1 ELSE pos + 1
  <1>0. /\ pos \in Nat /\ pos + 1 \in 1..Len(input) /\ input \in Seq(Labels)
        /\ series \in Seq(Labels) /\ pos' = pos + 1 /\ input' = input
        /\ DOMAIN input = 1..Len(input) /\ DOMAIN series = 1..Len(series)
        /\ Len(series) \in Nat /\ Len(input) \in Nat
        /\ outputIDs \in Seq(Nat) /\ m \in Labels
    BY LenProperties DEF TypeOK, InitLoop
  <1>1. /\ canon' = [l \in DOMAIN canon \cup {m} |-> IF l = m THEN out ELSE canon[l]]
        /\ InitSeries(out, isNew, m)
    BY DEF InitLoop
  <1>2. /\ DOMAIN canon' = DOMAIN canon \cup {m} /\ canon'[m] = out
        /\ \A l \in DOMAIN canon : l # m => canon'[l] = canon[l]
    BY <1>1
  <1>3. \A i \in 1..pos' : i \in 1..pos \/ i = pos + 1
    BY <1>0
  <1>a. m = input[pos + 1]
    OBVIOUS
  <1> HIDE DEF out, m
  <1>b. \A i \in 1..pos' : input'[i] \in DOMAIN canon'
    BY <1>0, <1>2, <1>3, <1>a DEF RemapInv
  <1>4. CASE isNew /\ Aliased
    <2>1. outputIDs' = Append(outputIDs, out) /\ series' = Append(series, m)
      BY <1>1, <1>4 DEF InitSeries
    <2>2. out = Len(series) + 1 /\ out \in Nat
      BY <1>0, <1>4 DEF out
    <2>3. /\ Len(outputIDs') = pos + 1 /\ outputIDs'[pos + 1] = out /\ outputIDs' # <<>>
          /\ \A i \in 1..pos : outputIDs'[i] = outputIDs[i]
      <3>1. Len(outputIDs) = pos
        BY <1>4 DEF RemapInv
      <3>2. outputIDs \in Seq(Nat) /\ pos \in Nat
        BY <1>0
      <3>3. /\ Len(outputIDs') = Len(outputIDs) + 1 /\ outputIDs'[Len(outputIDs) + 1] = out
            /\ outputIDs' # <<>>
        BY <2>1, <2>2, <3>2, AppendProperties
      <3>4. \A i \in 1..Len(outputIDs) : outputIDs'[i] = outputIDs[i]
        BY <2>1, <2>2, <3>2, AppendProperties
      <3> QED
        BY <3>1, <3>3, <3>4
    <2>4. /\ DOMAIN series' = DOMAIN series \cup {out} /\ series'[out] = m
          /\ \A k \in DOMAIN series : series'[k] = series[k] /\ k # out
      BY <1>0, <2>1, <2>2, AppendProperties, LenProperties
    <2>5. IsInjective(series')
      BY <1>4, <2>4 DEF IsInjective, RemapInv
    <2>6. \A l \in DOMAIN canon' : canon'[l] \in DOMAIN series' /\ series'[canon'[l]] = l
      BY <1>2, <1>4, <2>4 DEF RemapInv
    <2>7. \A i \in 1..pos' : outputIDs'[i] \in DOMAIN series' /\ series'[outputIDs'[i]] = input'[i]
      <3>1. \A i \in 1..pos : outputIDs'[i] \in DOMAIN series' /\ series'[outputIDs'[i]] = input'[i]
        BY <1>0, <1>4, <2>3, <2>4 DEF RemapInv
      <3>2. LET i == pos + 1 IN outputIDs'[i] \in DOMAIN series' /\ series'[outputIDs'[i]] = input'[i]
        BY <1>0, <1>a, <2>3, <2>4
      <3> QED
        BY <1>3, <3>1, <3>2
    <2>8. \A k \in DOMAIN series' : series'[k] \in DOMAIN canon'
      BY <1>2, <1>4, <2>4 DEF RemapInv
    <2> QED
      BY <1>0, <1>b, <2>3, <2>5, <2>6, <2>7, <2>8 DEF RemapInv, Aliased
  <1>5. CASE isNew /\ ~Aliased
    <2>1. outputIDs' = <<>> /\ series' = series /\ out = pos + 1
      BY <1>1, <1>5 DEF InitSeries, out, Aliased
    <2>2. \A i \in 1..pos : input[i] # m
      BY <1>5 DEF RemapInv
    <2>3. series = input /\ \A l \in DOMAIN canon : canon[l] \in 1..pos /\ series[canon[l]] = l
      BY <1>5 DEF RemapInv
    <2>4. \A l \in DOMAIN canon' :
            canon'[l] \in 1..pos' /\ canon'[l] \in DOMAIN series' /\ series'[canon'[l]] = l
      BY <1>0, <1>2, <1>5, <1>a, <2>1, <2>3
    <2>5. \A i, j \in 1..pos' : input'[i] = input'[j] => i = j
      BY <1>0, <1>3, <1>5, <1>a, <2>2 DEF RemapInv
    <2> QED
      BY <1>0, <1>b, <2>1, <2>3, <2>4, <2>5 DEF RemapInv, Aliased
  <1>6. CASE ~isNew /\ Aliased
    <2>1. outputIDs' = Append(outputIDs, out) /\ series' = series /\ out = canon[m]
      BY <1>1, <1>6 DEF InitSeries, out
    <2>2. out \in DOMAIN series /\ series[out] = m /\ out \in Nat
      BY <1>0, <1>6, <2>1 DEF RemapInv
    <2>3. /\ Len(outputIDs') = pos + 1 /\ outputIDs'[pos + 1] = out /\ outputIDs' # <<>>
          /\ \A i \in 1..pos : outputIDs'[i] = outputIDs[i]
      <3>1. Len(outputIDs) = pos
        BY <1>6 DEF RemapInv
      <3> QED
        BY <1>0, <2>1, <2>2, <3>1, AppendProperties
    <2>4. \A l \in DOMAIN canon' : canon'[l] \in DOMAIN series' /\ series'[canon'[l]] = l
      BY <1>2, <1>6, <2>1, <2>2 DEF RemapInv
    <2>5. \A i \in 1..pos' : outputIDs'[i] \in DOMAIN series' /\ series'[outputIDs'[i]] = input'[i]
      <3>1. \A i \in 1..pos : outputIDs'[i] \in DOMAIN series' /\ series'[outputIDs'[i]] = input'[i]
        BY <1>0, <1>6, <2>1, <2>3 DEF RemapInv
      <3>2. LET i == pos + 1 IN outputIDs'[i] \in DOMAIN series' /\ series'[outputIDs'[i]] = input'[i]
        BY <1>0, <1>a, <2>1, <2>2, <2>3
      <3> QED
        BY <1>3, <3>1, <3>2
    <2>6. IsInjective(series') /\ \A k \in DOMAIN series' : series'[k] \in DOMAIN canon'
      BY <1>2, <1>6, <2>1 DEF RemapInv
    <2> QED
      BY <1>0, <1>b, <2>3, <2>4, <2>5, <2>6 DEF RemapInv, Aliased
  <1>7. CASE ~isNew /\ ~Aliased
    <2> DEFINE same == [j \in 1..pos |-> j]
    <2>1. outputIDs' = Append(same, out) /\ series' = SubSeq(input, 1, pos) /\ out = canon[m]
      BY <1>1, <1>7, Zenon DEF InitSeries, out
    <2>2. /\ out \in 1..pos /\ input[out] = m
          /\ \A l \in DOMAIN canon : canon[l] \in 1..pos /\ input[canon[l]] = l
      BY <1>7, <2>1 DEF RemapInv
    <2>3. same \in Seq(Nat) /\ Len(same) = pos /\ \A i \in 1..pos : same[i] = i
      BY <1>0
    <2> HIDE DEF same
    <2>4. /\ Len(outputIDs') = pos + 1 /\ outputIDs'[pos + 1] = out /\ outputIDs' # <<>>
          /\ \A i \in 1..pos : outputIDs'[i] = i
      BY <1>0, <2>1, <2>2, <2>3, AppendProperties
    <2>5. DOMAIN series' = 1..pos /\ \A k \in 1..pos : series'[k] = input[k]
      <3>1. \A i \in 1..pos : 1 + i - 1 = i
        BY <1>0
      <3> QED
        BY <1>0, <2>1, <3>1
    <2>6. IsInjective(series')
      BY <1>7, <2>5 DEF IsInjective, RemapInv
    <2>7. \A l \in DOMAIN canon' : canon'[l] \in DOMAIN series' /\ series'[canon'[l]] = l
      BY <1>2, <2>2, <2>5
    <2>8. \A i \in 1..pos' : outputIDs'[i] \in DOMAIN series' /\ series'[outputIDs'[i]] = input'[i]
      <3>1. \A i \in 1..pos : outputIDs'[i] \in DOMAIN series' /\ series'[outputIDs'[i]] = input'[i]
        BY <1>0, <2>4, <2>5
      <3>2. LET i == pos + 1 IN outputIDs'[i] \in DOMAIN series' /\ series'[outputIDs'[i]] = input'[i]
        BY <1>0, <1>a, <2>2, <2>4, <2>5
      <3> QED
        BY <1>3, <3>1, <3>2
    <2>9. \A k \in DOMAIN series' : series'[k] \in DOMAIN canon'
      BY <1>2, <2>5 DEF RemapInv
    <2> QED
      BY <1>0, <1>b, <2>4, <2>6, <2>7, <2>8, <2>9 DEF RemapInv, Aliased
  <1> QED
    BY <1>4, <1>5, <1>6, <1>7

(* The variables keep their types. *)
LEMMA TypeStep == TypeOK /\ RemapInv /\ SampleInv /\ MaskInv /\ [Next]_vars => TypeOK'
  <1> SUFFICES ASSUME TypeOK, RemapInv, SampleInv, MaskInv, [Next]_vars PROVE TypeOK'
    OBVIOUS
  <1> USE StepAssumption, WindowAssumption, BoundsAssumption DEF initVars
  <1>0. Len(input) \in Nat /\ DOMAIN input = 1..Len(input) /\ DOMAIN series = 1..Len(series)
    BY LenProperties DEF TypeOK
  <1>1. CASE InitLoop
    <2> DEFINE m     == input[pos + 1]
               isNew == m \notin DOMAIN canon
               out   == IF ~isNew THEN canon[m]
                        ELSE IF Aliased THEN Len(series) + 1 ELSE pos + 1
    <2>1. InitSeries(out, isNew, m) /\ pos' = pos + 1 /\ pos' \in 0..Len(input') /\ input' = input
      BY <1>0, <1>1 DEF InitLoop, TypeOK
    <2>2. m \in Labels /\ out \in Nat /\ pos \in 0..Len(input)
      BY <1>0, <1>1, LenProperties DEF InitLoop, TypeOK, RemapInv
    <2> HIDE DEF m, out, isNew
    <2>3. [j \in 1..pos |-> j] \in Seq(Nat) /\ SubSeq(input, 1, pos) \in Seq(Labels)
      BY <1>0, <2>2, SubSeqProperties DEF TypeOK
    <2>4. outputIDs' \in Seq(Nat) /\ series' \in Seq(Labels)
      BY <2>1, <2>2, <2>3, AppendProperties, EmptySeq DEF InitSeries, TypeOK
    <2> QED
      BY <1>0, <1>1, <2>1, <2>4 DEF InitLoop, TypeOK
  <1>2. CASE InitDone
    BY <1>2 DEF InitDone, TypeOK, Aliased
  <1>3. CASE ChildFails
    <2>1. Aliased => status # "init"
      BY <1>3 DEF ChildFails, RemapInv, Aliased, TypeOK
    <2> QED
      BY <1>3, <2>1 DEF ChildFails, TypeOK, Aliased
  <1>4. CASE NextReturns
    BY <1>4 DEF NextReturns, TypeOK, Aliased
  <1>5. ASSUME NEW t \in Times, NextBatch(t) PROVE TypeOK'
    <2>1. CASE UNCHANGED <<seen, origin>>
      BY <1>5, <2>1 DEF NextBatch, TypeOK, Aliased
    <2>2. CASE ~UNCHANGED <<seen, origin>>
      <3> DEFINE delta == IF origin = NoOrigin THEN 0 ELSE t - origin
      <3>1. /\ seen' = [o \in DOMAIN seen |-> ShiftRight(seen[o], delta \div Step)]
            /\ origin' = t /\ delta \in Nat /\ status' = "batch" /\ delta % Step = 0
        BY <1>5, <2>2 DEF NextBatch, TypeOK, Times
      <3>2. delta \div Step \in Nat
        BY <3>1
      <3> HIDE DEF delta
      <3>3. \A o \in DOMAIN seen : ShiftRight(seen[o], delta \div Step) \subseteq 0..(Window - 1)
        BY <3>2 DEF TypeOK, ShiftRight
      <3> QED
        BY <1>5, <3>1, <3>3 DEF NextBatch, TypeOK, Aliased
    <2> QED
      BY <2>1, <2>2
  <1>6. ASSUME NEW t \in Times, NextVector(t) PROVE TypeOK'
    BY <1>6 DEF NextVector, TypeOK, Aliased
  <1>7. ASSUME NEW id \in DOMAIN input, NextSample(id) PROVE TypeOK'
    <2> DEFINE out == IF Aliased THEN outputIDs[id] ELSE id
               bit == (now - origin) \div Step
    <2>1. id \in 1..MaxSeries /\ now \in Times /\ given' \subseteq (1..MaxSeries) \X Times
      BY <1>0, <1>7 DEF NextSample, TypeOK
    <2>2. Aliased => bit \in 0..(Window - 1) /\ DOMAIN seen = 1..Len(series)
      <3>1. Aliased => /\ now - origin \in Nat /\ (now - origin) \div Step < Window
                       /\ DOMAIN seen = 1..Len(series)
        BY <1>7 DEF NextSample, TypeOK, MaskInv, Times
      <3>2. \A a \in Nat : a \div Step \in Nat
        OBVIOUS
      <3> QED
        BY <3>1, <3>2
    <2>3. out \in Nat
      <3>1. Aliased => Len(outputIDs) = Len(input)
        BY <1>7 DEF NextSample, SampleInv, RemapInv
      <3>2. Aliased => outputIDs[id] \in Nat
        BY <1>0, <3>1, LenProperties, ElementOfSeq DEF TypeOK
      <3> QED
        BY <2>1, <3>2
    <2>4. CASE UNCHANGED <<seen, buf>>
      BY <1>7, <2>1, <2>4, Zenon DEF NextSample, TypeOK, Aliased
    <2>5. CASE ~UNCHANGED <<seen, buf>>
      <3>1. /\ seen' = IF Aliased THEN [seen EXCEPT ![out] = @ \cup {bit}] ELSE seen
            /\ buf' = buf \cup {[in |-> id, out |-> out, t |-> now]}
            /\ UNCHANGED status
        BY <1>7, <2>5 DEF NextSample
      <3>2. buf' \subseteq Samples
        BY <2>1, <2>3, <3>1 DEF Samples, TypeOK
      <3> HIDE DEF out, bit
      <3>3. /\ Aliased => DOMAIN seen' = 1..Len(series)
            /\ \A o \in DOMAIN seen' : seen'[o] \subseteq 0..(Window - 1)
        BY <2>2, <3>1 DEF TypeOK
      <3> QED
        BY <1>7, <2>1, <3>1, <3>2, <3>3 DEF NextSample, TypeOK, Aliased
    <2> QED
      BY <2>4, <2>5
  <1>8. CASE UNCHANGED vars
    BY <1>8 DEF vars, TypeOK, Aliased
  <1> QED
    BY <1>1, <1>2, <1>3, <1>4, <1>5, <1>6, <1>7, <1>8 DEF Next

(* Outside init the remapping does not change. *)
LEMMA RemapKept == RemapInv /\ UNCHANGED initVars => RemapInv'
  BY DEF RemapInv, initVars, Aliased

(* Once init is done every series has an output ID with its labels. *)
LEMMA OutSound ==
  ASSUME TypeOK, RemapInv, pos = Len(input), NEW i \in DOMAIN input
  PROVE  Out(i) \in DOMAIN series /\ series[Out(i)] = input[i]
  <1>1. i \in 1..pos
    BY LenProperties DEF TypeOK
  <1> QED
    BY <1>1 DEF RemapInv, Out

(* Quotients of natural numbers are natural numbers. *)
LEMMA DivNat == \A a \in Nat : a \div Step \in Nat
  BY StepAssumption

(* Samples are recorded under the output ID of their series. *)
LEMMA SampleStep == TypeOK /\ RemapInv /\ SampleInv /\ [Next]_vars => SampleInv'
  <1> SUFFICES ASSUME TypeOK, RemapInv, SampleInv, [Next]_vars PROVE SampleInv'
    OBVIOUS
  <1> USE DEF initVars
  <1>1. CASE InitLoop
    BY <1>1 DEF InitLoop, SampleInv
  <1>2. CASE InitDone \/ ChildFails \/ NextReturns \/ UNCHANGED vars
    BY <1>2 DEF InitDone, ChildFails, NextReturns, vars, SampleInv, Out, Aliased
  <1>3. ASSUME NEW t \in Times, NextBatch(t) \/ NextVector(t) PROVE SampleInv'
    <2>1. /\ UNCHANGED <<initVars, emitted, buf, given>>
          /\ status \in {"idle", "batch"} /\ status' \in {"failed", "batch", status}
      BY <1>3 DEF NextBatch, NextVector
    <2> QED
      BY <2>1 DEF SampleInv, Out, Aliased
  <1>4. ASSUME NEW id \in DOMAIN input, NextSample(id) PROVE SampleInv'
    <2>1. /\ UNCHANGED <<initVars, emitted>> /\ status = "batch"
          /\ status' \in {"batch", "duplicate"}
          /\ given' = given \cup {<<id, now>>}
          /\ buf' = buf \/ buf' = buf \cup {[in |-> id, out |-> Out(id), t |-> now]}
      BY <1>4 DEF NextSample, Out
    <2>2. \A i : Out(i)' = Out(i)
      BY <2>1 DEF Out, Aliased
    <2> QED
      BY <2>1, <2>2 DEF SampleInv
  <1> QED
    BY <1>1, <1>2, <1>3, <1>4 DEF Next

(* The masks follow the origin and record every sample that passes. *)
LEMMA MaskStep == TypeOK /\ RemapInv /\ SampleInv /\ MaskInv /\ [Next]_vars => MaskInv'
  <1> SUFFICES ASSUME TypeOK, RemapInv, SampleInv, MaskInv, [Next]_vars,
                      Aliased', status' \in {"idle", "batch"}
               PROVE  MaskInv'
    BY DEF MaskInv
  <1> USE DEF initVars
  <1>0. DOMAIN series = 1..Len(series)
    BY LenProperties DEF TypeOK
  <1>1. CASE InitLoop \/ ChildFails
    BY <1>1 DEF InitLoop, ChildFails
  <1>2. CASE InitDone
    BY <1>0, <1>2 DEF InitDone, MaskInv, SampleInv, Aliased
  <1>3. CASE NextReturns \/ UNCHANGED vars
    <2>1. /\ UNCHANGED <<initVars, seen, origin, now, given>>
          /\ (emitted \cup buf)' = emitted \cup buf /\ Aliased
          /\ status' # status => status = "batch" /\ status' = "idle"
      BY <1>3 DEF NextReturns, vars, Aliased
    <2>2. \A i : Out(i)' = Out(i)
      BY <2>1 DEF Out, Aliased
    <2> QED
      BY <2>1, <2>2 DEF MaskInv
  <1>4. ASSUME NEW t \in Times, NextBatch(t) PROVE MaskInv'
    <2> DEFINE delta == IF origin = NoOrigin THEN 0 ELSE t - origin
               shift == delta \div Step
    <2>0. delta \in Int
      BY DEF TypeOK, Times, NoOrigin
    <2>1. /\ UNCHANGED <<initVars, emitted, buf, given>> /\ status = "idle" /\ Aliased
          /\ ~(delta < 0) /\ delta % Step = 0 /\ origin' = t /\ now' = t
          /\ seen' = [o \in DOMAIN seen |-> ShiftRight(seen[o], shift)]
      BY <1>4 DEF NextBatch, Aliased
    <2>2. delta \in Nat /\ shift \in Nat /\ delta = Step * shift /\ shift = delta \div Step
      BY <2>0, <2>1, DivNat, DivExact
    <2>a. (origin = NoOrigin => delta = 0) /\ (origin # NoOrigin => delta = t - origin)
      OBVIOUS
    <2> HIDE DEF delta, shift
    <2>3. \A i : Out(i)' = Out(i)
      BY <2>1 DEF Out, Aliased
    <2>4. t - t = 0 /\ 0 % Step = 0 /\ 0 \div Step = 0 /\ t \in Int /\ t >= t
      BY StepAssumption DEF Times
    <2>5. CASE origin = NoOrigin
      <3>1. emitted \cup buf = {} /\ \A o \in DOMAIN seen' : seen'[o] = {}
        <4>1. emitted \cup buf = {} /\ \A o \in DOMAIN seen : seen[o] = {}
          BY <2>1, <2>5 DEF MaskInv
        <4> QED
          BY <2>1, <4>1 DEF ShiftRight
      <3>2. DOMAIN seen' = DOMAIN series' /\ (emitted \cup buf)' = {}
        BY <2>1, <3>1 DEF MaskInv
      <3>3. /\ origin' \in Times /\ now' >= origin' /\ (now' - origin') % Step = 0
            /\ (now' - origin') \div Step < Window
        BY <1>4, <2>1, <2>4, WindowAssumption
      <3> QED
        BY <3>1, <3>2, <3>3 DEF MaskInv
    <2>6. CASE origin # NoOrigin
      <3>1. delta = t - origin /\ origin \in Int /\ t >= origin /\ origin' # NoOrigin
        BY <2>1, <2>2, <2>6, <2>a DEF TypeOK, Times, NoOrigin
      <3>2. ASSUME NEW x \in emitted \cup buf, x.t >= t
            PROVE  (x.t - t) % Step = 0 /\ (x.t - t) \div Step \in seen'[x.out]
        <4>1. x.t \in Int /\ x.t >= origin /\ x.out \in DOMAIN seen
          <5>1. x.t \in Int
            BY DEF TypeOK, Samples, Times
          <5>2. x.out \in DOMAIN series
            BY <2>1, OutSound, Zenon DEF SampleInv
          <5> QED
            BY <2>1, <2>4, <3>1, <3>2, <5>1, <5>2 DEF MaskInv
        <4>2. (x.t - origin) % Step = 0 /\ (x.t - origin) \div Step \in seen[x.out]
          BY <2>1, <4>1 DEF MaskInv
        <4>3. x.t - t = (x.t - origin) - delta /\ x.t - origin \in Int /\ x.t - t \in Nat
          BY <2>4, <3>1, <3>2, <4>1
        <4>4. (x.t - t) % Step = 0 /\ (x.t - t) \div Step = ((x.t - origin) \div Step) - shift
          BY <2>1, <2>2, <4>2, <4>3, DivShift
        <4>5. (x.t - origin) \div Step >= shift /\ (x.t - origin) \div Step \in Int
          <5>1. (x.t - t) \div Step \in Nat /\ (x.t - origin) \div Step \in Int
            BY <4>2, <4>3, DivNat, DivExact
          <5> QED
            BY <2>2, <4>4, <5>1
        <4> QED
          BY <2>1, <4>1, <4>2, <4>4, <4>5 DEF ShiftRight
      <3>3. ASSUME NEW o \in DOMAIN seen', NEW b \in seen'[o]
            PROVE  b \in Nat /\ \E g \in given : Out(g[1]) = o /\ g[2] = t + Step * b
        <4>1. PICK c \in seen[o] : c >= shift /\ b = c - shift /\ o \in DOMAIN seen
          BY <2>1, <3>3 DEF ShiftRight
        <4>2. c \in Nat /\ \E g \in given : Out(g[1]) = o /\ g[2] = origin + Step * c
          BY <2>1, <4>1 DEF MaskInv
        <4>3. origin + Step * c = t + Step * b
          <5>1. Step * (c - shift) = Step * c - Step * shift
            BY <2>2, <4>2, StepAssumption
          <5> QED
            BY <2>2, <2>4, <3>1, <4>1, <4>2, <5>1, StepAssumption
        <4> QED
          BY <2>2, <4>1, <4>2, <4>3
      <3>4. DOMAIN seen' = DOMAIN series'
        BY <2>1 DEF MaskInv
      <3>5. /\ origin' \in Times /\ now' >= origin' /\ (now' - origin') % Step = 0
            /\ (now' - origin') \div Step < Window
        BY <1>4, <2>1, <2>4, WindowAssumption
      <3>6. \A x \in (emitted \cup buf)' : x.t >= origin' =>
              (x.t - origin') % Step = 0 /\ (x.t - origin') \div Step \in seen'[x.out]
        BY <2>1, <3>2
      <3>7. \A o \in DOMAIN seen' : \A b \in seen'[o] :
              b \in Nat /\ \E g \in given' : Out(g[1])' = o /\ g[2] = origin' + Step * b
        BY <2>1, <2>3, <3>3
      <3> QED
        BY <3>1, <3>4, <3>5, <3>6, <3>7 DEF MaskInv
    <2> QED
      BY <2>5, <2>6
  <1>5. ASSUME NEW t \in Times, NextVector(t) PROVE MaskInv'
    <2>1. /\ UNCHANGED <<initVars, seen, origin, buf, emitted, given, status>> /\ now' = t
          /\ status = "batch" /\ Aliased
          /\ ~(t - origin < 0) /\ (t - origin) % Step = 0 /\ ~((t - origin) \div Step >= Window)
      BY <1>5 DEF NextVector, Aliased
    <2>2. \A i : Out(i)' = Out(i)
      BY <2>1 DEF Out, Aliased
    <2>3. t >= origin /\ (t - origin) \div Step < Window
      <3>1. t \in Int /\ origin \in Int
        BY <2>1 DEF MaskInv, Times
      <3> QED
        BY <2>1, <3>1, StepAssumption, WindowAssumption
    <2> QED
      BY <2>1, <2>2, <2>3 DEF MaskInv
  <1>6. ASSUME NEW id \in DOMAIN input, NextSample(id) PROVE MaskInv'
    <2> DEFINE bit == (now - origin) \div Step
    <2>1. /\ UNCHANGED <<initVars, origin, now, emitted>> /\ status = "batch" /\ Aliased
          /\ given' = given \cup {<<id, now>>}
          /\ seen' = [seen EXCEPT ![Out(id)] = @ \cup {bit}]
          /\ buf' = buf \cup {[in |-> id, out |-> Out(id), t |-> now]} /\ UNCHANGED status
      BY <1>6 DEF NextSample, Aliased, Out
    <2>2. \A i : Out(i)' = Out(i)
      BY <2>1 DEF Out, Aliased
    <2>3. /\ now \in Int /\ origin \in Int /\ now - origin \in Nat
          /\ (now - origin) % Step = 0 /\ origin # NoOrigin
      BY <2>1 DEF MaskInv, TypeOK, Times, NoOrigin
    <2>4. bit \in Nat /\ now = origin + Step * bit
      BY <2>3, DivExact, StepAssumption
    <2>5. \A o \in DOMAIN seen : /\ seen[o] \subseteq seen'[o]
                                 /\ seen'[o] \subseteq seen[o] \cup {bit}
                                 /\ o # Out(id) => seen'[o] = seen[o]
      BY <2>1
    <2>6. Out(id) \in DOMAIN seen /\ bit \in seen'[Out(id)] /\ DOMAIN seen' = DOMAIN seen
      <3>1. Out(id) \in DOMAIN series
        BY <2>1, OutSound DEF SampleInv
      <3> QED
        BY <2>1, <3>1 DEF MaskInv
    <2> HIDE DEF bit
    <2>7. ASSUME NEW x \in (emitted \cup buf)', x.t >= origin
          PROVE  (x.t - origin) % Step = 0 /\ (x.t - origin) \div Step \in seen'[x.out]
      <3>1. CASE x \in emitted \cup buf
        <4>1. x.out \in DOMAIN seen
          BY <2>1, <3>1, OutSound, Zenon DEF SampleInv, MaskInv
        <4> QED
          BY <2>1, <2>5, <2>7, <3>1, <4>1 DEF MaskInv
      <3>2. CASE x = [in |-> id, out |-> Out(id), t |-> now]
        BY <2>3, <2>6, <3>2 DEF bit
      <3> QED
        BY <2>1, <3>1, <3>2
    <2>8. ASSUME NEW o \in DOMAIN seen', NEW b \in seen'[o]
          PROVE  b \in Nat /\ \E g \in given' : Out(g[1]) = o /\ g[2] = origin + Step * b
      <3>1. CASE b \in seen[o]
        BY <2>1, <2>6, <3>1, Zenon DEF MaskInv
      <3>2. CASE b = bit /\ o = Out(id)
        <4> DEFINE g == <<id, now>>
        <4>1. g \in given' /\ g[1] = id /\ g[2] = now
          BY <2>1
        <4> QED
          BY <2>4, <3>2, <4>1
      <3> QED
        BY <2>5, <2>6, <3>1, <3>2
    <2>9. DOMAIN seen' = DOMAIN series' /\ origin' # NoOrigin
      BY <2>1, <2>3, <2>6 DEF MaskInv
    <2>10. /\ origin' \in Times /\ now' >= origin' /\ (now' - origin') % Step = 0
           /\ (now' - origin') \div Step < Window
      BY <2>1 DEF MaskInv
    <2>11. \A x \in (emitted \cup buf)' : x.t >= origin' =>
             (x.t - origin') % Step = 0 /\ (x.t - origin') \div Step \in seen'[x.out]
      BY <2>1, <2>7
    <2>12. \A o \in DOMAIN seen' : \A b \in seen'[o] :
             b \in Nat /\ \E g \in given' : Out(g[1])' = o /\ g[2] = origin' + Step * b
      BY <2>1, <2>2, <2>8
    <2> QED
      BY <2>9, <2>10, <2>11, <2>12 DEF MaskInv
  <1> QED
    BY <1>1, <1>2, <1>3, <1>4, <1>5, <1>6 DEF Next

(* A sample that passes the check has no twin among those passed before. *)
LEMMA NoDuplicatesStep == IInv /\ [Next]_vars => NoDuplicates'
  <1> SUFFICES ASSUME IInv, [Next]_vars PROVE NoDuplicates'
    OBVIOUS
  <1> USE DEF initVars
  <1>1. CASE UNCHANGED input /\ (emitted \cup buf)' = emitted \cup buf
    BY <1>1 DEF IInv, NoDuplicates
  <1>2. ASSUME NEW id \in DOMAIN input, NextSample(id), buf' # buf PROVE NoDuplicates'
    <2> DEFINE new == [in |-> id, out |-> Out(id), t |-> now]
               bit == (now - origin) \div Step
    <2>1. /\ UNCHANGED <<initVars, emitted>> /\ status = "batch"
          /\ buf' = buf \cup {new} /\ <<id, now>> \notin given
          /\ Aliased => bit \notin seen[Out(id)]
      BY <1>2, Zenon DEF NextSample, Out
    <2>2. pos = Len(input) /\ TypeOK /\ RemapInv
      BY <2>1, Zenon DEF IInv, SampleInv
    <2>3. ASSUME NEW x \in emitted \cup buf, input[x.in] = input[id], x.t = now PROVE FALSE
      <3>1. x.in \in DOMAIN input /\ x.out = Out(x.in) /\ <<x.in, x.t>> \in given
        BY DEF IInv, SampleInv
      <3>2. CASE Aliased
        <4>1. Out(x.in) = Out(id)
          <5>1. /\ Out(x.in) \in DOMAIN series /\ series[Out(x.in)] = input[x.in]
                /\ Out(id) \in DOMAIN series /\ series[Out(id)] = input[id]
            BY <2>2, <3>1, OutSound
          <5>2. IsInjective(series)
            BY <2>2, <3>2 DEF RemapInv
          <5> QED
            BY <2>3, <5>1, <5>2 DEF IsInjective
        <4>2. x.t >= origin /\ bit \in seen[x.out]
          BY <2>1, <2>3, <3>2 DEF IInv, MaskInv
        <4> QED
          BY <2>1, <3>1, <3>2, <4>1, <4>2
      <3>3. CASE ~Aliased
        <4>1. id \in 1..pos /\ x.in \in 1..pos
          BY <2>2, <3>1, LenProperties DEF TypeOK
        <4> QED
          BY <2>1, <2>2, <2>3, <3>1, <3>3, <4>1 DEF RemapInv
      <3> QED
        BY <3>2, <3>3
    <2>4. new.in = id /\ new.t = now /\ (emitted \cup buf)' = (emitted \cup buf) \cup {new}
      BY <2>1, Zenon
    <2> HIDE DEF new
    <2>5. \A x, y \in emitted \cup buf : x # y => ~(input[x.in] = input[y.in] /\ x.t = y.t)
      BY DEF IInv, NoDuplicates
    <2>6. \A x \in emitted \cup buf : ~(input[x.in] = input[new.in] /\ x.t = new.t)
      BY <2>3, <2>4
    <2>7. input' = input
      BY <2>1
    <2> QED
      BY <2>4, <2>5, <2>6, <2>7 DEF NoDuplicates
  <1> QED
    BY <1>1, <1>2, Zenon DEF Next, InitLoop, InitDone, ChildFails, NextReturns, NextBatch, NextVector,
       NextSample, vars

(* A set bit stands for a sample of another series with the same labels. *)
LEMMA AlarmStep == IInv /\ [Next]_vars => AlarmIsTrue'
  <1> SUFFICES ASSUME IInv, [Next]_vars, status' = "duplicate" PROVE AlarmIsTrue'
    BY DEF AlarmIsTrue
  <1> USE DEF initVars
  <1>1. CASE status = "duplicate"
    BY <1>1, Zenon DEF IInv, AlarmIsTrue, Next, InitLoop, InitDone, ChildFails, NextReturns, NextBatch,
       NextVector, NextSample, vars
  <1>2. ASSUME NEW id \in DOMAIN input, NextSample(id), status # "duplicate" PROVE AlarmIsTrue'
    <2> DEFINE bit == (now - origin) \div Step
    <2>1. /\ UNCHANGED initVars /\ status = "batch" /\ Aliased /\ bit \in seen[Out(id)]
          /\ given' = given \cup {<<id, now>>} /\ <<id, now>> \notin given
      BY <1>2, Zenon DEF NextSample, Out
    <2>2. pos = Len(input) /\ TypeOK /\ RemapInv
      BY <2>1, Zenon DEF IInv, SampleInv
    <2>3. Out(id) \in DOMAIN seen /\ series[Out(id)] = input[id]
      BY <2>1, <2>2, OutSound, Zenon DEF IInv, MaskInv
    <2>4. now = origin + Step * bit
      <3>1. now - origin \in Int /\ (now - origin) % Step = 0 /\ now \in Int /\ origin \in Int
        <4>1. origin \in Times /\ (now - origin) % Step = 0
          BY <2>1, Zenon DEF IInv, MaskInv
        <4>2. now \in Times
          BY <2>2 DEF TypeOK
        <4> QED
          BY <4>1, <4>2 DEF Times
      <3>2. now - origin = Step * bit /\ bit \in Int
        BY <3>1, DivExact
      <3> HIDE DEF bit
      <3> QED
        BY <3>1, <3>2, StepAssumption
    <2>5. PICK g \in given : Out(g[1]) = Out(id) /\ g[2] = now
      <3>1. \A o \in DOMAIN seen : \A b \in seen[o] :
              \E g \in given : Out(g[1]) = o /\ g[2] = origin + Step * b
        BY <2>1 DEF IInv, MaskInv
      <3> QED
        BY <2>1, <2>3, <2>4, <3>1
    <2>6. input[g[1]] = input[id]
      BY <2>2, <2>3, <2>5, OutSound DEF IInv, SampleInv
    <2>7. g = <<g[1], g[2]>>
      <3>1. given \subseteq (1..MaxSeries) \X Times
        BY <2>2 DEF TypeOK
      <3> QED
        BY <3>1
    <2> DEFINE h == <<id, now>>
    <2>8. h \in given' /\ h[1] = id /\ h[2] = now /\ g \in given' /\ g[1] # id
      BY <2>1, <2>5, <2>7
    <2> QED
      BY <2>1, <2>5, <2>6, <2>8, Zenon DEF AlarmIsTrue
  <1> QED
    BY <1>1, <1>2 DEF Next, InitLoop, InitDone, ChildFails, NextReturns, NextBatch, NextVector,
       vars

(* The inductive invariant of the duplicate label check. *)
THEOREM Invariance == Spec => []IInv
  <1>1. Init => IInv
    <2> SUFFICES ASSUME Init PROVE IInv
      OBVIOUS
    <2>1. input \in Seq(Labels) /\ Len(input) \in Nat /\ Len(input) <= MaxSeries
      BY BoundsAssumption, LenProperties, IsASeq DEF Init
    <2>2. TypeOK
      BY <2>1, EmptySeq, BoundsAssumption DEF Init, TypeOK, Aliased, Times
    <2>3. RemapInv
      BY DEF Init, RemapInv, Aliased
    <2>4. SampleInv /\ MaskInv
      BY DEF Init, SampleInv, MaskInv
    <2>5. NoDuplicates /\ AlarmIsTrue
      BY DEF Init, NoDuplicates, AlarmIsTrue
    <2> QED
      BY <2>2, <2>3, <2>4, <2>5 DEF IInv
  <1>2. IInv /\ [Next]_vars => IInv'
    <2> SUFFICES ASSUME IInv, [Next]_vars PROVE IInv'
      OBVIOUS
    <2>1. RemapInv'
      <3>1. CASE InitLoop
        BY <3>1, RemapStep DEF IInv
      <3>2. CASE UNCHANGED initVars
        BY <3>2, RemapKept DEF IInv
      <3> QED
        BY <3>1, <3>2, Zenon DEF Next, InitDone, ChildFails, NextReturns, NextBatch, NextVector,
           NextSample, vars
    <2> QED
      BY <2>1, TypeStep, SampleStep, MaskStep, NoDuplicatesStep, AlarmStep DEF IInv
  <1> QED
    BY <1>1, <1>2, PTL DEF Spec

(* The fields of the operator keep their types; in particular no shift and no  *)
(* sample puts a bit outside the width of a mask (Next).                       *)
THEOREM TypeCorrect == Spec => []TypeOK
  BY Invariance, PTL DEF IInv

(* No caller gets two samples with equal labels and timestamp. *)
THEOREM NoDuplicatesPass == Spec => []NoDuplicates
  BY Invariance, PTL DEF IInv

(* ErrDuplicateLabelSet is never a false alarm. *)
THEOREM AlarmsAreTrue == Spec => []AlarmIsTrue
  BY Invariance, PTL DEF IInv

(* The labels of a sample survive the remapping of series IDs. *)
THEOREM RemappingIsSound == Spec => []RemapSound
  <1>1. IInv => RemapSound
    <2> SUFFICES ASSUME IInv PROVE RemapSound
      OBVIOUS
    <2>1. \A x \in emitted \cup buf : series[x.out] = input[x.in]
      BY OutSound, Zenon DEF IInv, SampleInv
    <2>2. status \in {"idle", "batch"} => IsInjective(series)
      <3>1. CASE Aliased
        BY <3>1 DEF IInv, RemapInv
      <3>2. CASE ~Aliased /\ status \in {"idle", "batch"}
        <4>1. DOMAIN input = 1..pos /\ series = input
          BY <3>2, LenProperties DEF IInv, SampleInv, RemapInv, TypeOK
        <4> QED
          BY <3>2, <4>1 DEF IInv, RemapInv, IsInjective
      <3> QED
        BY <3>1, <3>2
    <2> QED
      BY <2>1, <2>2 DEF RemapSound
  <1> QED
    BY Invariance, <1>1, PTL
=============================================================================
