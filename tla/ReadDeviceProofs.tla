-------------------------- MODULE ReadDeviceProofs --------------------------
(***************************************************************************)
(* What holds of ReadDevice for all devices, models, retry counts and      *)
(* chunk sizes.  The steps of the argument: the block starts increase;     *)
(* AddDataset keeps the list a numbered prefix; every action keeps IInv;   *)
(* the stated properties follow from IInv.                                 *)
(***************************************************************************)
EXTENDS ReadDevice, LeastElement

-----------------------------------------------------------------------------
\* Facts about the constants

\* Scan!... instantiates SunspecDevice anew; its operators are the same.
LEMMA ScanOperators ==
    ASSUME NEW d, NEW o
    PROVE  /\ Scan!BlockAt(d, o) = BlockAt(d, o)
           /\ Scan!Readable(d, o, 2) = Readable(d, o, 2)
           /\ Scan!Header(d, o) = Header(d, o)
           /\ Scan!IsEndMarker(Header(d, o)) = IsEndMarker(Header(d, o))
           /\ Scan!Signature = Signature
           /\ Scan!Windows = Windows
  BY DEF Scan!BlockAt, BlockAt, Scan!Readable, Readable, Scan!Header, Header,
         Scan!IsEndMarker, IsEndMarker, Scan!MaxWord, MaxWord, Scan!Signature, Signature,
         Scan!Windows, Windows

\* Words are natural numbers; cited instead of the definition, an interval.
LEMMA WordFacts ==
    /\ \A w : w \in Word <=> w \in Nat /\ w <= MaxWord
    /\ MaxWord \in Nat
<1>1. MaxWord \in Nat
  BY DEF MaxWord
<1> QED
  BY <1>1 DEF Word

\* The numeric parameters, without the devices.
LEMMA ParameterFacts ==
    /\ Retries \in Nat /\ MaxRead \in Nat \ {0} /\ RegsSize \in Nat
    /\ \A d \in KnownDids : d \in Word /\ d # 0
  BY ConstantsAssumption

\* A device has words as register contents and block starts that are offsets.
LEMMA DeviceFacts ==
    ASSUME NEW d \in Devices
    PROVE  /\ DOMAIN d.mem \subseteq Nat
           /\ \A o \in DOMAIN d.mem : d.mem[o] \in Word
           /\ Len(d.start) \in Nat \ {0}
           /\ \A k \in 1 .. Len(d.start) : d.start[k] \in Nat
           /\ d.start[1] = 2
           /\ IsChain(d)
           /\ FitsBuffer(d, RegsSize)
           /\ RegsSize \in Nat /\ RegsSize >= 2
           /\ \A w \in Windows : d.window[w] # <<>> =>
                 d.window[w][1] \in Word /\ d.window[w][2] \in Word
<1>1. IsDevice(d, RegsSize)
  BY ConstantsAssumption
<1>2. d.start \in Seq(Nat) /\ d.start # <<>> /\ d.start[1] = 2
  BY <1>1 DEF IsDevice, IsChain
<1>3. Len(d.start) \in Nat \ {0} /\ \A k \in 1 .. Len(d.start) : d.start[k] \in Nat
  BY <1>2
<1>4. \A w \in Windows : d.window[w] # <<>> =>
         d.window[w][1] \in Word /\ d.window[w][2] \in Word
  BY <1>1 DEF IsDevice
<1> QED
  BY <1>1, <1>2, <1>3, <1>4, ConstantsAssumption DEF IsDevice, FitsBuffer

\* A readable header is two words.
LEMMA HeaderFacts ==
    ASSUME NEW d \in Devices, NEW o \in Nat, Readable(d, o, 2)
    PROVE  /\ o \in DOMAIN d.mem /\ o + 1 \in DOMAIN d.mem
           /\ Header(d, o).did = d.mem[o] /\ Header(d, o).len = d.mem[o + 1]
           /\ Header(d, o).did \in Word /\ Header(d, o).len \in Word
  BY DeviceFacts DEF Readable, Header

\* The block that starts at start[k] continues the chain unless it is the last.
LEMMA ChainStep ==
    ASSUME NEW d \in Devices, NEW k \in 1 .. Len(d.start)
    PROVE  /\ k < Len(d.start) <=> Continues(d, d.start[k])
           /\ k < Len(d.start) =>
                /\ d.start[k + 1] = d.start[k] + Header(d, d.start[k]).len + 2
                /\ Header(d, d.start[k]).len \in Nat
                /\ d.start[k] < d.start[k + 1]
<1>1. ASSUME k < Len(d.start)
      PROVE  /\ Continues(d, d.start[k])
             /\ d.start[k + 1] = d.start[k] + Header(d, d.start[k]).len + 2
  <2>1. k \in 1 .. Len(d.start) - 1
    BY <1>1, DeviceFacts
  <2> QED
    BY <2>1, DeviceFacts DEF IsChain
<1>2. k = Len(d.start) => ~Continues(d, d.start[k])
  BY DeviceFacts DEF IsChain
<1>3. k < Len(d.start) \/ k = Len(d.start)
  BY DeviceFacts
<1>4. ASSUME k < Len(d.start)
      PROVE  Header(d, d.start[k]).len \in Nat
  <2>1. Readable(d, d.start[k], 2)
    BY <1>1, <1>4 DEF Continues
  <2>2. d.start[k] \in Nat
    BY DeviceFacts
  <2>3. Header(d, d.start[k]).len \in Word
    BY <2>1, <2>2, HeaderFacts
  <2> QED
    BY <2>3, WordFacts
<1>5. k < Len(d.start) => d.start[k] < d.start[k + 1]
  BY <1>1, <1>4, DeviceFacts
<1> QED
  BY <1>1, <1>2, <1>3, <1>4, <1>5

\* Blocks lie in the order of the chain.
LEMMA StartIncreasing ==
    ASSUME NEW d \in Devices,
           NEW j \in 1 .. Len(d.start), NEW k \in 1 .. Len(d.start), j < k
    PROVE  d.start[j] < d.start[k]
<1> DEFINE T == {n \in 1 .. Len(d.start) : j < n /\ ~(d.start[j] < d.start[n])}
<1>1. SUFFICES ASSUME T # {} PROVE FALSE
  OBVIOUS
<1>2. T \in SUBSET Nat
  OBVIOUS
<1>3. PICK n \in T : \A m \in T : n <= m
  BY <1>1, <1>2, NatLeast
<1>4. n \in 2 .. Len(d.start) /\ n - 1 \in 1 .. Len(d.start) /\ n - 1 < Len(d.start)
  BY DeviceFacts
<1>5. d.start[n - 1] < d.start[n]
  <2>1. d.start[n - 1] < d.start[(n - 1) + 1]
    BY <1>4, ChainStep
  <2> QED
    BY <2>1, <1>4
<1>6. CASE j = n - 1
  BY <1>5, <1>6
<1>7. CASE j < n - 1
  <2>1. n - 1 \notin T
    BY <1>3, <1>4
  <2>2. d.start[j] < d.start[n - 1]
    BY <2>1, <1>4, <1>7
  <2> QED
    BY <2>2, <1>5, <1>4, DeviceFacts
<1> QED
  BY <1>4, <1>6, <1>7

-----------------------------------------------------------------------------
\* Facts about suns_model_get_did_index() and suns_device_add_dataset()

\* LastWithDid is the last position of a did, 0 if there is none.
LEMMA LastWithDidFacts ==
    ASSUME NEW ds \in Seq(Dataset), NEW d \in KnownDids
    PROVE  /\ LastWithDid(ds, d) \in 0 .. Len(ds)
           /\ LastWithDid(ds, d) = 0 => \A n \in 1 .. Len(ds) : ds[n].did # d
           /\ LastWithDid(ds, d) # 0 =>
                 /\ ds[LastWithDid(ds, d)].did = d
                 /\ \A n \in 1 .. Len(ds) : ds[n].did = d
                                            => n <= LastWithDid(ds, d)
<1> DEFINE same == {n \in 1 .. Len(ds) : ds[n].did = d}
           last == CHOOSE n \in same : \A m \in same : m <= n
<1>1. Len(ds) \in Nat /\ (ds # <<>> => Len(ds) \in 1 .. Len(ds))
  OBVIOUS
<1>2. CASE ds # <<>> /\ ds[Len(ds)].did = d
  <2>1. LastWithDid(ds, d) = Len(ds)
    BY <1>2 DEF LastWithDid
  <2> QED
    BY <2>1, <1>1, <1>2
<1>3. CASE ~(ds # <<>> /\ ds[Len(ds)].did = d) /\ same = {}
  <2>1. LastWithDid(ds, d) = 0
    BY <1>3 DEF LastWithDid
  <2> QED
    BY <2>1, <1>1, <1>3
<1>4. CASE ~(ds # <<>> /\ ds[Len(ds)].did = d) /\ same # {}
  <2>1. LastWithDid(ds, d) = last
    BY <1>4 DEF LastWithDid
  <2>2. \E n \in same : \A m \in same : m <= n
    <3>1. same \in SUBSET (0 .. Len(ds))
      OBVIOUS
    <3> HIDE DEF same
    <3> QED
      BY <1>1, <1>4, <3>1, NatGreatest
  <2>3. last \in same /\ \A m \in same : m <= last
    <3> HIDE DEF same
    <3> QED
      BY <2>2
  <2> HIDE DEF last
  <2> QED
    BY <2>1, <2>3, <1>1
<1> QED
  BY <1>2, <1>3, <1>4

\* Append, element by element.
LEMMA AppendFacts ==
    ASSUME NEW S, NEW s \in Seq(S), NEW e \in S
    PROVE  /\ Append(s, e) \in Seq(S)
           /\ Len(Append(s, e)) = Len(s) + 1
           /\ \A n \in 1 .. Len(s) : Append(s, e)[n] = s[n]
           /\ Append(s, e)[Len(s) + 1] = e
  OBVIOUS

\* The index suns_model_get_did_index() gives the new dataset.
NewIndex(ds, d) ==
    LET last == LastWithDid(ds, d)
    IN  IF last = 0 THEN 0
        ELSE IF ds[last].index = 0 THEN 2 ELSE ds[last].index + 1

\* What AddDataset returns: one dataset more, the old ones unchanged but for
\* the index of the one numbered 1 with it.
LEMMA AddDatasetFacts ==
    ASSUME NEW ds \in Seq(Dataset), NEW new \in Dataset
    PROVE  /\ AddDataset(ds, new) \in Seq(Dataset)
           /\ Len(AddDataset(ds, new)) = Len(ds) + 1
           /\ \A n \in 1 .. Len(ds) :
                 AddDataset(ds, new)[n] =
                    IF n = LastWithDid(ds, new.did) /\ ds[n].index = 0
                    THEN [ds[n] EXCEPT !.index = 1] ELSE ds[n]
           /\ AddDataset(ds, new)[Len(ds) + 1] =
                 [new EXCEPT !.index = NewIndex(ds, new.did)]
<1> DEFINE last == LastWithDid(ds, new.did)
           sum  == AddDataset(ds, new)
<1>1. new.did \in KnownDids /\ last \in 0 .. Len(ds)
  <2>1. new.did \in KnownDids
    BY DEF Dataset
  <2> QED
    BY <2>1, LastWithDidFacts
<1>2. \A x \in Nat : [new EXCEPT !.index = x] \in Dataset
  BY DEF Dataset
<1>3. ASSUME NEW n \in 1 .. Len(ds)
      PROVE  ds[n] \in Dataset /\ [ds[n] EXCEPT !.index = 1] \in Dataset
                               /\ ds[n].index \in Nat
  <2>1. ds[n] \in Dataset
    OBVIOUS
  <2> QED
    BY <2>1 DEF Dataset
<1>4. CASE last = 0
  <2>1. sum = Append(ds, [new EXCEPT !.index = 0])
    BY <1>4 DEF AddDataset
  <2>2. NewIndex(ds, new.did) = 0 /\ [new EXCEPT !.index = 0] \in Dataset
    BY <1>2, <1>4 DEF NewIndex
  <2> HIDE DEF last, sum
  <2>3. /\ sum \in Seq(Dataset) /\ Len(sum) = Len(ds) + 1
        /\ \A n \in 1 .. Len(ds) : sum[n] = ds[n]
        /\ sum[Len(ds) + 1] = [new EXCEPT !.index = 0]
    BY <2>1, <2>2, AppendFacts
  <2>4. \A n \in 1 .. Len(ds) : n # last
    BY <1>4
  <2> QED
    BY <2>2, <2>3, <2>4 DEF last, sum
<1>5. CASE last # 0 /\ ds[last].index = 0
  <2> DEFINE one == [ds EXCEPT ![last].index = 1]
  <2>1. sum = Append(one, [new EXCEPT !.index = 2])
    BY <1>5 DEF AddDataset
  <2>2. NewIndex(ds, new.did) = 2 /\ [new EXCEPT !.index = 2] \in Dataset
    BY <1>2, <1>5 DEF NewIndex
  <2>3. last \in 1 .. Len(ds)
    BY <1>1, <1>5
  <2> HIDE DEF last, sum
  <2>4. /\ one \in Seq(Dataset) /\ Len(one) = Len(ds)
        /\ \A n \in 1 .. Len(ds) :
              one[n] = IF n = last THEN [ds[n] EXCEPT !.index = 1] ELSE ds[n]
    BY <1>3, <2>3
  <2> HIDE DEF one
  <2>5. /\ sum \in Seq(Dataset) /\ Len(sum) = Len(ds) + 1
        /\ \A n \in 1 .. Len(ds) : sum[n] = one[n]
        /\ sum[Len(ds) + 1] = [new EXCEPT !.index = 2]
    BY <2>1, <2>2, <2>4, AppendFacts
  <2>6. \A n \in 1 .. Len(ds) :
          sum[n] = IF n = last /\ ds[n].index = 0
                   THEN [ds[n] EXCEPT !.index = 1] ELSE ds[n]
    BY <2>4, <2>5, <1>5
  <2> QED
    BY <2>2, <2>5, <2>6 DEF last, sum
<1>6. CASE last # 0 /\ ds[last].index # 0
  <2> DEFINE next == ds[last].index + 1
  <2>1. sum = Append(ds, [new EXCEPT !.index = next])
    BY <1>6 DEF AddDataset
  <2>2. NewIndex(ds, new.did) = next
    BY <1>6 DEF NewIndex
  <2>3. last \in 1 .. Len(ds)
    BY <1>1, <1>6
  <2> HIDE DEF last, sum
  <2>4. next \in Nat
    <3>1. ds[last].index \in Nat
      BY <1>3, <2>3
    <3> QED
      BY <3>1
  <2> HIDE DEF next
  <2>5. [new EXCEPT !.index = next] \in Dataset
    BY <1>2, <2>4
  <2>6. /\ sum \in Seq(Dataset) /\ Len(sum) = Len(ds) + 1
        /\ \A n \in 1 .. Len(ds) : sum[n] = ds[n]
        /\ sum[Len(ds) + 1] = [new EXCEPT !.index = next]
    BY <2>1, <2>5, AppendFacts
  <2>7. \A n \in 1 .. Len(ds) : ~(n = last /\ ds[n].index = 0)
    BY <1>6
  <2> QED
    BY <2>2, <2>6, <2>7 DEF last, sum
<1> QED
  BY <1>4, <1>5, <1>6

\* Numbering survives the addition of a dataset: no index of a repeated did
\* is used twice, however the repeats are spread over the device.
LEMMA AddDatasetNumbered ==
    ASSUME NEW ds \in Seq(Dataset), NEW new \in Dataset, Scan!IsNumbered(ds)
    PROVE  Scan!IsNumbered(AddDataset(ds, new))
<1> DEFINE last == LastWithDid(ds, new.did)
           sum  == AddDataset(ds, new)
           N    == Len(ds)
           Same(s, n)    == {m \in 1 .. Len(s) : s[m].did = s[n].did}
           Earlier(s, n) == {m \in Same(s, n) : m < n}
           Good(s, n) ==
              /\ (s[n].index = 0) <=> (Same(s, n) = {n})
              /\ Earlier(s, n) = {} => s[n].index \in {0, 1}
              /\ \A p \in Earlier(s, n) :
                    (\A m \in Earlier(s, n) : m <= p)
                       => s[n].index = s[p].index + 1
<1>1. N \in Nat /\ new.did \in KnownDids
  BY DEF Dataset
<1>2. \A n \in 1 .. N : ds[n].did \in KnownDids /\ ds[n].index \in Nat
  <2>1. \A n \in 1 .. N : ds[n] \in Dataset
    OBVIOUS
  <2> QED
    BY <2>1 DEF Dataset
<1>3. /\ last \in 0 .. N
      /\ last = 0 => \A n \in 1 .. N : ds[n].did # new.did
      /\ last # 0 => /\ ds[last].did = new.did
                     /\ \A n \in 1 .. N : ds[n].did = new.did => n <= last
  BY <1>1, LastWithDidFacts
<1>4. /\ Len(sum) = N + 1
      /\ \A n \in 1 .. N :
            /\ sum[n].did = ds[n].did
            /\ sum[n].index = IF n = last /\ ds[n].index = 0
                              THEN 1 ELSE ds[n].index
      /\ sum[N + 1].did = new.did
      /\ sum[N + 1].index = NewIndex(ds, new.did)
  <2>1. \A n \in 1 .. N : ds[n] \in Dataset
    OBVIOUS
  <2>2. \A n \in 1 .. N :
           sum[n] = IF n = last /\ ds[n].index = 0
                    THEN [ds[n] EXCEPT !.index = 1] ELSE ds[n]
    BY AddDatasetFacts
  <2>3. Len(sum) = N + 1
        /\ sum[N + 1] = [new EXCEPT !.index = NewIndex(ds, new.did)]
    BY AddDatasetFacts
  <2> HIDE DEF sum
  <2>4. \A n \in 1 .. N :
            /\ sum[n].did = ds[n].did
            /\ sum[n].index = IF n = last /\ ds[n].index = 0
                              THEN 1 ELSE ds[n].index
    BY <2>1, <2>2 DEF Dataset
  <2> QED
    BY <2>3, <2>4 DEF Dataset
<1>5. \A n \in 1 .. N : Good(ds, n)
  BY DEF Scan!IsNumbered
<1>6. NewIndex(ds, new.did) =
         IF last = 0 THEN 0 ELSE IF ds[last].index = 0 THEN 2
                                 ELSE ds[last].index + 1
  BY DEF NewIndex
<1> HIDE DEF last, sum
<1>7. ASSUME NEW n \in 1 .. N, ds[n].did # new.did
      PROVE  Good(sum, n)
  <2>1. n # last /\ sum[n].index = ds[n].index
    BY <1>3, <1>4, <1>7
  <2>2. Same(sum, n) = Same(ds, n) /\ Earlier(sum, n) = Earlier(ds, n)
    BY <1>1, <1>4, <1>7
  <2>3. \A p \in Earlier(ds, n) : sum[p].index = ds[p].index
    BY <1>3, <1>4, <1>7
  <2>4. Good(ds, n)
    BY <1>5
  <2> HIDE DEF Same, Earlier
  <2> QED
    BY <2>1, <2>2, <2>3, <2>4
<1>8. ASSUME NEW n \in 1 .. N, ds[n].did = new.did
      PROVE  Good(sum, n)
  <2>1. last \in 1 .. N /\ n <= last /\ ds[last].did = new.did
    BY <1>3, <1>8
  <2>2. N + 1 \in Same(sum, n) /\ n # N + 1
    BY <1>1, <1>4, <1>8
  <2>3. Earlier(sum, n) = Earlier(ds, n)
    BY <1>1, <1>4
  <2>4. sum[n].index # 0
    <3>1. CASE n = last
      BY <1>4, <3>1
    <3>2. CASE n # last
      <4>1. last \in Same(ds, n)
        BY <1>8, <2>1
      <4>2. ds[n].index # 0
        BY <1>5, <3>2, <4>1
      <4> QED
        BY <1>4, <3>2, <4>2
    <3> QED
      BY <3>1, <3>2
  <2>5. Earlier(sum, n) = {} => sum[n].index \in {0, 1}
    BY <1>4, <1>5, <2>3
  <2>6. ASSUME NEW p \in Earlier(sum, n), \A m \in Earlier(sum, n) : m <= p
        PROVE  sum[n].index = sum[p].index + 1
    <3>1. ds[n].index = ds[p].index + 1
      BY <1>5, <2>3, <2>6
    <3>2. p \in 1 .. N /\ p < n /\ p # last
      BY <1>1, <2>1, <2>3
    <3>3. ds[n].index # 0
      BY <1>2, <3>1, <3>2
    <3> QED
      BY <1>4, <3>1, <3>2, <3>3
  <2> QED
    BY <2>2, <2>3, <2>4, <2>5, <2>6
<1>9. Good(sum, N + 1)
  <2>1. Earlier(sum, N + 1) = {m \in 1 .. N : ds[m].did = new.did}
    BY <1>1, <1>4
  <2>2. CASE last = 0
    <3>1. Earlier(sum, N + 1) = {}
      BY <1>3, <2>1, <2>2
    <3>2. Same(sum, N + 1) = {N + 1}
      BY <1>1, <1>3, <1>4, <2>2
    <3>3. sum[N + 1].index = 0
      BY <1>4, <1>6, <2>2
    <3> QED
      BY <3>1, <3>2, <3>3
  <2>3. CASE last # 0
    <3>1. last \in 1 .. N /\ last \in Earlier(sum, N + 1)
      BY <1>3, <2>1, <2>3
    <3>2. Same(sum, N + 1) # {N + 1} /\ Earlier(sum, N + 1) # {}
      BY <1>1, <3>1
    <3>3. \A m \in Earlier(sum, N + 1) : m <= last
      BY <1>3, <2>1, <2>3
    <3>4. sum[N + 1].index = sum[last].index + 1 /\ sum[N + 1].index # 0
      BY <1>2, <1>4, <1>6, <2>3, <3>1
    <3>5. ASSUME NEW p \in Earlier(sum, N + 1),
                 \A m \in Earlier(sum, N + 1) : m <= p
          PROVE  p = last
      BY <1>1, <2>1, <3>1, <3>3, <3>5
    <3> QED
      BY <3>2, <3>4, <3>5
  <2> QED
    BY <2>2, <2>3
<1>10. \A n \in 1 .. Len(sum) : Good(sum, n)
  <2>1. \A n \in 1 .. Len(sum) : n \in 1 .. N \/ n = N + 1
    BY <1>1, <1>4
  <2> HIDE DEF Good
  <2>2. \A n \in 1 .. N : Good(sum, n)
    BY <1>7, <1>8
  <2> QED
    BY <1>9, <2>1, <2>2
<1> QED
  BY <1>10 DEF sum, Scan!IsNumbered

-----------------------------------------------------------------------------
\* Facts about one block

\* Which blocks lie below the end of block k.
LEMMA BelowNextStart ==
    ASSUME NEW d \in Devices, NEW k \in 1 .. Len(d.start), k < Len(d.start)
    PROVE  \A j \in 1 .. Len(d.start) :
              d.start[j] < d.start[k + 1] <=> d.start[j] < d.start[k] \/ j = k
<1>1. k + 1 \in 1 .. Len(d.start) /\ Len(d.start) \in Nat
  BY DeviceFacts
<1>2. SUFFICES ASSUME NEW j \in 1 .. Len(d.start)
      PROVE  d.start[j] < d.start[k + 1] <=> d.start[j] < d.start[k] \/ j = k
  OBVIOUS
<1>3. d.start[j] \in Nat /\ d.start[k] \in Nat /\ d.start[k + 1] \in Nat
  BY <1>1, DeviceFacts
<1>4. d.start[k] < d.start[k + 1]
  BY <1>1, StartIncreasing
<1>5. CASE j = k
  BY <1>4, <1>5
<1>6. CASE j < k
  <2>1. d.start[j] < d.start[k]
    BY <1>6, StartIncreasing
  <2> QED
    BY <1>3, <1>4, <2>1
<1>7. CASE j > k
  <2>1. j = k + 1 \/ k + 1 < j
    BY <1>1, <1>7
  <2>2. d.start[k + 1] <= d.start[j]
    <3>1. CASE j = k + 1
      BY <3>1, <1>3
    <3>2. CASE k + 1 < j
      BY <1>1, <1>3, <3>2, StartIncreasing
    <3> QED
      BY <2>1, <3>1, <3>2
  <2> QED
    BY <1>3, <1>4, <1>7, <2>2
<1> QED
  BY <1>1, <1>5, <1>6, <1>7

\* Passing a block of an unknown model leaves nothing out.
LEMMA BlockSkipped ==
    ASSUME NEW d \in Devices, NEW k \in 1 .. Len(d.start), k < Len(d.start),
           NEW ds \in Seq(Dataset), Scan!HoldsBlocksBelow(ds, d, d.start[k]),
           Scan!DidOf(d, k) \notin KnownDids
    PROVE  Scan!HoldsBlocksBelow(ds, d, d.start[k + 1])
<1>1. \A j \in 1 .. Len(d.start) :
         d.start[j] < d.start[k + 1] <=> d.start[j] < d.start[k] \/ j = k
  BY BelowNextStart
<1>2. \A j \in Scan!Blocks(d) : j \in 1 .. Len(d.start)
  BY DeviceFacts DEF Scan!Blocks
<1> QED
  BY <1>1, <1>2 DEF Scan!HoldsBlocksBelow

\* Adding a dataset with the words of block k holds the blocks up to it.
LEMMA BlockAdded ==
    ASSUME NEW d \in Devices, NEW k \in 1 .. Len(d.start), k < Len(d.start),
           NEW ds \in Seq(Dataset), Scan!HoldsBlocksBelow(ds, d, d.start[k]),
           NEW new \in Dataset,
           new.at = d.start[k], new.did = Scan!DidOf(d, k),
           new.words = BlockAt(d, d.start[k])
    PROVE  Scan!HoldsBlocksBelow(AddDataset(ds, new), d, d.start[k + 1])
<1> DEFINE sum == AddDataset(ds, new)
           N   == Len(ds)
<1>1. \A j \in 1 .. Len(d.start) :
         d.start[j] < d.start[k + 1] <=> d.start[j] < d.start[k] \/ j = k
  BY BelowNextStart
<1>2. /\ \A j \in Scan!Blocks(d) : j \in 1 .. Len(d.start)
      /\ k \in Scan!Blocks(d)
  BY DeviceFacts DEF Scan!Blocks
<1>3. new.did \in KnownDids /\ N \in Nat
  BY DEF Dataset
<1>4. /\ Len(sum) = N + 1
      /\ \A n \in 1 .. N : /\ sum[n].at = ds[n].at
                            /\ sum[n].did = ds[n].did
                            /\ sum[n].words = ds[n].words
      /\ sum[N + 1].at = new.at
      /\ sum[N + 1].did = new.did
      /\ sum[N + 1].words = new.words
  <2>1. \A n \in 1 .. N : ds[n] \in Dataset
    OBVIOUS
  <2>2. /\ Len(sum) = N + 1
        /\ \A n \in 1 .. N :
             sum[n] = IF n = LastWithDid(ds, new.did) /\ ds[n].index = 0
                      THEN [ds[n] EXCEPT !.index = 1] ELSE ds[n]
        /\ sum[N + 1] = [new EXCEPT !.index = NewIndex(ds, new.did)]
    BY AddDatasetFacts
  <2> HIDE DEF sum
  <2>3. \A n \in 1 .. N : /\ sum[n].at = ds[n].at
                          /\ sum[n].did = ds[n].did
                          /\ sum[n].words = ds[n].words
    BY <2>1, <2>2 DEF Dataset
  <2> QED
    BY <2>2, <2>3 DEF Dataset
<1> HIDE DEF sum
<1>5. \A n \in 1 .. Len(sum) : n \in 1 .. N \/ n = N + 1
  BY <1>3, <1>4
<1>6. ASSUME NEW n \in 1 .. Len(sum)
      PROVE  \E j \in 1 .. Len(d.start) :
                /\ d.start[j] < d.start[k + 1]
                /\ j \in Scan!Blocks(d)
                /\ Scan!DidOf(d, j) \in KnownDids
                /\ sum[n].at = d.start[j]
                /\ sum[n].did = Scan!DidOf(d, j)
                /\ sum[n].words = BlockAt(d, d.start[j])
  <2>1. CASE n \in 1 .. N
    <3>1. PICK j \in 1 .. Len(d.start) :
                /\ d.start[j] < d.start[k]
                /\ j \in Scan!Blocks(d)
                /\ Scan!DidOf(d, j) \in KnownDids
                /\ ds[n].at = d.start[j]
                /\ ds[n].did = Scan!DidOf(d, j)
                /\ ds[n].words = BlockAt(d, d.start[j])
      BY <2>1, ScanOperators DEF Scan!HoldsBlocksBelow
    <3> QED
      BY <1>1, <1>4, <2>1, <3>1
  <2>2. CASE n = N + 1
    BY <1>1, <1>2, <1>3, <1>4, <2>2
  <2> QED
    BY <1>5, <2>1, <2>2
<1>7. ASSUME NEW j \in Scan!Blocks(d),
             d.start[j] < d.start[k + 1], Scan!DidOf(d, j) \in KnownDids
      PROVE  \E n \in 1 .. Len(sum) : sum[n].at = d.start[j]
  <2>1. CASE j = k
    <3>1. N + 1 \in 1 .. Len(sum)
      BY <1>3, <1>4
    <3> QED
      BY <1>4, <2>1, <3>1
  <2>2. CASE d.start[j] < d.start[k]
    <3>1. PICK n \in 1 .. N : ds[n].at = d.start[j]
      BY <1>7, <2>2 DEF Scan!HoldsBlocksBelow
    <3>2. n \in 1 .. Len(sum)
      BY <1>3, <1>4
    <3> QED
      BY <1>4, <3>1, <3>2
  <2> QED
    BY <1>1, <1>2, <1>7, <2>1, <2>2
<1>8. ASSUME NEW m \in 1 .. Len(sum), NEW n \in 1 .. Len(sum), m < n
      PROVE  sum[m].at < sum[n].at
  <2>1. CASE n \in 1 .. N
    <3>1. m \in 1 .. N
      BY <1>3, <1>8, <2>1
    <3>2. ds[m].at < ds[n].at
      BY <1>8, <2>1, <3>1 DEF Scan!HoldsBlocksBelow
    <3> QED
      BY <1>4, <2>1, <3>1, <3>2
  <2>2. CASE n = N + 1
    <3>1. m \in 1 .. N
      BY <1>3, <1>5, <1>8, <2>2
    <3>2. ds[m].at < d.start[k]
      BY <3>1 DEF Scan!HoldsBlocksBelow
    <3> QED
      BY <1>4, <2>2, <3>1, <3>2
  <2> QED
    BY <1>5, <2>1, <2>2
<1> QED
  BY <1>6, <1>7, <1>8, ScanOperators DEF sum, Scan!HoldsBlocksBelow

-----------------------------------------------------------------------------
\* Facts about the register buffer

\* Replacing one value keeps the type of a function.
LEMMA FunctionUpdate ==
    ASSUME NEW D, NEW T, NEW f \in [D -> T], NEW x, NEW v \in T
    PROVE  [f EXCEPT ![x] = v] \in [D -> T]
  OBVIOUS

\* What a read delivers is a possible content of regs[].
LEMMA WordsFitRegisters == \A w \in Word : w \in Register
<1> SUFFICES ASSUME NEW w \in Word PROVE w \in Register
  OBVIOUS
<1>1. w \in Nat /\ w <= MaxWord /\ MaxWord \in Nat
  BY WordFacts
<1>2. Unset \in Int /\ Unset <= w
  BY <1>1 DEF Unset
<1> QED
  BY <1>1, <1>2 DEF Register

\* Reading two registers keeps the type of regs[].
LEMMA TwoRegistersRead ==
    ASSUME NEW r \in Registers, NEW a \in Word, NEW b \in Word
    PROVE  [r EXCEPT ![0] = a, ![1] = b] \in Registers
<1> DEFINE D   == 0 .. RegsSize - 1
           one == [r EXCEPT ![0] = a]
<1>1. a \in Register /\ b \in Register
  BY WordsFitRegisters
<1>2. r \in [D -> Register]
  BY DEF Registers
<1> HIDE DEF D
<1>3. one \in [D -> Register]
  BY <1>1, <1>2, FunctionUpdate
<1>4. [one EXCEPT ![1] = b] \in [D -> Register]
  <2> HIDE DEF one
  <2> QED
    BY <1>1, <1>3, FunctionUpdate
<1> QED
  BY <1>4 DEF D, Registers

-----------------------------------------------------------------------------
\* What has been read when the last chunk of a block arrives

\* The chunk just read closes the block: regs[] holds all of it, the block
\* leads to the next one, and what is decoded are the words of the device.
LEMMA BlockComplete ==
    ASSUME dev \in Devices, IInv, ReadLastChunk
    PROVE  /\ reg_offset' = len + 2
           /\ regs' \in Registers
           /\ model_count \in 1 .. Len(dev.start)
           /\ model_count < Len(dev.start)
           /\ offset = dev.start[model_count]
           /\ offset' = dev.start[model_count + 1]
           /\ did # NULL => /\ did = Scan!DidOf(dev, model_count)
                            /\ did \in KnownDids
                            /\ Decode(offset, regs') =
                                 [did |-> did, index |-> 0, at |-> offset,
                                  words |-> BlockAt(dev, offset)]
                            /\ Decode(offset, regs') \in Dataset
           /\ did = NULL => Scan!DidOf(dev, model_count) \notin KnownDids
<1> DEFINE h == Header(dev, offset)
<1>1. /\ pc = "body" /\ TypeOK /\ PositionInv
      /\ Readable(dev, offset + reg_offset, ReadLen)
      /\ reg_offset' = reg_offset + ReadLen /\ reg_offset' >= len + 2
      /\ offset' = offset + len + 2
  BY DEF IInv, ReadLastChunk, ChunkArrives
<1>2. /\ model_count \in 1 .. Len(dev.start)
      /\ offset = dev.start[model_count]
      /\ Readable(dev, offset, 2)
      /\ ~IsEndMarker(h) /\ h.did # 0 /\ len = h.len
      /\ did = IF h.did \in KnownDids THEN h.did ELSE NULL
      /\ reg_offset < len + 2
      /\ \A j \in 0 .. reg_offset - 1 :
            offset + j \in DOMAIN dev.mem /\ regs[j] = dev.mem[offset + j]
  BY <1>1 DEF PositionInv
<1>3. /\ offset \in Nat /\ len \in Nat /\ reg_offset \in Nat
      /\ regs \in Registers
      /\ MaxRead \in Nat \ {0} /\ RegsSize \in Nat
  BY <1>1, WordFacts, ParameterFacts DEF TypeOK
<1>4. len + 2 <= RegsSize
  BY <1>2, DeviceFacts DEF FitsBuffer
<1>5. /\ ReadLen \in Nat \ {0}
      /\ reg_offset + ReadLen = len + 2
  <2>1. reg_offset < len + 2 /\ reg_offset + ReadLen >= len + 2
    BY <1>1, <1>2
  <2> QED
    BY <1>3, <2>1 DEF ReadLen
<1>6. \A j \in 0 .. len + 1 : offset + j \in DOMAIN dev.mem
  <2>1. \A o \in offset + reg_offset .. offset + len + 1 : o \in DOMAIN dev.mem
    <3>1. offset + reg_offset + ReadLen - 1 = offset + len + 1
      BY <1>3, <1>5
    <3> QED
      BY <1>1, <3>1 DEF Readable
  <2>2. ASSUME NEW j \in 0 .. len + 1 PROVE offset + j \in DOMAIN dev.mem
    <3>1. CASE j < reg_offset
      BY <1>2, <1>3, <3>1
    <3>2. CASE j >= reg_offset
      <4>1. offset + j \in offset + reg_offset .. offset + len + 1
        BY <1>3, <3>2
      <4> QED
        BY <2>1, <4>1
    <3> QED
      BY <1>3, <3>1, <3>2
  <2> QED
    BY <2>2
<1>7. \A o \in DOMAIN dev.mem : dev.mem[o] \in Word /\ dev.mem[o] \in Register
  BY DeviceFacts, WordsFitRegisters
<1>8. /\ DOMAIN regs' = 0 .. RegsSize - 1
      /\ \A j \in 0 .. RegsSize - 1 :
            regs'[j] = IF j \in reg_offset .. len + 1
                       THEN dev.mem[offset + j] ELSE regs[j]
  <2>1. reg_offset + ReadLen - 1 = len + 1
    BY <1>3, <1>5
  <2>2. regs' = [j \in DOMAIN regs |->
                  IF j \in reg_offset .. reg_offset + ReadLen - 1
                  THEN dev.mem[offset + j] ELSE regs[j]]
    BY DEF ReadLastChunk, ChunkArrives
  <2>3. DOMAIN regs = 0 .. RegsSize - 1
    BY <1>3 DEF Registers
  <2> QED
    BY <2>1, <2>2, <2>3
<1>9. \A j \in 0 .. len + 1 : j \in 0 .. RegsSize - 1 /\ regs'[j] = dev.mem[offset + j]
  <2>1. ASSUME NEW j \in 0 .. len + 1
        PROVE  j \in 0 .. RegsSize - 1 /\ regs'[j] = dev.mem[offset + j]
    <3>1. j \in 0 .. RegsSize - 1
      BY <1>3, <1>4
    <3>2. CASE j < reg_offset
      <4>1. j \in 0 .. reg_offset - 1 /\ j \notin reg_offset .. len + 1
        BY <1>3, <3>2
      <4> QED
        BY <1>2, <1>8, <3>1, <4>1
    <3>3. CASE j >= reg_offset
      <4>1. j \in reg_offset .. len + 1
        BY <1>3, <3>3
      <4> QED
        BY <1>8, <3>1, <4>1
    <3> QED
      BY <1>3, <3>1, <3>2, <3>3
  <2> QED
    BY <2>1
<1>10. regs' \in Registers
  <2>1. \A j \in 0 .. RegsSize - 1 : regs'[j] \in Register
    <3>1. \A j \in 0 .. RegsSize - 1 : regs[j] \in Register
      BY <1>3 DEF Registers
    <3>2. ASSUME NEW j \in 0 .. RegsSize - 1
          PROVE  regs'[j] \in Register
      <4>1. CASE j \in reg_offset .. len + 1
        <5>1. j \in 0 .. len + 1
          BY <1>3, <4>1
        <5>2. regs'[j] = dev.mem[offset + j] /\ offset + j \in DOMAIN dev.mem
          BY <1>6, <1>8, <4>1, <5>1
        <5> QED
          BY <1>7, <5>2
      <4>2. CASE j \notin reg_offset .. len + 1
        BY <1>8, <3>1, <4>2
      <4> QED
        BY <4>1, <4>2
    <3> QED
      BY <3>2
  <2>2. regs' = [j \in DOMAIN regs' |-> regs'[j]]
    BY DEF ReadLastChunk, ChunkArrives
  <2> QED
    BY <1>8, <2>1, <2>2 DEF Registers
<1>11. h.did = dev.mem[offset] /\ h.len = dev.mem[offset + 1]
  BY DEF Header
<1>12. Continues(dev, offset)
  <2>1. Readable(dev, offset, h.len + 2)
    <3>1. ASSUME NEW o \in offset .. offset + (h.len + 2) - 1
          PROVE  o \in DOMAIN dev.mem
      <4>1. \A m \in Nat : \A k \in Nat : \A x \in m .. m + (k + 2) - 1 :
               x - m \in 0 .. k + 1 /\ m + (x - m) = x
        OBVIOUS
      <4>2. h.len = len
        BY <1>2
      <4> HIDE DEF h
      <4>3. o - offset \in 0 .. len + 1 /\ offset + (o - offset) = o
        BY <1>3, <3>1, <4>1, <4>2
      <4> QED
        BY <1>6, <4>3
    <3> QED
      BY <3>1 DEF Readable
  <2> QED
    BY <1>2, <2>1 DEF Continues
<1>13. model_count < Len(dev.start) /\ offset' = dev.start[model_count + 1]
  <2>1. model_count < Len(dev.start)
    BY <1>2, <1>12, ChainStep
  <2>2. dev.start[model_count + 1] = offset + h.len + 2
    BY <1>2, <2>1, ChainStep
  <2> QED
    BY <1>1, <1>2, <2>1, <2>2
<1>14. Scan!DidOf(dev, model_count) = h.did
  BY <1>2, ScanOperators DEF Scan!DidOf
<1>15. ASSUME did # NULL
       PROVE  /\ did = h.did /\ did \in KnownDids
              /\ Decode(offset, regs') =
                   [did |-> did, index |-> 0, at |-> offset,
                    words |-> BlockAt(dev, offset)]
              /\ Decode(offset, regs') \in Dataset
  <2>1. did = h.did /\ did \in KnownDids
    BY <1>2, <1>15
  <2>2. regs'[0] = h.did /\ regs'[1] = h.len
    <3>1. 0 \in 0 .. len + 1 /\ 1 \in 0 .. len + 1
      BY <1>3
    <3> QED
      BY <1>3, <1>9, <1>11, <3>1
  <2>3. \A j \in 1 .. len + 2 : regs'[j - 1] = dev.mem[offset + j - 1]
                              /\ dev.mem[offset + j - 1] \in Word
    <3>1. ASSUME NEW j \in 1 .. len + 2
          PROVE  regs'[j - 1] = dev.mem[offset + j - 1]
                 /\ dev.mem[offset + j - 1] \in Word
      <4>1. j - 1 \in 0 .. len + 1 /\ offset + (j - 1) = offset + j - 1
        BY <1>3
      <4> QED
        BY <1>6, <1>7, <1>9, <4>1
    <3> QED
      BY <3>1
  <2>4. [j \in 1 .. regs'[1] + 2 |-> regs'[j - 1]] = BlockAt(dev, offset)
    BY <1>2, <2>2, <2>3 DEF BlockAt
  <2>5. BlockAt(dev, offset) \in Seq(Word)
    <3>1. len + 2 \in Nat
      BY <1>3
    <3>2. [j \in 1 .. len + 2 |-> dev.mem[offset + j - 1]] \in Seq(Word)
      BY <2>3, <3>1
    <3> QED
      BY <1>2, <3>2 DEF BlockAt
  <2>6. Decode(offset, regs') = [did |-> did, index |-> 0, at |-> offset,
                                 words |-> BlockAt(dev, offset)]
    BY <2>1, <2>2, <2>4 DEF Decode
  <2> QED
    BY <1>3, <2>1, <2>5, <2>6 DEF Dataset
<1>16. did = NULL => h.did \notin KnownDids
  BY <1>2, WordFacts, ParameterFacts DEF NULL
<1>17. reg_offset' = len + 2
  BY <1>1, <1>5
<1>18. model_count \in 1 .. Len(dev.start) /\ offset = dev.start[model_count]
  BY <1>2
<1> HIDE DEF h
<1> QED
  BY <1>10, <1>13, <1>14, <1>15, <1>16, <1>17, <1>18

-----------------------------------------------------------------------------
\* Every step keeps the inductive invariant

\* A device is chosen and nothing is read yet.
LEMMA InitInv == Init => dev \in Devices /\ IInv
<1> SUFFICES ASSUME Init PROVE dev \in Devices /\ IInv
  OBVIOUS
<1>1. dev \in Devices
  BY DEF Init
<1>2. TypeOK
  <2>1. regs \in Registers
    <3>1. Unset \in Register
      <4>1. Unset \in Int /\ Unset <= MaxWord /\ MaxWord \in Int
        BY DEF Unset, MaxWord
      <4> QED
        BY <4>1 DEF Register
    <3> QED
      BY <3>1 DEF Init, Registers
  <2>2. /\ found_common_model \in BOOLEAN /\ found_common_model_first \in BOOLEAN
        /\ found_end_marker \in BOOLEAN /\ gave_up \in BOOLEAN
    BY DEF Init
  <2>3. /\ pc \in {"search", "header", "body", "checks", "returned", "exited"}
        /\ status \in {"running", "success", "failure"}
        /\ did \in KnownDids \union {NULL}
        /\ base_register \in Windows \union {NULL}
        /\ datasets \in Seq(Dataset)
    BY DEF Init
  <2>4. retries \in 0 .. Retries /\ reg_offset \in 0 .. len + 2
    BY ParameterFacts DEF Init
  <2>5. /\ i \in Windows /\ offset \in Nat /\ model_count \in Nat
        /\ len \in Word /\ rc \in {-1, 0}
    BY WordFacts, ParameterFacts DEF Init, Windows
  <2> QED
    BY <2>1, <2>2, <2>3, <2>4, <2>5 DEF TypeOK
<1>3. SearchInv /\ PositionInv /\ FoundInv /\ VerdictInv /\ CauseInv
  BY DEF Init, SearchInv, PositionInv, FoundInv, VerdictInv, CauseInv
<1>4. DatasetsFaithful
  <2>1. \A k \in Scan!Blocks(dev) : ~(dev.start[k] < 0)
    BY <1>1, DeviceFacts DEF Scan!Blocks
  <2> QED
    BY <2>1 DEF Init, DatasetsFaithful, Scan!HoldsBlocksBelow
<1>5. DatasetsNumbered
  BY DEF Init, DatasetsNumbered, Scan!IsNumbered
<1> QED
  BY <1>1, <1>2, <1>3, <1>4, <1>5 DEF IInv

\* A step that moves neither the datasets nor the offset keeps what is said of them.
LEMMA SameDatasets ==
    ASSUME DatasetsFaithful, DatasetsNumbered, UNCHANGED <<dev, offset, datasets>>
    PROVE  DatasetsFaithful' /\ DatasetsNumbered'
  BY DEF DatasetsFaithful, DatasetsNumbered

\* A search register without the signature.
LEMMA TryNextRegisterStep ==
    ASSUME dev \in Devices, IInv, pc = "search", TryNextRegister,
           dev.window[i] = Signature => gave_up',
           gave_up => gave_up', gave_up' \in BOOLEAN,
           regs' \in Registers
    PROVE  IInv'
<1> USE DEF TryNextRegister, localVars, foundVars, exitVars
<1>1. TypeOK /\ SearchInv /\ FoundInv /\ VerdictInv
  BY DEF IInv
<1>2. TypeOK'
  <2>1. i' \in Windows /\ retries' \in 0 .. Retries /\ rc' \in {-1, 0}
    BY <1>1, ParameterFacts DEF TypeOK, Windows
  <2>2. pc' \in {"search", "header", "body", "checks", "returned", "exited"}
    BY <1>1 DEF TypeOK
  <2> QED
    BY <1>1, <2>1, <2>2 DEF TypeOK
<1>3. SearchInv'
  <2>1. \A w \in 1 .. i' - 1 : w \in 1 .. i - 1 \/ w = i
    BY <1>1 DEF TypeOK, Windows
  <2> QED
    BY <1>1, <2>1 DEF SearchInv
<1>4. PositionInv' /\ FoundInv'
  BY <1>1 DEF PositionInv, FoundInv, FirstIsCommon
<1>5. VerdictInv'
  BY <1>1 DEF VerdictInv
<1>6. CauseInv'
  <2>1. ASSUME i = 4, Scan!WellFormed(dev) PROVE gave_up'
    <3>1. PICK w \in Windows : dev.window[w] = Signature
      BY <2>1, ScanOperators DEF Scan!WellFormed
    <3>2. w \in 1 .. i - 1 \/ w = i
      BY <2>1 DEF Windows
    <3> QED
      BY <1>1, <3>1, <3>2 DEF SearchInv
  <2>2. i # 4 => pc' = "search"
    BY <1>1 DEF TypeOK, Windows
  <2>3. Scan!WellFormed(dev)' => Scan!WellFormed(dev)
    BY DEF Scan!WellFormed
  <2> QED
    BY <2>1, <2>2, <2>3 DEF CauseInv
<1>7. DatasetsFaithful' /\ DatasetsNumbered'
  BY SameDatasets DEF IInv
<1> QED
  BY <1>2, <1>3, <1>4, <1>5, <1>6, <1>7 DEF IInv

\* SearchRead: another register tried, or the signature found.
LEMMA SearchReadStep ==
    ASSUME dev \in Devices, IInv, SearchRead
    PROVE  IInv'
<1>1. TypeOK /\ SearchInv /\ FoundInv /\ VerdictInv /\ DatasetsFaithful
      /\ DatasetsNumbered
  BY DEF IInv
<1>2. regs' \in Registers
  <2>1. i \in Windows /\ regs \in Registers
    BY <1>1 DEF TypeOK
  <2>2. dev.window[i][1] \in Word /\ dev.window[i][2] \in Word
    BY <2>1, DeviceFacts DEF SearchRead
  <2>3. regs' = [regs EXCEPT ![0] = dev.window[i][1], ![1] = dev.window[i][2]]
    BY DEF SearchRead
  <2> QED
    BY <2>1, <2>2, <2>3, TwoRegistersRead
<1>3. gave_up' = gave_up /\ pc = "search"
  BY DEF SearchRead
<1>4. CASE dev.window[i] # Signature
  <2>1. TryNextRegister
    BY <1>4 DEF SearchRead
  <2>2. gave_up' \in BOOLEAN
    BY <1>1, <1>3 DEF TypeOK
  <2> QED
    BY <1>2, <1>3, <1>4, <2>1, <2>2, TryNextRegisterStep
<1>5. CASE dev.window[i] = Signature
  <2> USE DEF localVars, foundVars, exitVars
  <2>1. /\ base_register' = i /\ offset' = 2 /\ pc' = "header" /\ retries' = 0
        /\ UNCHANGED <<dev, i, model_count, localVars, datasets, foundVars, rc,
                       exitVars>>
    BY <1>5 DEF SearchRead
  <2>2. TypeOK'
    <3>1. retries' \in 0 .. Retries
      BY <2>1, ParameterFacts
    <3>2. base_register' \in Windows \union {NULL}
      BY <1>1, <2>1 DEF TypeOK
    <3> QED
      BY <1>1, <1>2, <1>3, <2>1, <3>1, <3>2 DEF TypeOK
  <2>3. base_register' # NULL
    BY <1>1, <2>1 DEF TypeOK, Windows, NULL
  <2>4. SearchInv'
    BY <1>1, <1>3, <1>5, <2>1, <2>3 DEF SearchInv
  <2>5. model_count = 0 /\ datasets = <<>>
    BY <1>1, <1>3 DEF SearchInv
  <2>6. PositionInv'
    BY <2>1, <2>5, DeviceFacts DEF PositionInv
  <2>7. FoundInv'
    BY <1>1, <1>3, <2>1 DEF FoundInv, FirstIsCommon
  <2>8. VerdictInv' /\ CauseInv'
    BY <1>1, <1>3, <2>1 DEF VerdictInv, CauseInv
  <2>9. DatasetsFaithful'
    <3>1. \A k \in Scan!Blocks(dev) : ~(dev.start[k] < 2)
      <4>1. \A k \in Scan!Blocks(dev) : k \in 1 .. Len(dev.start)
        BY DeviceFacts DEF Scan!Blocks
      <4>2. \A k \in 1 .. Len(dev.start) : dev.start[k] >= 2
        <5>1. 1 \in 1 .. Len(dev.start) /\ dev.start[1] = 2
          BY DeviceFacts
        <5>2. \A k \in 1 .. Len(dev.start) : 1 < k => dev.start[1] < dev.start[k]
          BY <5>1, StartIncreasing
        <5> QED
          BY <5>1, <5>2, DeviceFacts
      <4> QED
        BY <4>1, <4>2, DeviceFacts
    <3>2. Scan!HoldsBlocksBelow(<<>>, dev, 2)
      BY <3>1 DEF Scan!HoldsBlocksBelow
    <3> QED
      BY <2>1, <2>5, <3>2 DEF DatasetsFaithful
  <2>10. DatasetsNumbered'
    BY <1>1, <2>1 DEF DatasetsNumbered
  <2> QED
    BY <2>2, <2>4, <2>6, <2>7, <2>8, <2>9, <2>10 DEF IInv
<1> QED
  BY <1>4, <1>5

\* SearchIllegal and SearchGiveUp: on to the next register.
LEMMA SearchPassStep ==
    ASSUME dev \in Devices, IInv, SearchIllegal \/ SearchGiveUp
    PROVE  IInv'
<1>1. TypeOK
  BY DEF IInv
<1>2. pc = "search" /\ TryNextRegister /\ regs' = regs
  BY DEF SearchIllegal, SearchGiveUp
<1>3. dev.window[i] = Signature => gave_up'
  BY DEF SearchIllegal, SearchGiveUp, Signature
<1>4. (gave_up => gave_up') /\ gave_up' \in BOOLEAN
  <2>1. CASE SearchIllegal
    <3>1. gave_up' = gave_up /\ gave_up \in BOOLEAN
      BY <1>1, <2>1 DEF TypeOK, SearchIllegal
    <3> QED
      BY <3>1
  <2>2. CASE SearchGiveUp
    <3>1. gave_up' = TRUE
      BY <2>2 DEF SearchGiveUp
    <3> QED
      BY <3>1
  <2> QED
    BY <2>1, <2>2
<1>5. regs' \in Registers
  BY <1>1, <1>2 DEF TypeOK
<1> QED
  BY <1>2, <1>3, <1>4, <1>5, TryNextRegisterStep

\* ReadFails: only the attempt counter moves.
LEMMA ReadFailsStep ==
    ASSUME dev \in Devices, IInv, ReadFails
    PROVE  IInv'
<1> USE DEF localVars, foundVars, exitVars
<1>1. TypeOK /\ SearchInv /\ PositionInv /\ FoundInv /\ VerdictInv /\ CauseInv
      /\ DatasetsFaithful /\ DatasetsNumbered
  BY DEF IInv
<1>2. /\ retries < Retries /\ retries' = retries + 1
      /\ UNCHANGED <<dev, pc, i, base_register, offset, model_count, localVars,
                     regs, datasets, foundVars, rc, exitVars, gave_up>>
  BY DEF ReadFails
<1>3. TypeOK'
  <2>1. retries' \in 0 .. Retries
    BY <1>1, <1>2, ParameterFacts DEF TypeOK
  <2> QED
    BY <1>1, <1>2, <2>1 DEF TypeOK
<1>4. SearchInv' /\ PositionInv'
  BY <1>1, <1>2 DEF SearchInv, PositionInv
<1>5. FoundInv' /\ VerdictInv' /\ CauseInv'
  BY <1>1, <1>2 DEF FoundInv, FirstIsCommon, VerdictInv, CauseInv
<1>6. DatasetsFaithful' /\ DatasetsNumbered'
  BY <1>1, <1>2, SameDatasets
<1> QED
  BY <1>3, <1>4, <1>5, <1>6 DEF IInv

\* GiveUp: the loop is left without an end marker.
LEMMA GiveUpStep ==
    ASSUME dev \in Devices, IInv, GiveUp
    PROVE  IInv'
<1> USE DEF localVars, foundVars, exitVars
<1>1. TypeOK /\ SearchInv /\ PositionInv /\ FoundInv /\ VerdictInv /\ CauseInv
      /\ DatasetsFaithful /\ DatasetsNumbered
  BY DEF IInv
<1>2. /\ pc \in {"header", "body"} /\ rc' = -1 /\ pc' = "checks" /\ gave_up' = TRUE
      /\ UNCHANGED <<dev, i, retries, base_register, offset, model_count,
                     localVars, regs, datasets, foundVars, exitVars>>
  BY DEF GiveUp
<1>3. TypeOK'
  BY <1>1, <1>2 DEF TypeOK
<1>4. SearchInv' /\ PositionInv'
  BY <1>1, <1>2 DEF SearchInv, PositionInv
<1>5. FoundInv' /\ VerdictInv' /\ CauseInv'
  BY <1>1, <1>2 DEF FoundInv, FirstIsCommon, VerdictInv, CauseInv
<1>6. DatasetsFaithful' /\ DatasetsNumbered'
  BY <1>1, <1>2, SameDatasets
<1> QED
  BY <1>3, <1>4, <1>5, <1>6 DEF IInv

\* What HeaderArrives alone settles: the buffer and the header's fields.
LEMMA HeaderArrivesFacts ==
    ASSUME dev \in Devices, IInv, HeaderArrives
    PROVE  /\ regs' \in Registers
           /\ model_count \in Nat /\ model_count + 1 \in 1 .. Len(dev.start)
           /\ model_count < Len(dev.start)
           /\ offset \in Nat /\ offset = dev.start[model_count + 1]
           /\ Readable(dev, offset, 2)
           /\ Header(dev, offset).did \in Word /\ Header(dev, offset).len \in Word
           /\ Scan!DidOf(dev, model_count + 1) = Header(dev, offset).did
           /\ found_end_marker = FALSE
           /\ FirstIsCommon(dev)' = FirstIsCommon(dev)
<1>1. /\ pc = "header" /\ TypeOK /\ PositionInv /\ FoundInv
      /\ Readable(dev, offset, 2) /\ dev' = dev
      /\ regs' = [regs EXCEPT ![0] = dev.mem[offset], ![1] = dev.mem[offset + 1]]
  BY DEF IInv, HeaderArrives
<1>2. /\ model_count \in Nat /\ offset \in Nat /\ regs \in Registers
      /\ found_end_marker \in BOOLEAN
  BY <1>1 DEF TypeOK
<1>3. model_count < Len(dev.start) /\ offset = dev.start[model_count + 1]
  BY <1>1 DEF PositionInv
<1>4. model_count + 1 \in 1 .. Len(dev.start)
  BY <1>2, <1>3, DeviceFacts
<1>5. /\ dev.mem[offset] \in Word /\ dev.mem[offset + 1] \in Word
      /\ Header(dev, offset).did \in Word /\ Header(dev, offset).len \in Word
  BY <1>1, <1>2, HeaderFacts
<1>6. regs' \in Registers
  BY <1>1, <1>2, <1>5, TwoRegistersRead
<1>7. Scan!DidOf(dev, model_count + 1) = Header(dev, offset).did
  BY <1>3, ScanOperators DEF Scan!DidOf
<1>8. found_end_marker = FALSE
  BY <1>1, <1>2 DEF FoundInv
<1>9. FirstIsCommon(dev)' = FirstIsCommon(dev)
  BY <1>1 DEF FirstIsCommon
<1> QED
  BY <1>1, <1>2, <1>3, <1>4, <1>5, <1>6, <1>7, <1>8, <1>9

\* The first header decides whether the common model comes first.
LEMMA FirstHeader ==
    ASSUME dev \in Devices, IInv, HeaderArrives, model_count = 0
    PROVE  FirstIsCommon(dev) <=> 1 \in KnownDids /\ Header(dev, offset).did = 1
  BY HeaderArrivesFacts DEF FirstIsCommon

\* A header that is no block stops the chain.
LEMMA ChainStops ==
    ASSUME dev \in Devices, IInv, HeaderArrives,
           IsEndMarker(Header(dev, offset)) \/ Header(dev, offset).did = 0
    PROVE  model_count + 1 = Len(dev.start)
<1>1. ~Continues(dev, dev.start[model_count + 1])
  BY HeaderArrivesFacts DEF Continues
<1>2. ~(model_count + 1 < Len(dev.start))
  BY <1>1, HeaderArrivesFacts, ChainStep
<1> QED
  BY <1>2, HeaderArrivesFacts, DeviceFacts

\* ReadEndMarker: the loop ends with everything read.
LEMMA ReadEndMarkerStep ==
    ASSUME dev \in Devices, IInv, ReadEndMarker
    PROVE  IInv'
<1> USE DEF localVars, foundVars, exitVars
<1>1. TypeOK /\ SearchInv /\ PositionInv /\ FoundInv /\ VerdictInv
      /\ DatasetsFaithful /\ DatasetsNumbered
  BY DEF IInv
<1>2. /\ pc = "header" /\ pc' = "checks" /\ rc' = 0 /\ found_end_marker' = TRUE
      /\ model_count' = model_count + 1 /\ HeaderArrives
      /\ IsEndMarker(Header(dev, offset))
      /\ UNCHANGED <<dev, i, retries, base_register, offset, localVars, datasets,
                     found_common_model, found_common_model_first, exitVars,
                     gave_up>>
  BY DEF ReadEndMarker, HeaderArrives
<1>3. TypeOK'
  <2>1. model_count' \in Nat /\ regs' \in Registers
    BY <1>2, HeaderArrivesFacts
  <2>2. found_end_marker' \in BOOLEAN /\ rc' \in {-1, 0}
    BY <1>2
  <2> QED
    BY <1>1, <1>2, <2>1, <2>2 DEF TypeOK
<1>4. SearchInv' /\ PositionInv'
  BY <1>1, <1>2 DEF SearchInv, PositionInv
<1>5. model_count = 0 => ~FirstIsCommon(dev)
  <2>1. MaxWord # 1
    BY DEF MaxWord
  <2> QED
    BY <1>2, <2>1, FirstHeader DEF IsEndMarker
<1>6. model_count >= 1 \/ model_count = 0
  BY <1>2, HeaderArrivesFacts
<1>7. FoundInv'
  <2>1. /\ found_common_model_first => found_common_model
        /\ found_common_model_first <=> model_count >= 1 /\ FirstIsCommon(dev)
    BY <1>1 DEF FoundInv
  <2>2. found_common_model_first' <=> model_count' >= 1 /\ FirstIsCommon(dev)
    BY <1>2, <1>5, <1>6, <2>1, HeaderArrivesFacts
  <2>3. /\ offset' = dev'.start[Len(dev'.start)]
        /\ Readable(dev', offset', 2) /\ IsEndMarker(Header(dev', offset'))
    BY <1>2, ChainStops, HeaderArrivesFacts
  <2> QED
    BY <1>2, <2>1, <2>2, <2>3 DEF FoundInv, FirstIsCommon
<1>8. VerdictInv'
  BY <1>1, <1>2 DEF VerdictInv
<1>9. CauseInv'
  <2>1. ASSUME Scan!WellFormed(dev)
        PROVE  found_common_model_first
    <3>1. /\ Scan!Blocks(dev) # {} /\ Scan!DidOf(dev, 1) = 1 /\ 1 \in KnownDids
      BY <2>1 DEF Scan!WellFormed
    <3>2. Len(dev.start) > 1
      BY <3>1, DeviceFacts DEF Scan!Blocks
    <3>3. model_count >= 1
      BY <1>2, <3>2, ChainStops, HeaderArrivesFacts
    <3>4. Continues(dev, dev.start[1])
      BY <3>2, ChainStep, DeviceFacts
    <3>5. FirstIsCommon(dev)
      BY <3>1, <3>4 DEF FirstIsCommon, Continues
    <3> QED
      BY <1>1, <3>3, <3>5 DEF FoundInv
  <2>2. Scan!WellFormed(dev)' => Scan!WellFormed(dev)
    BY <1>2 DEF Scan!WellFormed
  <2> QED
    BY <1>2, <2>1, <2>2 DEF CauseInv
<1>10. DatasetsFaithful' /\ DatasetsNumbered'
  BY <1>1, <1>2, SameDatasets
<1> QED
  BY <1>3, <1>4, <1>7, <1>8, <1>9, <1>10 DEF IInv

\* ReadZeroDid: the chain is broken, so the device is not well-formed.
LEMMA ReadZeroDidStep ==
    ASSUME dev \in Devices, IInv, ReadZeroDid
    PROVE  IInv'
<1> USE DEF localVars, foundVars, exitVars
<1>1. TypeOK /\ SearchInv /\ PositionInv /\ FoundInv /\ VerdictInv
      /\ DatasetsFaithful /\ DatasetsNumbered
  BY DEF IInv
<1>2. /\ pc = "header" /\ pc' = "checks" /\ rc' = -1
      /\ model_count' = model_count + 1 /\ HeaderArrives
      /\ Header(dev, offset).did = 0
      /\ UNCHANGED <<dev, i, retries, base_register, offset, localVars, datasets,
                     foundVars, exitVars, gave_up>>
  BY DEF ReadZeroDid, HeaderArrives
<1>3. TypeOK'
  <2>1. model_count' \in Nat /\ regs' \in Registers
    BY <1>2, HeaderArrivesFacts
  <2>2. rc' \in {-1, 0}
    BY <1>2
  <2> QED
    BY <1>1, <1>2, <2>1, <2>2 DEF TypeOK
<1>4. SearchInv' /\ PositionInv'
  BY <1>1, <1>2 DEF SearchInv, PositionInv
<1>5. FoundInv'
  <2>1. model_count = 0 => ~FirstIsCommon(dev)
    BY <1>2, FirstHeader
  <2>2. model_count >= 1 \/ model_count = 0
    BY <1>2, HeaderArrivesFacts
  <2> QED
    BY <1>1, <1>2, <2>1, <2>2, HeaderArrivesFacts DEF FoundInv
<1>6. VerdictInv'
  BY <1>1, <1>2, HeaderArrivesFacts DEF VerdictInv
<1>7. CauseInv'
  <2>1. ~Scan!WellFormed(dev)
    <3>1. SUFFICES ASSUME Scan!WellFormed(dev) PROVE FALSE
      OBVIOUS
    <3>2. Scan!IsEndMarker(Scan!Header(dev, dev.start[Len(dev.start)]))
      BY <3>1 DEF Scan!WellFormed
    <3>3. IsEndMarker(Header(dev, offset))
      BY <1>2, <3>2, ScanOperators, ChainStops, HeaderArrivesFacts
    <3> QED
      BY <1>2, <3>3 DEF IsEndMarker, MaxWord
  <2>2. Scan!WellFormed(dev)' => Scan!WellFormed(dev)
    BY <1>2 DEF Scan!WellFormed
  <2> QED
    BY <2>1, <2>2 DEF CauseInv
<1>8. DatasetsFaithful' /\ DatasetsNumbered'
  BY <1>1, <1>2, SameDatasets
<1> QED
  BY <1>3, <1>4, <1>5, <1>6, <1>7, <1>8 DEF IInv

\* ReadHeader: a block to read, known or not.
LEMMA ReadHeaderStep ==
    ASSUME dev \in Devices, IInv, ReadHeader
    PROVE  IInv'
<1> USE DEF localVars, exitVars
<1> DEFINE h == Header(dev, offset)
<1>1. TypeOK /\ SearchInv /\ PositionInv /\ FoundInv /\ VerdictInv
      /\ DatasetsFaithful /\ DatasetsNumbered
  BY DEF IInv
<1>2. /\ pc = "header" /\ pc' = "body" /\ retries' = 0 /\ reg_offset' = 0
      /\ model_count' = model_count + 1 /\ HeaderArrives
      /\ ~IsEndMarker(h) /\ h.did # 0 /\ len' = h.len
      /\ did' = IF h.did \in KnownDids THEN h.did ELSE NULL
      /\ found_common_model' = (found_common_model \/ did' = 1)
      /\ found_common_model_first' =
            (found_common_model_first \/ (did' = 1 /\ model_count' = 1))
      /\ UNCHANGED <<dev, i, base_register, offset, datasets,
                     found_end_marker, rc, exitVars, gave_up>>
  BY DEF ReadHeader, HeaderArrives
<1>3. /\ regs' \in Registers /\ model_count \in Nat
      /\ model_count + 1 \in 1 .. Len(dev.start)
      /\ offset \in Nat /\ offset = dev.start[model_count + 1]
      /\ Readable(dev, offset, 2) /\ h.did \in Word /\ h.len \in Word
  BY <1>2, HeaderArrivesFacts
<1> HIDE DEF h
<1>4. TypeOK'
  <2>1. model_count' \in Nat /\ len' \in Word /\ did' \in KnownDids \union {NULL}
    BY <1>2, <1>3
  <2>2. retries' \in 0 .. Retries /\ reg_offset' \in 0 .. len' + 2
    BY <1>2, <1>3, WordFacts, ParameterFacts
  <2>3. found_common_model' \in BOOLEAN /\ found_common_model_first' \in BOOLEAN
    BY <1>2
  <2>4. pc' \in {"search", "header", "body", "checks", "returned", "exited"}
    BY <1>2
  <2> QED
    BY <1>1, <1>2, <1>3, <2>1, <2>2, <2>3, <2>4 DEF TypeOK
<1>5. SearchInv'
  BY <1>1, <1>2 DEF SearchInv
<1>6. PositionInv'
  <2>1. h' = h
    BY <1>2 DEF h, Header
  <2>2. reg_offset' < len' + 2
    BY <1>2, <1>3, WordFacts
  <2>3. \A j \in 0 .. reg_offset' - 1 : FALSE
    BY <1>2
  <2> QED
    BY <1>2, <1>3, <2>1, <2>2, <2>3 DEF PositionInv, h
<1>7. FoundInv'
  <2>1. /\ found_common_model_first => found_common_model
        /\ found_common_model_first <=> model_count >= 1 /\ FirstIsCommon(dev)
        /\ found_end_marker = FALSE
    BY <1>1, <1>2, HeaderArrivesFacts DEF FoundInv
  <2>2. did' = 1 <=> 1 \in KnownDids /\ h.did = 1
    BY <1>2 DEF NULL
  <2>3. CASE model_count = 0
    <3>1. model_count' = 1 /\ (FirstIsCommon(dev) <=> did' = 1)
      BY <1>2, <2>2, <2>3, FirstHeader DEF h
    <3>2. found_common_model_first' <=> FirstIsCommon(dev)
      BY <1>2, <2>1, <2>3, <3>1
    <3> QED
      BY <1>2, <2>1, <3>1, <3>2, HeaderArrivesFacts DEF FoundInv
  <2>4. CASE model_count >= 1
    <3>1. model_count' # 1 /\ model_count' >= 1
      BY <1>2, <1>3, <2>4
    <3>2. found_common_model_first' <=> FirstIsCommon(dev)
      BY <1>2, <2>1, <2>4, <3>1
    <3> QED
      BY <1>2, <2>1, <3>1, <3>2, HeaderArrivesFacts DEF FoundInv
  <2> QED
    BY <1>3, <2>3, <2>4
<1>8. VerdictInv' /\ CauseInv'
  BY <1>1, <1>2 DEF VerdictInv, CauseInv
<1>9. DatasetsFaithful' /\ DatasetsNumbered'
  BY <1>1, <1>2, SameDatasets
<1> QED
  BY <1>4, <1>5, <1>6, <1>7, <1>8, <1>9 DEF IInv

\* ReadChunk: more of the block is in regs[], in its place.
LEMMA ReadChunkStep ==
    ASSUME dev \in Devices, IInv, ReadChunk
    PROVE  IInv'
<1> USE DEF localVars, foundVars, exitVars
<1>1. TypeOK /\ SearchInv /\ PositionInv /\ FoundInv /\ VerdictInv
      /\ DatasetsFaithful /\ DatasetsNumbered
  BY DEF IInv
<1>2. /\ pc = "body" /\ retries' = 0 /\ reg_offset' = reg_offset + ReadLen
      /\ reg_offset' < len + 2
      /\ Readable(dev, offset + reg_offset, ReadLen)
      /\ regs' = [j \in DOMAIN regs |->
                    IF j \in reg_offset .. reg_offset + ReadLen - 1
                    THEN dev.mem[offset + j] ELSE regs[j]]
      /\ UNCHANGED <<pc, offset, datasets, dev, i, base_register, model_count, did,
                     len, foundVars, rc, exitVars, gave_up>>
  BY DEF ReadChunk, ChunkArrives
<1>3. /\ reg_offset \in Nat /\ len \in Nat /\ offset \in Nat /\ regs \in Registers
      /\ MaxRead \in Nat \ {0} /\ RegsSize \in Nat /\ RegsSize >= 2
  BY <1>1, WordFacts, ParameterFacts, DeviceFacts DEF TypeOK
<1>4. ReadLen \in Nat
  BY <1>1, <1>2, <1>3 DEF ReadLen, PositionInv
<1>5. /\ offset = dev.start[model_count] /\ model_count \in 1 .. Len(dev.start)
      /\ Readable(dev, offset, 2) /\ len = Header(dev, offset).len
      /\ \A j \in 0 .. reg_offset - 1 :
            offset + j \in DOMAIN dev.mem /\ regs[j] = dev.mem[offset + j]
  BY <1>1, <1>2 DEF PositionInv
<1>6. len + 2 <= RegsSize
  BY <1>5, DeviceFacts DEF FitsBuffer
<1>7. \A j \in reg_offset .. reg_offset + ReadLen - 1 : offset + j \in DOMAIN dev.mem
  <2>1. ASSUME NEW j \in reg_offset .. reg_offset + ReadLen - 1
        PROVE  offset + j \in DOMAIN dev.mem
    <3>1. offset + j \in offset + reg_offset .. offset + reg_offset + ReadLen - 1
      BY <1>3, <1>4
    <3> QED
      BY <1>2, <3>1 DEF Readable
  <2> QED
    BY <2>1
<1>8. regs' \in Registers
  <2>1. \A o \in DOMAIN dev.mem : dev.mem[o] \in Register
    BY DeviceFacts, WordsFitRegisters
  <2>2. \A j \in DOMAIN regs :
           (IF j \in reg_offset .. reg_offset + ReadLen - 1
            THEN dev.mem[offset + j] ELSE regs[j]) \in Register
    BY <1>3, <1>7, <2>1 DEF Registers
  <2> QED
    BY <1>2, <1>3, <2>2 DEF Registers
<1>9. TypeOK'
  <2>1. retries' \in 0 .. Retries /\ reg_offset' \in 0 .. len' + 2
    BY <1>2, <1>3, <1>4, ParameterFacts
  <2> QED
    BY <1>1, <1>2, <1>8, <2>1 DEF TypeOK
<1>10. SearchInv'
  BY <1>1, <1>2 DEF SearchInv
<1>11. PositionInv'
  <2>1. ASSUME NEW j \in 0 .. reg_offset' - 1
        PROVE  offset + j \in DOMAIN dev.mem /\ regs'[j] = dev.mem[offset + j]
    <3>1. j \in DOMAIN regs
      BY <1>2, <1>3, <1>4, <1>6 DEF Registers
    <3>2. CASE j < reg_offset
      <4>1. j \in 0 .. reg_offset - 1 /\ j \notin reg_offset .. reg_offset + ReadLen - 1
        BY <1>2, <1>3, <1>4, <3>2
      <4> QED
        BY <1>2, <1>5, <3>1, <4>1
    <3>3. CASE j >= reg_offset
      <4>1. j \in reg_offset .. reg_offset + ReadLen - 1
        BY <1>2, <1>3, <1>4, <3>3
      <4> QED
        BY <1>2, <1>7, <3>1, <4>1
    <3> QED
      BY <1>2, <1>3, <1>4, <3>2, <3>3
  <2>2. /\ pc' # "header" /\ pc' = "body" /\ dev' = dev /\ offset' = offset
        /\ len' = len /\ did' = did /\ model_count' = model_count
    BY <1>2
  <2>3. Header(dev, offset)' = Header(dev, offset)
    BY <2>2 DEF Header
  <2> QED
    BY <1>1, <1>2, <1>5, <2>1, <2>2, <2>3 DEF PositionInv
<1>12. FoundInv'
  BY <1>1, <1>2 DEF FoundInv, FirstIsCommon
<1>13. VerdictInv' /\ CauseInv'
  BY <1>1, <1>2 DEF VerdictInv, CauseInv
<1>14. DatasetsFaithful' /\ DatasetsNumbered'
  BY <1>1, <1>2, SameDatasets
<1> QED
  BY <1>9, <1>10, <1>11, <1>12, <1>13, <1>14 DEF IInv

\* ReadLastChunk: the block is decoded or skipped, the next header is due.
LEMMA ReadLastChunkStep ==
    ASSUME dev \in Devices, IInv, ReadLastChunk
    PROVE  IInv'
<1> USE DEF localVars, foundVars, exitVars
<1> DEFINE new == Decode(offset, regs')
           k   == model_count
<1>1. TypeOK /\ SearchInv /\ PositionInv /\ FoundInv /\ VerdictInv
      /\ DatasetsFaithful /\ DatasetsNumbered
  BY DEF IInv
<1>2. /\ pc = "body" /\ pc' = "header" /\ retries' = 0
      /\ datasets' = IF did # NULL THEN AddDataset(datasets, new) ELSE datasets
      /\ UNCHANGED <<dev, i, base_register, model_count, did, len, foundVars,
                     rc, exitVars, gave_up>>
  BY DEF ReadLastChunk, ChunkArrives
<1>3. /\ regs' \in Registers /\ reg_offset' = len + 2
      /\ k \in 1 .. Len(dev.start) /\ k < Len(dev.start)
      /\ offset = dev.start[k] /\ offset' = dev.start[k + 1]
  BY BlockComplete
<1>4. did # NULL => /\ did = Scan!DidOf(dev, k) /\ did \in KnownDids
                    /\ new = [did |-> did, index |-> 0, at |-> offset,
                              words |-> BlockAt(dev, offset)]
                    /\ new \in Dataset
  BY BlockComplete
<1>5. did = NULL => Scan!DidOf(dev, k) \notin KnownDids
  BY BlockComplete
<1>6. datasets \in Seq(Dataset) /\ k \in Nat /\ len \in Nat
  BY <1>1, WordFacts DEF TypeOK
<1>7. Scan!HoldsBlocksBelow(datasets, dev, dev.start[k])
  BY <1>1, <1>3 DEF DatasetsFaithful
<1>8. k + 1 \in 1 .. Len(dev.start) /\ offset' \in Nat
  BY <1>3, <1>6, DeviceFacts
<1> HIDE DEF new, k
<1>9. datasets' \in Seq(Dataset)
  <2>1. CASE did # NULL
    BY <1>2, <1>4, <1>6, <2>1, AddDatasetFacts
  <2>2. CASE did = NULL
    BY <1>2, <1>6, <2>2
  <2> QED
    BY <2>1, <2>2
<1>10. TypeOK'
  <2>1. retries' \in 0 .. Retries
    BY <1>2, ParameterFacts
  <2>2. reg_offset' \in 0 .. len' + 2
    BY <1>2, <1>3, <1>6
  <2>3. pc' \in {"search", "header", "body", "checks", "returned", "exited"}
    BY <1>2
  <2> QED
    BY <1>1, <1>2, <1>3, <1>8, <1>9, <2>1, <2>2, <2>3 DEF TypeOK
<1>11. SearchInv'
  BY <1>1, <1>2 DEF SearchInv
<1>12. PositionInv'
  BY <1>2, <1>3 DEF PositionInv, k
<1>13. FoundInv'
  <2>1. found_end_marker = FALSE
    BY <1>1, <1>2 DEF FoundInv, TypeOK
  <2> QED
    BY <1>1, <1>2, <2>1 DEF FoundInv, FirstIsCommon
<1>14. VerdictInv' /\ CauseInv'
  BY <1>1, <1>2 DEF VerdictInv, CauseInv
<1>15. DatasetsFaithful'
  <2>1. CASE did # NULL
    <3>1. /\ new.at = dev.start[k] /\ new.did = Scan!DidOf(dev, k)
          /\ new.words = BlockAt(dev, dev.start[k])
      BY <1>3, <1>4, <2>1
    <3>2. Scan!HoldsBlocksBelow(AddDataset(datasets, new), dev, dev.start[k + 1])
      BY <1>3, <1>4, <1>6, <1>7, <2>1, <3>1, BlockAdded
    <3> QED
      BY <1>2, <1>3, <2>1, <3>2 DEF DatasetsFaithful
  <2>2. CASE did = NULL
    <3>1. Scan!HoldsBlocksBelow(datasets, dev, dev.start[k + 1])
      BY <1>3, <1>5, <1>6, <1>7, <2>2, BlockSkipped
    <3> QED
      BY <1>2, <1>3, <2>2, <3>1 DEF DatasetsFaithful
  <2> QED
    BY <2>1, <2>2
<1>16. DatasetsNumbered'
  <2>1. CASE did # NULL
    BY <1>1, <1>2, <1>4, <1>6, <2>1, AddDatasetNumbered DEF DatasetsNumbered
  <2>2. CASE did = NULL
    BY <1>1, <1>2, <2>2 DEF DatasetsNumbered
  <2> QED
    BY <2>1, <2>2
<1> QED
  BY <1>10, <1>11, <1>12, <1>13, <1>14, <1>15, <1>16 DEF IInv

\* FinalChecks: the verdict over the flags.
LEMMA FinalChecksStep ==
    ASSUME dev \in Devices, IInv, FinalChecks
    PROVE  IInv'
<1> USE DEF localVars, foundVars, exitVars
<1>1. TypeOK /\ SearchInv /\ PositionInv /\ FoundInv /\ VerdictInv /\ CauseInv
      /\ DatasetsFaithful /\ DatasetsNumbered
  BY DEF IInv
<1>2. /\ pc = "checks" /\ pc' = "returned"
      /\ UNCHANGED <<dev, i, retries, base_register, offset, model_count,
                     localVars, regs, datasets, foundVars, exitVars, gave_up>>
  BY DEF FinalChecks
<1>3. /\ found_common_model_first /\ found_end_marker => rc' = rc /\ rc' = 0
      /\ ~(found_common_model_first /\ found_end_marker) => rc' = -1
  BY <1>1, <1>2 DEF FinalChecks, FoundInv, VerdictInv
<1>4. TypeOK'
  <2>1. rc' \in {-1, 0}
    BY <1>3
  <2> QED
    BY <1>1, <1>2, <2>1 DEF TypeOK
<1>5. SearchInv' /\ PositionInv' /\ FoundInv'
  BY <1>1, <1>2, <1>3 DEF SearchInv, PositionInv, FoundInv, FirstIsCommon
<1>6. VerdictInv' /\ CauseInv'
  <2>1. Scan!WellFormed(dev)' <=> Scan!WellFormed(dev)
    BY <1>2 DEF Scan!WellFormed
  <2> QED
    BY <1>1, <1>2, <1>3, <2>1 DEF VerdictInv, CauseInv
<1>7. DatasetsFaithful' /\ DatasetsNumbered'
  BY <1>1, <1>2, SameDatasets
<1> QED
  BY <1>4, <1>5, <1>6, <1>7 DEF IInv

\* Exit: the datasets are printed, or not, by the return code.
LEMMA ExitStep ==
    ASSUME dev \in Devices, IInv, Exit
    PROVE  IInv'
<1> USE DEF localVars, foundVars, exitVars
<1>1. TypeOK /\ SearchInv /\ PositionInv /\ FoundInv /\ VerdictInv /\ CauseInv
      /\ DatasetsFaithful /\ DatasetsNumbered
  BY DEF IInv
<1>2. /\ pc = "returned" /\ pc' = "exited"
      /\ UNCHANGED <<dev, i, retries, base_register, offset, model_count,
                     localVars, regs, datasets, foundVars, rc, gave_up>>
  BY DEF Exit
<1>3. /\ rc < 0 => status' = "failure" /\ printed' = printed
      /\ ~(rc < 0) => status' = "success" /\ printed' = datasets
      /\ rc = -1 \/ rc = 0
  BY <1>1 DEF Exit, TypeOK
<1>4. status = "running" /\ printed = <<>>
  BY <1>1, <1>2 DEF VerdictInv
<1>5. TypeOK'
  <2>1. status' \in {"running", "success", "failure"}
    BY <1>3
  <2> QED
    BY <1>1, <1>2, <2>1 DEF TypeOK
<1>6. SearchInv' /\ PositionInv' /\ FoundInv'
  BY <1>1, <1>2 DEF SearchInv, PositionInv, FoundInv, FirstIsCommon
<1>7. VerdictInv'
  BY <1>1, <1>2, <1>3, <1>4 DEF VerdictInv
<1>8. CauseInv'
  <2>1. Scan!WellFormed(dev)' <=> Scan!WellFormed(dev)
    BY <1>2 DEF Scan!WellFormed
  <2> QED
    BY <1>1, <1>2, <2>1 DEF CauseInv
<1>9. DatasetsFaithful' /\ DatasetsNumbered'
  BY <1>1, <1>2, SameDatasets
<1> QED
  BY <1>5, <1>6, <1>7, <1>8, <1>9 DEF IInv

\* Steps that change nothing.
LEMMA StutterStep ==
    ASSUME IInv, UNCHANGED vars
    PROVE  IInv'
<1> USE DEF vars, localVars, foundVars, exitVars
<1>1. TypeOK /\ SearchInv /\ PositionInv /\ FoundInv /\ VerdictInv /\ CauseInv
      /\ DatasetsFaithful /\ DatasetsNumbered
  BY DEF IInv
<1>2. TypeOK' /\ SearchInv' /\ PositionInv' /\ FoundInv' /\ VerdictInv' /\ CauseInv'
  BY <1>1 DEF TypeOK, SearchInv, PositionInv, FoundInv, FirstIsCommon, VerdictInv,
              CauseInv
<1>3. DatasetsFaithful' /\ DatasetsNumbered'
  BY <1>1, SameDatasets
<1> QED
  BY <1>2, <1>3 DEF IInv

-----------------------------------------------------------------------------
\* The invariant

\* Every step of the program keeps the invariant.
LEMMA StepInv ==
    ASSUME dev \in Devices, IInv, [Next]_vars
    PROVE  dev' \in Devices /\ IInv'
<1>1. dev' = dev
  <2> USE DEF vars, localVars, foundVars, exitVars
  <2>1. HeaderArrives => dev' = dev
    BY DEF HeaderArrives
  <2>2. ChunkArrives => dev' = dev
    BY DEF ChunkArrives
  <2>3. TryNextRegister => dev' = dev
    BY DEF TryNextRegister
  <2>4. SearchRead \/ SearchIllegal \/ SearchGiveUp => dev' = dev
    BY <2>3 DEF SearchRead, SearchIllegal, SearchGiveUp
  <2>5. ReadEndMarker \/ ReadZeroDid \/ ReadHeader \/ ReadChunk \/ ReadLastChunk
           => dev' = dev
    BY <2>1, <2>2 DEF ReadEndMarker, ReadZeroDid, ReadHeader, ReadChunk, ReadLastChunk
  <2>6. ReadFails \/ GiveUp \/ FinalChecks \/ Exit \/ Terminated => dev' = dev
    BY DEF ReadFails, GiveUp, FinalChecks, Exit, Terminated
  <2>7. UNCHANGED vars => dev' = dev
    OBVIOUS
  <2> QED
    BY <2>4, <2>5, <2>6, <2>7 DEF Next
<1>2. CASE SearchRead
  BY <1>1, <1>2, SearchReadStep
<1>3. CASE SearchIllegal \/ SearchGiveUp
  BY <1>1, <1>3, SearchPassStep
<1>4. CASE ReadFails
  BY <1>1, <1>4, ReadFailsStep
<1>5. CASE GiveUp
  BY <1>1, <1>5, GiveUpStep
<1>6. CASE ReadEndMarker
  BY <1>1, <1>6, ReadEndMarkerStep
<1>7. CASE ReadZeroDid
  BY <1>1, <1>7, ReadZeroDidStep
<1>8. CASE ReadHeader
  BY <1>1, <1>8, ReadHeaderStep
<1>9. CASE ReadChunk
  BY <1>1, <1>9, ReadChunkStep
<1>10. CASE ReadLastChunk
  BY <1>1, <1>10, ReadLastChunkStep
<1>11. CASE FinalChecks
  BY <1>1, <1>11, FinalChecksStep
<1>12. CASE Exit
  BY <1>1, <1>12, ExitStep
<1>13. CASE UNCHANGED vars
  BY <1>1, <1>13, StutterStep
<1>14. Terminated => UNCHANGED vars
  BY DEF Terminated
<1>15. dev' \in Devices /\ IInv'
  BY <1>2, <1>3, <1>4, <1>5, <1>6, <1>7, <1>8, <1>9, <1>10, <1>11, <1>12, <1>13,
     <1>14 DEF Next
<1> QED
  BY <1>15

\* The inductive invariant holds in every reachable state, for every device,
\* every set of models and every -r and -l setting.
THEOREM Invariant == Spec => [](dev \in Devices /\ IInv)
<1>1. (dev \in Devices /\ IInv) /\ [Next]_vars => (dev \in Devices /\ IInv)'
  BY StepInv
<1> QED
  BY InitInv, <1>1, PTL DEF Spec

\* No variable leaves its type; in particular, whatever -l is, the chunks of
\* suns_app_read_registers() never go past the end of the block whose header was
\* read.  That the block itself fits regs[] is assumed of the devices.
THEOREM TypeCorrect == Spec => []TypeOK
<1>1. IInv => TypeOK
  BY DEF IInv
<1> QED
  BY Invariant, <1>1, PTL

\* What is collected is what the device holds: suns_app_read_device() never
\* skips, repeats, reorders or mixes up data blocks.
THEOREM FaithfulCollection == Spec => []DatasetsFaithful
<1>1. IInv => DatasetsFaithful
  BY DEF IInv
<1> QED
  BY Invariant, <1>1, PTL

\* suns_model_get_did_index() never uses an index of a did twice.
THEOREM UniqueNumbering == Spec => []DatasetsNumbered
<1>1. IInv => DatasetsNumbered
  BY DEF IInv
<1> QED
  BY Invariant, <1>1, PTL

\* A well-formed device is refused only after a read ran out of attempts.
THEOREM NoSpuriousFailure == Spec => []FailureHasCause
<1>1. IInv => FailureHasCause
  <2>1. SUFFICES ASSUME IInv, status = "failure", Scan!WellFormed(dev), ~gave_up
        PROVE  FALSE
    BY DEF FailureHasCause
  <2>2. VerdictInv /\ CauseInv
    BY <2>1 DEF IInv
  <2>3. pc = "exited" /\ rc = -1
    BY <2>1, <2>2 DEF VerdictInv
  <2>4. rc = 0
    BY <2>1, <2>2, <2>3 DEF CauseInv
  <2> QED
    BY <2>3, <2>4
<1> QED
  BY Invariant, <1>1, PTL

-----------------------------------------------------------------------------
\* What a step may do, and what the program implements

\* Attached datasets stay as they are: suns_device_add_dataset() only appends
\* and suns_model_get_did_index() only numbers a first occurrence.
THEOREM CollectionOnlyGrows == Spec => DatasetsOnlyGrow
<1> DEFINE Grows ==
      /\ Len(datasets') >= Len(datasets)
      /\ \A n \in 1 .. Len(datasets) :
            /\ datasets'[n] = [datasets[n] EXCEPT !.index = datasets'[n].index]
            /\ datasets'[n].index # datasets[n].index
                 => datasets[n].index = 0 /\ datasets'[n].index = 1
<1>1. ASSUME dev \in Devices, IInv, [Next]_vars
      PROVE  Grows
  <2>1. datasets \in Seq(Dataset)
    BY <1>1 DEF IInv, TypeOK
  <2>2. \A n \in 1 .. Len(datasets) : datasets[n] \in Dataset
    BY <2>1
  <2>3. CASE datasets' = datasets
    <3>1. \A n \in 1 .. Len(datasets) :
             datasets[n] = [datasets[n] EXCEPT !.index = datasets[n].index]
      BY <2>2 DEF Dataset
    <3> QED
      BY <2>1, <2>3, <3>1
  <2>4. CASE ReadLastChunk /\ did # NULL
    <3> DEFINE new == Decode(offset, regs')
               old == LastWithDid(datasets, new.did)
    <3>1. datasets' = AddDataset(datasets, new)
      BY <2>4 DEF ReadLastChunk
    <3>2. new \in Dataset
      BY <1>1, <2>4, BlockComplete
    <3> HIDE DEF new, old
    <3>3. /\ Len(datasets') = Len(datasets) + 1
          /\ \A n \in 1 .. Len(datasets) :
                datasets'[n] = IF n = old /\ datasets[n].index = 0
                               THEN [datasets[n] EXCEPT !.index = 1]
                               ELSE datasets[n]
      <4> DEFINE sum == AddDataset(datasets, new)
      <4>1. /\ Len(sum) = Len(datasets) + 1
            /\ \A n \in 1 .. Len(datasets) :
                  sum[n] = IF n = LastWithDid(datasets, new.did)
                              /\ datasets[n].index = 0
                           THEN [datasets[n] EXCEPT !.index = 1]
                           ELSE datasets[n]
        BY <2>1, <3>2, AddDatasetFacts
      <4> HIDE DEF sum
      <4>2. datasets' = sum
        BY <3>1 DEF sum
      <4> QED
        BY <4>1, <4>2 DEF old
    <3>4. \A n \in 1 .. Len(datasets) :
             /\ datasets[n] = [datasets[n] EXCEPT !.index = datasets[n].index]
             /\ [datasets[n] EXCEPT !.index = 1].index = 1
      BY <2>2 DEF Dataset
    <3>5. ASSUME NEW n \in 1 .. Len(datasets)
          PROVE  /\ datasets'[n] = [datasets[n] EXCEPT !.index = datasets'[n].index]
                 /\ datasets'[n].index # datasets[n].index
                      => datasets[n].index = 0 /\ datasets'[n].index = 1
      <4>1. CASE n = old /\ datasets[n].index = 0
        <5>1. datasets'[n] = [datasets[n] EXCEPT !.index = 1]
          BY <3>3, <4>1
        <5>2. datasets'[n].index = 1
          BY <3>4, <5>1
        <5> QED
          BY <4>1, <5>1, <5>2
      <4>2. CASE ~(n = old /\ datasets[n].index = 0)
        <5>1. datasets'[n] = datasets[n]
          BY <3>3, <4>2
        <5> QED
          BY <3>4, <5>1
      <4> QED
        BY <4>1, <4>2
    <3> QED
      BY <2>1, <3>3, <3>5
  <2>5. datasets' = datasets \/ (ReadLastChunk /\ did # NULL)
    <3> USE DEF vars, localVars, foundVars, exitVars
    <3>1. HeaderArrives \/ TryNextRegister => datasets' = datasets
      BY DEF HeaderArrives, TryNextRegister
    <3>2. SearchRead \/ SearchIllegal \/ SearchGiveUp => datasets' = datasets
      BY <3>1 DEF SearchRead, SearchIllegal, SearchGiveUp
    <3>3. ReadEndMarker \/ ReadZeroDid \/ ReadHeader \/ ReadChunk
             => datasets' = datasets
      BY <3>1 DEF ReadEndMarker, ReadZeroDid, ReadHeader, ReadChunk
    <3>4. ReadFails \/ GiveUp \/ FinalChecks \/ Exit \/ Terminated
             => datasets' = datasets
      BY DEF ReadFails, GiveUp, FinalChecks, Exit, Terminated
    <3>5. ReadLastChunk => datasets' = datasets \/ did # NULL
      BY DEF ReadLastChunk
    <3> QED
      BY <1>1, <3>2, <3>3, <3>4, <3>5 DEF Next
  <2> QED
    BY <2>3, <2>4, <2>5
<1>2. Grows => [Grows]_vars
  OBVIOUS
<1> HIDE DEF Grows
<1>3. Spec => [][Grows]_vars
  BY Invariant, <1>1, PTL DEF Spec
<1> QED
  BY <1>3 DEF DatasetsOnlyGrow, Grows

\* suns_app_read_device() with main() implements DeviceScan: whatever the
\* line does, the program prints all of a well-formed device or nothing.
THEOREM Refinement == Spec => AllOrNothing
<1>1. Init => Scan!Init
  BY DEF Init, Scan!Init
<1>2. ASSUME dev \in Devices, IInv, [Next]_vars
      PROVE  [Scan!Next]_Scan!vars
  <2> USE DEF vars, localVars, foundVars, exitVars
  <2>1. VerdictInv /\ FoundInv /\ SearchInv /\ TypeOK
        /\ DatasetsFaithful /\ DatasetsNumbered
    BY <1>2 DEF IInv
  <2>2. CASE Exit /\ rc < 0
    <3>1. /\ status = "running" /\ status' = "failure"
          /\ UNCHANGED <<dev, printed>>
      BY <2>1, <2>2 DEF Exit, VerdictInv
    <3>2. Scan!Fail
      BY <3>1 DEF Scan!Fail
    <3> QED
      BY <3>2 DEF Scan!Next
  <2>3. CASE Exit /\ ~(rc < 0)
    <3>1. /\ pc = "returned" /\ rc = 0 /\ status = "running"
          /\ status' = "success" /\ printed' = datasets /\ dev' = dev
      BY <2>1, <2>3 DEF Exit, VerdictInv, TypeOK
    <3>2. found_common_model_first /\ found_end_marker
      BY <2>1, <3>1 DEF VerdictInv
    <3>3. /\ model_count >= 1 /\ FirstIsCommon(dev)
          /\ offset = dev.start[Len(dev.start)] /\ Readable(dev, offset, 2)
          /\ IsEndMarker(Header(dev, offset))
      BY <2>1, <3>2 DEF FoundInv
    <3>4. base_register \in Windows /\ dev.window[base_register] = Signature
      BY <2>1, <3>2 DEF SearchInv, TypeOK
    <3>5. Scan!Blocks(dev) # {}
      <4>1. Len(dev.start) = 1 => Scan!DidOf(dev, 1) = MaxWord
        BY <3>3, ScanOperators DEF Scan!DidOf, IsEndMarker
      <4>2. Len(dev.start) # 1
        BY <3>3, <4>1 DEF FirstIsCommon, MaxWord
      <4>3. Len(dev.start) \in Nat \ {0}
        BY <1>2, DeviceFacts
      <4>4. \A n \in Nat \ {0} : n # 1 => 1 \in 1 .. n - 1
        OBVIOUS
      <4> QED
        BY <4>2, <4>3, <4>4 DEF Scan!Blocks
    <3>6. Scan!WellFormed(dev)
      <4>1. Scan!Readable(dev, offset, 2)
            /\ Scan!IsEndMarker(Scan!Header(dev, offset))
        BY <3>3, ScanOperators
      <4>2. base_register \in Scan!Windows
            /\ dev.window[base_register] = Scan!Signature
        BY <3>4, ScanOperators
      <4>3. 1 \in KnownDids /\ Scan!DidOf(dev, 1) = 1
        BY <3>3 DEF FirstIsCommon
      <4> QED
        BY <3>3, <3>5, <4>1, <4>2, <4>3 DEF Scan!WellFormed
    <3>7. Scan!IsScanOf(printed', dev)
      BY <2>1, <3>1, <3>3 DEF Scan!IsScanOf, DatasetsFaithful, DatasetsNumbered
    <3>8. Scan!Deliver
      BY <3>1, <3>6, <3>7 DEF Scan!Deliver
    <3> QED
      BY <3>8 DEF Scan!Next
  <2>4. CASE ~Exit
    <3>1. HeaderArrives \/ TryNextRegister => UNCHANGED <<dev, exitVars>>
      BY DEF HeaderArrives, TryNextRegister
    <3>2. ChunkArrives => UNCHANGED dev
      BY DEF ChunkArrives
    <3>3. SearchRead \/ SearchIllegal \/ SearchGiveUp => UNCHANGED <<dev, exitVars>>
      BY <3>1 DEF SearchRead, SearchIllegal, SearchGiveUp
    <3>4. ReadEndMarker \/ ReadZeroDid \/ ReadHeader => UNCHANGED <<dev, exitVars>>
      BY <3>1 DEF ReadEndMarker, ReadZeroDid, ReadHeader
    <3>5. ReadChunk \/ ReadLastChunk => UNCHANGED <<dev, exitVars>>
      BY DEF ReadChunk, ReadLastChunk, ChunkArrives
    <3>6. ReadFails \/ GiveUp \/ FinalChecks \/ Terminated => UNCHANGED <<dev, exitVars>>
      BY DEF ReadFails, GiveUp, FinalChecks, Terminated
    <3>7. UNCHANGED <<dev, exitVars>>
      BY <1>2, <2>4, <3>3, <3>4, <3>5, <3>6 DEF Next
    <3> QED
      BY <3>7 DEF Scan!vars
  <2> QED
    BY <2>2, <2>3, <2>4
<1> QED
  BY Invariant, <1>1, <1>2, PTL DEF Spec, AllOrNothing, Scan!Spec
=============================================================================
