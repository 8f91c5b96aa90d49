---------------------------- MODULE TempHum_proofs --------------------------
(***************************************************************************)
(* The ring of dh11Read is a sliding window, for every size and whatever   *)
(* the sensor sends, and what dh11Read gives is the mean of that window:   *)
(* the two sums add the same samples from different places of the ring.    *)
(***************************************************************************)
EXTENDS TempHum, Induction, SequenceTheorems

\* The ring has been full exactly when th_amount says so.
RingInv ==
  /\ th_num \in 0 .. MEAN_NUM /\ th_amount \in {0, MEAN_NUM}
  /\ th_bufs \in [Places -> Sample]
  /\ th_amount = 0 => th_num < MEAN_NUM
  /\ th_amount # 0 => th_num > 0

\* The ring is empty at first.
LEMMA InitRing == Init => RingInv
BY TempHumAssumption DEF Init, RingInv, Sample, Places

\* A reading of the sensor keeps the ring well formed.
LEMMA ReadRing ==
  ASSUME RingInv, NEW s \in Sample, dh11Read(s)
  PROVE  RingInv'
<1> USE TempHumAssumption
<1> DEFINE place == IF th_num < MEAN_NUM THEN th_num ELSE 0
<1>0. th_bufs' = [th_bufs EXCEPT ![place] = s] /\ th_num' = place + 1
  BY DEF dh11Read, Store
<1>1. /\ place \in Places /\ place = IF th_num < MEAN_NUM THEN th_num ELSE 0
      /\ th_bufs' = [th_bufs EXCEPT ![place] = s] /\ th_num' = place + 1
  BY <1>0 DEF RingInv, Places
<1> HIDE DEF place
<1>2. th_bufs' \in [Places -> Sample]
  BY <1>1 DEF RingInv
<1>3. th_amount' = IF th_num' >= MEAN_NUM THEN MEAN_NUM ELSE th_amount
  BY DEF dh11Read
<1> QED
  BY <1>1, <1>2, <1>3 DEF RingInv, Places

\* Every outcome of a reading keeps the ring well formed.
LEMMA StepRing == RingInv /\ [Next]_vars => RingInv'
<1> SUFFICES ASSUME RingInv, [Next]_vars PROVE RingInv'
  OBVIOUS
<1>1. CASE Answer
  BY <1>1, ReadRing DEF Answer, Sample
<1>2. CASE BadFrame
  BY <1>2, ReadRing DEF BadFrame, Sample
<1>3. CASE NoAnswer \/ UNCHANGED vars
  BY <1>3 DEF NoAnswer, vars, RingInv
<1> QED
  BY <1>1, <1>2, <1>3 DEF Next

\* The ring is well formed for ever.
LEMMA RingAlways == Spec => []RingInv
BY InitRing, StepRing, PTL DEF Spec

\* An append as a function.
LEMMA AppendIs ==
  ASSUME NEW S, NEW q \in Seq(S), NEW e \in S
  PROVE  Append(q, e) = [i \in 1 .. Len(q) + 1 |-> IF i = Len(q) + 1 THEN e ELSE q[i]]
<1>1. /\ Append(q, e) \in Seq(S) /\ Len(Append(q, e)) = Len(q) + 1 /\ Len(q) \in Nat
      /\ Append(q, e)[Len(q) + 1] = e
      /\ \A i \in 1 .. Len(q) : Append(q, e)[i] = q[i]
  BY AppendProperties, LenProperties
<1>2. Append(q, e) = [i \in 1 .. Len(q) + 1 |-> Append(q, e)[i]]
  BY <1>1, LenProperties
<1>3. \A i \in 1 .. Len(q) + 1 : i # Len(q) + 1 => i \in 1 .. Len(q)
  BY <1>1
<1> QED
  BY <1>1, <1>2, <1>3

\* A new sample slides the unrolled ring.
LEMMA ReadSlides ==
  ASSUME RingInv, NEW s \in Sample, dh11Read(s)
  PROVE  Window' = Promise!Slide(Window, s)
<1> USE TempHumAssumption
<1> DEFINE place == IF th_num < MEAN_NUM THEN th_num ELSE 0
<1>0. th_bufs' = [th_bufs EXCEPT ![place] = s] /\ th_num' = place + 1
  BY DEF dh11Read, Store
<1>1. /\ place \in Places /\ place = IF th_num < MEAN_NUM THEN th_num ELSE 0
      /\ th_bufs' = [th_bufs EXCEPT ![place] = s] /\ th_num' = place + 1
  BY <1>0 DEF RingInv, Places
<1> HIDE DEF place
<1>2. th_amount' = IF th_num' >= MEAN_NUM THEN MEAN_NUM ELSE th_amount
  BY DEF dh11Read
<1>3. \A i \in Places : th_bufs'[i] = IF i = place THEN s ELSE th_bufs[i]
  BY <1>1 DEF RingInv
<1>4. CASE th_amount = 0
  <2>1. place = th_num /\ th_num < MEAN_NUM /\ th_num' = th_num + 1 /\ th_num \in Nat
    BY <1>1, <1>4 DEF RingInv
  <2>2. Window = [i \in 1 .. th_num |-> th_bufs[i - 1]]
    BY <1>4 DEF Window
  <2>3. \A i \in 1 .. th_num : th_bufs[i - 1] \in Sample
    BY <2>1 DEF RingInv, Places
  <2>4. Window \in Seq(Sample) /\ Len(Window) = th_num
    BY <2>1, <2>2, <2>3
  <2>5. Promise!Slide(Window, s) = Append(Window, s)
    BY <2>1, <2>4 DEF Promise!Slide
  <2>6. Append(Window, s) = [i \in 1 .. th_num + 1 |-> IF i = th_num + 1 THEN s ELSE th_bufs[i - 1]]
    BY <2>1, <2>2, <2>4
  <2>7. Window' = [i \in 1 .. th_num + 1 |-> th_bufs'[i - 1]]
    <3>1. CASE th_num + 1 < MEAN_NUM
      BY <3>1, <2>1, <1>2, <1>4 DEF Window
    <3>2. CASE th_num + 1 = MEAN_NUM
      <4>1. th_amount' = MEAN_NUM /\ MEAN_NUM # 0 /\ th_num' = MEAN_NUM
        BY <3>2, <2>1, <1>2
      <4> QED
        BY <4>1, <3>2 DEF Window
    <3> QED
      BY <3>1, <3>2, <2>1
  <2>8. \A i \in 1 .. th_num + 1 : th_bufs'[i - 1] = IF i = th_num + 1 THEN s ELSE th_bufs[i - 1]
    BY <2>1, <1>3 DEF Places
  <2> QED
    BY <2>5, <2>6, <2>7, <2>8
<1>5. CASE th_amount # 0
  <2>1. /\ th_amount = MEAN_NUM /\ th_amount' = MEAN_NUM /\ MEAN_NUM # 0
        /\ th_num \in 1 .. MEAN_NUM /\ th_num' \in 1 .. MEAN_NUM
    BY <1>1, <1>2, <1>5 DEF RingInv, Places
  <2> DEFINE At(n, i) == IF n + i <= MEAN_NUM THEN n + i - 1 ELSE n + i - 1 - MEAN_NUM
  <2>2. Window = [i \in 1 .. MEAN_NUM |-> th_bufs[At(th_num, i)]]
    BY <2>1 DEF Window
  <2>3. Window' = [i \in 1 .. MEAN_NUM |-> th_bufs'[At(th_num', i)]]
    BY <2>1 DEF Window
  <2>4. \A n \in 1 .. MEAN_NUM : \A i \in 1 .. MEAN_NUM : At(n, i) \in Places
    BY DEF Places
  <2>5. \A i \in 1 .. MEAN_NUM - 1 : At(th_num', i) = At(th_num, i + 1) /\ At(th_num', i) # place
    BY <1>1, <2>1 DEF Places
  <2>6. At(th_num', MEAN_NUM) = place
    BY <1>1, <2>1 DEF Places
  <2> HIDE DEF At
  <2>7. Window \in Seq(Sample) /\ Len(Window) = MEAN_NUM
    <3>1. \A i \in 1 .. MEAN_NUM : th_bufs[At(th_num, i)] \in Sample
      BY <2>1, <2>4 DEF RingInv
    <3> QED
      BY <2>2, <3>1
  <2>8. Promise!Slide(Window, s) = Append(Tail(Window), s)
    BY <2>7 DEF Promise!Slide
  <2>9. /\ Tail(Window) \in Seq(Sample) /\ Len(Tail(Window)) = MEAN_NUM - 1
        /\ \A i \in 1 .. MEAN_NUM - 1 : Tail(Window)[i] = Window[i + 1]
    BY <2>7
  <2>10. Append(Tail(Window), s)
           = [i \in 1 .. MEAN_NUM |-> IF i = MEAN_NUM THEN s ELSE Window[i + 1]]
    <3>1. Append(Tail(Window), s)
            = [i \in 1 .. (MEAN_NUM - 1) + 1 |-> IF i = (MEAN_NUM - 1) + 1 THEN s ELSE Tail(Window)[i]]
      <4> DEFINE q == Tail(Window)
      <4>1. q \in Seq(Sample) /\ Len(q) = MEAN_NUM - 1
        BY <2>9
      <4> HIDE DEF q
      <4>2. Append(q, s) = [i \in 1 .. (MEAN_NUM - 1) + 1 |-> IF i = (MEAN_NUM - 1) + 1 THEN s ELSE q[i]]
        BY <4>1, AppendIs
      <4> QED
        BY <4>2 DEF q
    <3>2. (MEAN_NUM - 1) + 1 = MEAN_NUM
      OBVIOUS
    <3>3. \A i \in 1 .. MEAN_NUM : i # MEAN_NUM => i \in 1 .. MEAN_NUM - 1
      OBVIOUS
    <3> QED
      BY <2>9, <3>1, <3>2, <3>3
  <2>11. \A i \in 1 .. MEAN_NUM : th_bufs'[At(th_num', i)]
                                    = IF i = MEAN_NUM THEN s ELSE Window[i + 1]
    <3> TAKE i \in 1 .. MEAN_NUM
    <3>1. CASE i = MEAN_NUM
      BY <3>1, <2>6, <1>1, <1>3
    <3>2. CASE i # MEAN_NUM
      <4>1. i \in 1 .. MEAN_NUM - 1 /\ i + 1 \in 1 .. MEAN_NUM
        BY <3>2
      <4>2. At(th_num', i) = At(th_num, i + 1) /\ At(th_num', i) # place
        BY <4>1, <2>5
      <4>3. At(th_num', i) \in Places
        BY <2>1, <2>4
      <4>4. Window[i + 1] = th_bufs[At(th_num, i + 1)]
        BY <4>1, <2>2
      <4>5. th_bufs'[At(th_num', i)] = th_bufs[At(th_num', i)]
        BY <4>2, <4>3, <1>3
      <4> QED
        BY <3>2, <4>2, <4>4, <4>5
    <3> QED
      BY <3>1, <3>2
  <2> QED
    BY <2>3, <2>8, <2>10, <2>11
<1> QED
  BY <1>4, <1>5

\* Each frame of the sensor, good or bad, drops the oldest sample of a full
\* ring and adds the new one; nothing else moves the ring.
THEOREM RingIsSlidingWindow == Spec => RingSlides
<1>1. ASSUME RingInv, [Next]_vars
      PROVE  [\E s \in Sample : Window' = Promise!Slide(Window, s)]_Window
  <2>1. CASE Answer \/ BadFrame
    <3>1. PICK s \in Sample : dh11Read(s)
      BY <2>1 DEF Answer, BadFrame, Sample
    <3> QED
      BY <1>1, <3>1, ReadSlides
  <2>2. CASE NoAnswer \/ UNCHANGED vars
    BY <2>2 DEF NoAnswer, vars, Window
  <2> QED
    BY <1>1, <2>1, <2>2 DEF Next
<1> QED
  BY <1>1, RingAlways, PTL DEF Spec, RingSlides

-----------------------------------------------------------------------------
(* The mean.                                                               *)

\* f sums up g: f[i] is the sum of the first i.
SumsUp(f, n, g) ==
  f \in [0 .. n -> Nat] /\ f[0] = 0 /\ \A i \in 1 .. n : f[i] = f[i - 1] + g[i]

\* A sum is the same from any place on round the ring.
LEMMA SumGoesRound ==
  ASSUME NEW n \in Nat, NEW k \in 0 .. n, NEW f, NEW g, NEW fs, NEW gs,
         SumsUp(fs, n, f), SumsUp(gs, n, g),
         \A i \in 1 .. n : f[i] \in Nat,
         \A i \in 1 .. n : g[i] = IF k + i <= n THEN f[k + i] ELSE f[k + i - n]
  PROVE  fs[n] = gs[n]
<1>1. /\ fs \in [0 .. n -> Nat] /\ fs[0] = 0 /\ gs \in [0 .. n -> Nat] /\ gs[0] = 0
      /\ \A i \in 1 .. n : fs[i] = fs[i - 1] + f[i]
      /\ \A i \in 1 .. n : gs[i] = gs[i - 1] + g[i]
  BY DEF SumsUp
<1>2. n - k \in Nat /\ k \in Nat /\ k \in 0 .. n /\ n - k \in 0 .. n
  OBVIOUS
<1>3. \A i \in 0 .. n - k : gs[i] = fs[k + i] - fs[k]
  <2> DEFINE S == {i \in Nat : gs[i] = fs[k + i] - fs[k]}
  <2>1. 0 \in S
    BY <1>1, <1>2
  <2>2. ASSUME NEW i \in 0 .. n - k - 1, i \in S PROVE i + 1 \in S
    <3>1. /\ i + 1 \in 1 .. n /\ k + (i + 1) \in 1 .. n /\ k + i \in 0 .. n /\ i \in 0 .. n
          /\ (i + 1) - 1 = i /\ (k + (i + 1)) - 1 = k + i /\ k + (i + 1) <= n
      OBVIOUS
    <3>2. gs[i + 1] = gs[i] + f[k + (i + 1)]
      BY <1>1, <3>1
    <3>3. fs[k + (i + 1)] = fs[k + i] + f[k + (i + 1)]
      BY <1>1, <3>1
    <3>4. gs[i] = fs[k + i] - fs[k]
      BY <2>2
    <3>5. fs[k + i] \in Nat /\ fs[k] \in Nat /\ f[k + (i + 1)] \in Nat /\ gs[i] \in Nat
      BY <1>1, <1>2, <3>1
    <3>6. gs[i + 1] = fs[k + (i + 1)] - fs[k]
      BY <3>2, <3>3, <3>4, <3>5
    <3> QED
      BY <3>1, <3>6
  <2> HIDE DEF S
  <2>3. 0 .. n - k \subseteq S
    BY <1>2, <2>1, <2>2, BoundedInduction
  <2> QED
    BY <2>3 DEF S
<1>4. \A j \in 0 .. k : gs[n - k + j] = fs[n] - fs[k] + fs[j]
  <2> DEFINE S == {j \in Nat : gs[n - k + j] = fs[n] - fs[k] + fs[j]}
  <2>1. 0 \in S
    <3>1. n - k \in 0 .. n - k /\ k + (n - k) = n /\ n - k + 0 = n - k
      BY <1>2
    <3>2. gs[n - k] = fs[n] - fs[k]
      BY <1>3, <3>1
    <3>3. fs[n] \in Nat /\ fs[k] \in Nat /\ 0 \in Nat
      BY <1>1, <1>2
    <3> QED
      BY <1>1, <3>1, <3>2, <3>3
  <2>2. ASSUME NEW j \in 0 .. k - 1, j \in S PROVE j + 1 \in S
    <3>1. /\ n - k + (j + 1) \in 1 .. n /\ (n - k + (j + 1)) - 1 = n - k + j
          /\ ~(k + (n - k + (j + 1)) <= n) /\ k + (n - k + (j + 1)) - n = j + 1
          /\ j + 1 \in 1 .. n /\ (j + 1) - 1 = j /\ j \in 0 .. n /\ n \in 0 .. n
          /\ n - k + j \in 0 .. n /\ j + 1 \in Nat
      OBVIOUS
    <3>2. gs[n - k + (j + 1)] = gs[n - k + j] + f[j + 1]
      BY <1>1, <3>1
    <3>3. fs[j + 1] = fs[j] + f[j + 1]
      BY <1>1, <3>1
    <3>4. gs[n - k + j] = fs[n] - fs[k] + fs[j]
      BY <2>2
    <3>5. fs[n] \in Nat /\ fs[k] \in Nat /\ fs[j] \in Nat /\ f[j + 1] \in Nat
      BY <1>1, <1>2, <3>1
    <3>6. gs[n - k + (j + 1)] = fs[n] - fs[k] + fs[j + 1]
      BY <3>2, <3>3, <3>4, <3>5
    <3> QED
      BY <3>1, <3>6
  <2> HIDE DEF S
  <2>3. 0 .. k \subseteq S
    BY <1>2, <2>1, <2>2, BoundedInduction
  <2> QED
    BY <2>3 DEF S
<1>5. gs[n] = fs[n] - fs[k] + fs[k]
  <2>1. k \in 0 .. k /\ n - k + k = n
    BY <1>2
  <2> QED
    BY <1>4, <2>1
<1>6. fs[n] \in Nat /\ fs[k] \in Nat
  BY <1>1, <1>2
<1> QED
  BY <1>5, <1>6

\* A byte adds no more than 255.
LEMMA ByteAdded ==
  ASSUME NEW m \in Nat, NEW a \in 0 .. m, NEW b \in 0 .. 255
  PROVE  a + b \in 0 .. m + 255
OBVIOUS

\* A byte is a natural number.
LEMMA ByteIsNat ==
  ASSUME NEW b \in 0 .. 255
  PROVE  b \in Nat
OBVIOUS

\* The sums of both readings, in records and apart.
LEMMA SumsApart ==
  ASSUME NEW n \in Nat, NEW g, NEW sum, sum[0] = [tem |-> 0, hum |-> 0],
         \A i \in 1 .. n : g[i] \in [tem : 0 .. 255, hum : 0 .. 255],
         \A i \in 1 .. n : sum[i] = [tem |-> sum[i - 1].tem + g[i].tem,
                                    hum |-> sum[i - 1].hum + g[i].hum]
  PROVE  /\ SumsUp([i \in 0 .. n |-> sum[i].tem], n, [i \in 1 .. n |-> g[i].tem])
         /\ SumsUp([i \in 0 .. n |-> sum[i].hum], n, [i \in 1 .. n |-> g[i].hum])
         /\ \A i \in 0 .. n : sum[i].tem \in 0 .. 255 * i /\ sum[i].hum \in 0 .. 255 * i
<1>0. \A i \in 1 .. n : /\ sum[i].tem = sum[i - 1].tem + g[i].tem
                       /\ sum[i].hum = sum[i - 1].hum + g[i].hum
  <2> TAKE i \in 1 .. n
  <2> DEFINE a == sum[i - 1].tem + g[i].tem
             b == sum[i - 1].hum + g[i].hum
  <2>1. sum[i] = [tem |-> a, hum |-> b]
    OBVIOUS
  <2> HIDE DEF a, b
  <2>2. sum[i].tem = a /\ sum[i].hum = b
    BY <2>1
  <2> QED
    BY <2>2 DEF a, b
<1>1. \A i \in 0 .. n : sum[i].tem \in 0 .. 255 * i /\ sum[i].hum \in 0 .. 255 * i
  <2> DEFINE S == {i \in Nat : sum[i].tem \in 0 .. 255 * i /\ sum[i].hum \in 0 .. 255 * i}
  <2>1. 0 \in S
    OBVIOUS
  <2>2. ASSUME NEW i \in 0 .. n - 1, i \in S PROVE i + 1 \in S
    <3>1. i + 1 \in 1 .. n /\ (i + 1) - 1 = i /\ i + 1 \in Nat /\ 255 * (i + 1) = 255 * i + 255
      OBVIOUS
    <3>2. sum[i + 1].tem = sum[i].tem + g[i + 1].tem /\ sum[i + 1].hum = sum[i].hum + g[i + 1].hum
      BY <1>0, <3>1
    <3>3. g[i + 1].tem \in 0 .. 255 /\ g[i + 1].hum \in 0 .. 255
      BY <3>1
    <3>4. sum[i].tem \in 0 .. 255 * i /\ sum[i].hum \in 0 .. 255 * i
      BY <2>2
    <3>5. /\ sum[i].tem + g[i + 1].tem \in 0 .. 255 * i + 255
          /\ sum[i].hum + g[i + 1].hum \in 0 .. 255 * i + 255
      <4>1. 255 * i \in Nat
        OBVIOUS
      <4> QED
        BY <3>3, <3>4, <4>1, ByteAdded, ZenonT(60)
    <3> QED
      BY <3>1, <3>2, <3>5
  <2> HIDE DEF S
  <2>3. 0 .. n \subseteq S
    BY <2>1, <2>2, BoundedInduction
  <2> QED
    BY <2>3 DEF S
<1>2. \A i \in 0 .. n : sum[i].tem \in Nat /\ sum[i].hum \in Nat
  BY <1>1
<1>3. \A i \in 1 .. n : i \in 0 .. n /\ i - 1 \in 0 .. n
  OBVIOUS
<1>5. 0 \in 0 .. n /\ sum[0].tem = 0 /\ sum[0].hum = 0
  OBVIOUS
<1>6. SumsUp([i \in 0 .. n |-> sum[i].tem], n, [i \in 1 .. n |-> g[i].tem])
  BY <1>0, <1>2, <1>3, <1>5 DEF SumsUp
<1>7. SumsUp([i \in 0 .. n |-> sum[i].hum], n, [i \in 1 .. n |-> g[i].hum])
  BY <1>0, <1>2, <1>3, <1>5 DEF SumsUp
<1> QED
  BY <1>1, <1>6, <1>7

\* The mean of g over n, by its sums.
MeanBySums(mean, n, g) ==
  \E t, h : /\ SumsUp(t, n, [i \in 1 .. n |-> g[i].tem]) /\ SumsUp(h, n, [i \in 1 .. n |-> g[i].hum])
            /\ mean = [tem |-> t[n] \div n, hum |-> h[n] \div n]

\* Two means by sums over the same ring are the same, wherever they start.
LEMMA MeanGoesRound ==
  ASSUME NEW n \in Nat, NEW k \in 0 .. n, NEW f, NEW g, NEW fm, NEW gm,
         MeanBySums(fm, n, f), MeanBySums(gm, n, g),
         \A i \in 1 .. n : f[i] \in [tem : 0 .. 255, hum : 0 .. 255],
         \A i \in 1 .. n : g[i] = IF k + i <= n THEN f[k + i] ELSE f[k + i - n]
  PROVE  fm = gm
<1> DEFINE ft == [i \in 1 .. n |-> f[i].tem]
           fh == [i \in 1 .. n |-> f[i].hum]
           gt == [i \in 1 .. n |-> g[i].tem]
           gh == [i \in 1 .. n |-> g[i].hum]
<1>1. PICK t1, h1 : SumsUp(t1, n, ft) /\ SumsUp(h1, n, fh) /\ fm = [tem |-> t1[n] \div n, hum |-> h1[n] \div n]
  BY DEF MeanBySums
<1>2. PICK t2, h2 : SumsUp(t2, n, gt) /\ SumsUp(h2, n, gh) /\ gm = [tem |-> t2[n] \div n, hum |-> h2[n] \div n]
  BY DEF MeanBySums
<1>3. \A i \in 1 .. n : ft[i] \in Nat /\ fh[i] \in Nat
  <2> TAKE i \in 1 .. n
  <2>1. f[i].tem \in 0 .. 255 /\ f[i].hum \in 0 .. 255
    OBVIOUS
  <2> QED
    BY <2>1, SMTT(60)
<1>4. \A i \in 1 .. n : /\ gt[i] = IF k + i <= n THEN ft[k + i] ELSE ft[k + i - n]
                       /\ gh[i] = IF k + i <= n THEN fh[k + i] ELSE fh[k + i - n]
  <2> TAKE i \in 1 .. n
  <2>1. k + i <= n => k + i \in 1 .. n
    OBVIOUS
  <2>2. ~(k + i <= n) => k + i - n \in 1 .. n
    OBVIOUS
  <2> QED
    BY <2>1, <2>2
<1> HIDE DEF ft, fh, gt, gh
<1>5. t1[n] = t2[n] /\ h1[n] = h2[n]
  BY <1>1, <1>2, <1>3, <1>4, SumGoesRound
<1> QED
  BY <1>1, <1>2, <1>5

\* The mean the promise names is one by sums.
LEMMA PromisedMean ==
  ASSUME NEW n \in Nat, NEW seq, DOMAIN seq = 1 .. n, Len(seq) = n,
         \A i \in 1 .. n : seq[i] \in [tem : 0 .. 255, hum : 0 .. 255]
  PROVE  MeanBySums(Promise!MeanOf(seq), n, seq)
<1> DEFINE V == [tem : Nat, hum : Nat]
           zero == [tem |-> 0, hum |-> 0]
           plus(x, i) == [tem |-> x.tem + seq[i].tem, hum |-> x.hum + seq[i].hum]
           step == [i \in 1 .. n |-> [x \in V |-> plus(x, i)]]
           is(f) == f = [i \in 0 .. Len(seq) |-> IF i = 0 THEN zero ELSE plus(f[i - 1], i)]
           sum == CHOOSE f : is(f)
<1>1. Promise!Total(seq) = sum[n]
  BY DEF Promise!Total
<1>2. \A i \in 1 .. n : \A x \in V : plus(x, i) \in V
  <2> TAKE i \in 1 .. n
  <2> TAKE x \in V
  <2>1. seq[i] \in [tem : 0 .. 255, hum : 0 .. 255]
    OBVIOUS
  <2>2. seq[i].tem \in 0 .. 255 /\ seq[i].hum \in 0 .. 255
    BY <2>1
  <2>3. seq[i].tem \in Nat /\ seq[i].hum \in Nat
    BY <2>2, ByteIsNat, Zenon
  <2>4. x.tem \in Nat /\ x.hum \in Nat
    OBVIOUS
  <2> QED
    BY <2>3, <2>4
<1>3. step \in [1 .. n -> [V -> V]] /\ zero \in V
  BY <1>2
<1>4. \A i \in 1 .. n : \A x \in V : step[i][x] = plus(x, i)
  OBVIOUS
<1>5. \E f : is(f)
  <2> HIDE DEF step, plus, V, zero
  <2>1. PICK f : Steps(f, n, V, zero, step)
    BY <1>3, RecursionExists
  <2>2. f \in [0 .. n -> V] /\ f[0] = zero /\ \A i \in 1 .. n : f[i] = step[i][f[i - 1]]
    BY <2>1 DEF Steps
  <2>3. \A i \in 1 .. n : f[i - 1] \in V
    BY <2>2
  <2>4. \A i \in 1 .. n : f[i] = plus(f[i - 1], i)
    BY <1>4, <2>2, <2>3
  <2>5. f = [i \in 0 .. n |-> IF i = 0 THEN zero ELSE plus(f[i - 1], i)]
    BY <2>2, <2>4
  <2> QED
    BY <2>5
<1>6. is(sum)
  BY <1>5
<1>7. sum[0] = zero /\ \A i \in 1 .. n : sum[i] = plus(sum[i - 1], i)
  <2> HIDE DEF sum, plus, zero
  <2>1. 0 \in 0 .. n
    OBVIOUS
  <2>2. \A i \in 1 .. n : i \in 0 .. n /\ i # 0
    OBVIOUS
  <2>3. sum = [i \in 0 .. n |-> IF i = 0 THEN zero ELSE plus(sum[i - 1], i)]
    BY <1>6
  <2> QED
    BY <2>1, <2>2, <2>3
<1> HIDE DEF sum
<1> DEFINE t == [i \in 0 .. n |-> sum[i].tem]
           h == [i \in 0 .. n |-> sum[i].hum]
<1>8. /\ SumsUp(t, n, [i \in 1 .. n |-> seq[i].tem])
      /\ SumsUp(h, n, [i \in 1 .. n |-> seq[i].hum])
  BY <1>7, SumsApart, ZenonT(60)
<1>9. t[n] = sum[n].tem /\ h[n] = sum[n].hum
  OBVIOUS
<1>10. Promise!MeanOf(seq) = [tem |-> t[n] \div n, hum |-> h[n] \div n]
  BY <1>1, <1>9 DEF Promise!MeanOf
<1> HIDE DEF t, h
<1> QED
  BY <1>8, <1>10 DEF MeanBySums

\* The loop of dh11Read loses nothing of its sums in 16 bits, since ten bytes
\* at most are added up.
LEMMA RingMean ==
  ASSUME NEW n \in 1 .. MEAN_NUM, NEW bufs \in [Places -> Sample]
  PROVE  MeanBySums(Mean(n, bufs), n, [i \in 1 .. n |-> bufs[i - 1]])
<1> DEFINE B == [tem : 0 .. 255, hum : 0 .. 255]
           V == [tem : Nat, hum : Nat]
           g == [i \in 1 .. n |-> bufs[i - 1]]
           wrapped(x, i) == [tem |-> (x.tem + bufs[i - 1].tem) % 65536,
                             hum |-> (x.hum + bufs[i - 1].hum) % 65536]
           step == [i \in 1 .. n |-> [x \in V |-> wrapped(x, i)]]
           is(f) == f = [i \in 0 .. n |-> IF i = 0 THEN Zero ELSE wrapped(f[i - 1], i)]
           sum == CHOOSE f : is(f)
<1>1. Mean(n, bufs) = [tem |-> sum[n].tem \div n, hum |-> sum[n].hum \div n]
  BY DEF Mean
<1>2. n \in Nat /\ n \in 1 .. 10 /\ \A i \in 1 .. n : i - 1 \in Places /\ i \in 1 .. 10
  BY TempHumAssumption DEF Places
<1>3. Sample \subseteq B
  BY TempHumAssumption DEF Sample, Zero
<1>4. \A i \in 1 .. n : g[i] = bufs[i - 1] /\ g[i] \in B
  BY <1>2, <1>3
<1>5. \A i \in 1 .. n : g[i].tem \in 0 .. 255 /\ g[i].hum \in 0 .. 255
  BY <1>4
<1>6. \A i \in 1 .. n : \A x \in V : wrapped(x, i) \in V
  <2> TAKE i \in 1 .. n
  <2> TAKE x \in V
  <2>1. bufs[i - 1].tem \in 0 .. 255 /\ bufs[i - 1].hum \in 0 .. 255 /\ x.tem \in Nat /\ x.hum \in Nat
    BY <1>4, <1>5
  <2>2. /\ (x.tem + bufs[i - 1].tem) % 65536 \in Nat
        /\ (x.hum + bufs[i - 1].hum) % 65536 \in Nat
    BY <2>1, SMTT(60)
  <2> QED
    BY <2>2
<1>7. step \in [1 .. n -> [V -> V]] /\ Zero \in V
  BY <1>6 DEF Zero
<1>8. \A i \in 1 .. n : \A x \in V : step[i][x] = wrapped(x, i)
  OBVIOUS
<1>9. \E f : is(f)
  <2> HIDE DEF step, wrapped, V
  <2>1. PICK f : Steps(f, n, V, Zero, step)
    BY <1>2, <1>7, RecursionExists
  <2>2. f \in [0 .. n -> V] /\ f[0] = Zero /\ \A i \in 1 .. n : f[i] = step[i][f[i - 1]]
    BY <2>1 DEF Steps
  <2>3. \A i \in 1 .. n : f[i - 1] \in V
    BY <1>2, <2>2
  <2>4. \A i \in 1 .. n : f[i] = wrapped(f[i - 1], i)
    BY <1>8, <2>2, <2>3
  <2>5. f = [i \in 0 .. n |-> IF i = 0 THEN Zero ELSE wrapped(f[i - 1], i)]
    BY <1>2, <2>2, <2>4
  <2> QED
    BY <2>5
<1>10. is(sum)
  <2> HIDE DEF wrapped
  <2> QED
    BY <1>9
<1>11. sum[0] = Zero /\ \A i \in 1 .. n : sum[i] = wrapped(sum[i - 1], i)
  <2> HIDE DEF sum, wrapped
  <2>1. 0 \in 0 .. n
    BY <1>2
  <2>2. \A i \in 1 .. n : i \in 0 .. n /\ i # 0
    BY <1>2
  <2>3. sum = [i \in 0 .. n |-> IF i = 0 THEN Zero ELSE wrapped(sum[i - 1], i)]
    BY <1>10
  <2> QED
    BY <2>1, <2>2, <2>3
<1> HIDE DEF sum
<1> DEFINE S == {i \in Nat : sum[i].tem \in 0 .. 255 * i /\ sum[i].hum \in 0 .. 255 * i}
<1>12. 0 \in S
  BY <1>11 DEF Zero
<1>13. ASSUME NEW i \in 1 .. n, i - 1 \in S
       PROVE  /\ sum[i] = [tem |-> sum[i - 1].tem + g[i].tem, hum |-> sum[i - 1].hum + g[i].hum]
              /\ i \in S
  <2> DEFINE at == sum[i - 1].tem
             ah == sum[i - 1].hum
             bt == g[i].tem
             bh == g[i].hum
  <2>1. i \in 1 .. 10 /\ i \in Nat
    BY <1>2
  <2>2. at \in 0 .. 255 * (i - 1) /\ ah \in 0 .. 255 * (i - 1)
    BY <1>13
  <2>3. bt \in 0 .. 255 /\ bh \in 0 .. 255
    BY <1>5
  <2>4. sum[i] = [tem |-> (at + bt) % 65536, hum |-> (ah + bh) % 65536]
    BY <1>4, <1>11
  <2> HIDE DEF at, ah, bt, bh
  <2>5. /\ (at + bt) % 65536 = at + bt /\ at + bt \in 0 .. 255 * i
        /\ (ah + bh) % 65536 = ah + bh /\ ah + bh \in 0 .. 255 * i
    <3>1. (at + bt) % 65536 = at + bt /\ at + bt \in 0 .. 255 * i
      BY <2>1, <2>2, <2>3
    <3>2. (ah + bh) % 65536 = ah + bh /\ ah + bh \in 0 .. 255 * i
      BY <2>1, <2>2, <2>3
    <3> QED
      BY <3>1, <3>2
  <2>6. sum[i] = [tem |-> at + bt, hum |-> ah + bh]
    BY <2>4, <2>5
  <2>7. sum[i].tem = at + bt /\ sum[i].hum = ah + bh
    BY <2>6
  <2>8. i \in S
    BY <2>1, <2>5, <2>7
  <2> QED
    BY <2>6, <2>8 DEF at, ah, bt, bh
<1>14. 0 .. n \subseteq S
  <2>1. ASSUME NEW i \in 0 .. n - 1, i \in S PROVE i + 1 \in S
    <3>1. i + 1 \in 1 .. n /\ (i + 1) - 1 = i
      BY <1>2
    <3> HIDE DEF S
    <3> QED
      BY <1>13, <2>1, <3>1
  <2> HIDE DEF S
  <2> QED
    BY <1>2, <1>12, <2>1, BoundedInduction
<1>15. \A i \in 1 .. n : sum[i] = [tem |-> sum[i - 1].tem + g[i].tem,
                                  hum |-> sum[i - 1].hum + g[i].hum]
  <2> TAKE i \in 1 .. n
  <2>1. i - 1 \in 0 .. n
    BY <1>2
  <2>2. i - 1 \in S
    BY <1>14, <2>1
  <2> HIDE DEF S, g
  <2> QED
    BY <1>13, <2>2
<1> DEFINE t == [i \in 0 .. n |-> sum[i].tem]
           h == [i \in 0 .. n |-> sum[i].hum]
<1>16. SumsUp(t, n, [i \in 1 .. n |-> g[i].tem]) /\ SumsUp(h, n, [i \in 1 .. n |-> g[i].hum])
  <2> HIDE DEF g, B
  <2>1. sum[0] = [tem |-> 0, hum |-> 0]
    BY <1>11 DEF Zero
  <2>2. \A i \in 1 .. n : g[i] \in [tem : 0 .. 255, hum : 0 .. 255]
    BY <1>4 DEF B
  <2> QED
    BY <1>2, <1>15, <2>1, <2>2, SumsApart
<1>17. t[n] = sum[n].tem /\ h[n] = sum[n].hum
  BY <1>2
<1>18. Mean(n, bufs) = [tem |-> t[n] \div n, hum |-> h[n] \div n]
  BY <1>1, <1>17
<1> HIDE DEF t, h, g
<1>19. MeanBySums(Mean(n, bufs), n, g)
  BY <1>16, <1>18 DEF MeanBySums
<1> QED
  BY <1>19 DEF g

\* A reading answers with the mean of the window as it slides.
LEMMA ReadAnswers ==
  ASSUME RingInv, RingInv', NEW s \in Sample, dh11Read(s)
  PROVE  Promise!Answer(s)
<1> USE TempHumAssumption
<1>1. PICK n : n = IF th_amount' = 0 THEN th_num' ELSE th_amount'
  OBVIOUS
<1>2. PICK k : k = IF th_amount' = 0 THEN 0 ELSE th_num'
  OBVIOUS
<1>3. /\ th_num' \in 1 .. MEAN_NUM /\ th_amount' \in {0, MEAN_NUM} /\ th_bufs' \in [Places -> Sample]
      /\ n \in 1 .. MEAN_NUM /\ k \in 0 .. n /\ n \in Nat
  <2>1. th_num' # 0
    BY DEF dh11Read, Store, RingInv, Places
  <2>2. /\ th_num' \in 0 .. MEAN_NUM /\ th_amount' \in {0, MEAN_NUM}
        /\ th_bufs' \in [Places -> Sample]
    BY DEF RingInv, Places, Sample
  <2> QED
    BY <1>1, <1>2, <2>1, <2>2
<1> DEFINE f == [i \in 1 .. n |-> th_bufs'[i - 1]]
           B == [tem : 0 .. 255, hum : 0 .. 255]
<1>4. shown' = Mean(n, th_bufs')
  BY <1>1 DEF dh11Read
<1>5. MeanBySums(shown', n, f)
  BY <1>3, <1>4, RingMean
<1>6. Sample \subseteq B
  BY DEF Sample, Zero
<1>7. \A i \in 1 .. n : i - 1 \in Places
  BY <1>3 DEF Places
<1>8. \A i \in 1 .. n : f[i] \in Sample
  BY <1>3, <1>7
<1>9. PICK w : w = Window'
  OBVIOUS
<1> DEFINE round(i) == IF k + i <= n THEN k + i ELSE k + i - n
<1>10. \A i \in 1 .. n : round(i) \in 1 .. n
  BY <1>3
<1>11. w = [i \in 1 .. n |-> f[round(i)]]
  <2>1. CASE th_amount' = 0
    <3>1. w = [i \in 1 .. n |-> th_bufs'[i - 1]]
      BY <1>1, <1>9, <2>1 DEF Window
    <3>2. \A i \in 1 .. n : round(i) = i
      BY <1>2, <1>3, <2>1
    <3> HIDE DEF round
    <3>3. \A i \in 1 .. n : f[round(i)] = th_bufs'[i - 1]
      BY <1>10, <3>2
    <3> QED
      BY <3>1, <3>3 DEF f
  <2>2. CASE th_amount' # 0
    <3>1. n = MEAN_NUM /\ k = th_num' /\ th_amount' = MEAN_NUM
      BY <1>1, <1>2, <1>3, <2>2
    <3>2. w = [i \in 1 .. n |-> th_bufs'[IF k + i <= n THEN k + i - 1 ELSE k + i - 1 - n]]
      BY <1>9, <2>2, <3>1 DEF Window
    <3>3. \A i \in 1 .. n : (IF k + i <= n THEN k + i - 1 ELSE k + i - 1 - n) = round(i) - 1
      BY <1>3
    <3> HIDE DEF round
    <3>4. \A i \in 1 .. n : f[round(i)] = th_bufs'[round(i) - 1]
      BY <1>10
    <3>5. w = [i \in 1 .. n |-> th_bufs'[round(i) - 1]]
      BY <3>2, <3>3
    <3> QED
      BY <3>4, <3>5
  <2> QED
    BY <2>1, <2>2
<1> HIDE DEF f
<1>12. \A i \in 1 .. n : w[i] = IF k + i <= n THEN f[k + i] ELSE f[k + i - n]
  BY <1>11
<1>13. \A i \in 1 .. n : w[i] \in Sample
  <2> TAKE i \in 1 .. n
  <2>1. CASE k + i <= n
    <3>1. k + i \in 1 .. n
      BY <1>3, <2>1
    <3> QED
      BY <1>8, <1>12, <2>1, <3>1
  <2>2. CASE ~(k + i <= n)
    <3>1. k + i - n \in 1 .. n
      BY <1>3, <2>2
    <3> QED
      BY <1>8, <1>12, <2>2, <3>1
  <2> QED
    BY <2>1, <2>2
<1>14. DOMAIN w = 1 .. n /\ Len(w) = n
  <2>1. DOMAIN w = 1 .. n
    BY <1>11
  <2>2. w = [i \in 1 .. n |-> w[i]]
    BY <1>11
  <2>3. w \in Seq(Sample)
    BY <1>3, <1>13, <2>2
  <2> QED
    BY <1>3, <2>1, <2>3, LenProperties
<1>15. \A i \in 1 .. n : f[i] \in B /\ w[i] \in B
  BY <1>6, <1>8, <1>13
<1>16. MeanBySums(Promise!MeanOf(w), n, w)
  BY <1>3, <1>14, <1>15, PromisedMean
<1>17. shown' = Promise!MeanOf(w)
  BY <1>3, <1>5, <1>12, <1>15, <1>16, MeanGoesRound
<1>18. w = Promise!Slide(Window, s)
  BY <1>9, ReadSlides
<1> QED
  BY <1>9, <1>17, <1>18 DEF Promise!Answer

\* dh11Read keeps the promise of a sliding mean, for every size of the ring:
\* the ring and its wrapping index implement the window, the 16-bit loop its
\* mean.
THEOREM MeanIsKept == Spec => GivesMeanOfWindow
<1>1. ASSUME Init PROVE Promise!Init
  <2>1. th_amount = 0 /\ th_num = 0 /\ shown = [tem |-> 0, hum |-> 0]
    BY <1>1 DEF Init, Zero
  <2>2. Window = <<>>
    BY <2>1 DEF Window
  <2> QED
    BY <2>1, <2>2 DEF Promise!Init
<1>2. ASSUME RingInv, RingInv', [Next]_vars
      PROVE  [\E s \in Sample : Promise!Answer(s)]_<<Window, shown>>
  <2>1. CASE Answer \/ BadFrame
    <3>1. PICK s \in Sample : dh11Read(s)
      BY <2>1 DEF Answer, BadFrame, Sample
    <3>2. Promise!Answer(s)
      BY <1>2, <3>1, ReadAnswers
    <3> QED
      BY <3>2
  <2>2. CASE NoAnswer \/ UNCHANGED vars
    BY <2>2 DEF NoAnswer, vars, Window
  <2> QED
    BY <1>2, <2>1, <2>2 DEF Next
<1> QED
  BY <1>1, <1>2, RingAlways, PTL DEF Spec, GivesMeanOfWindow, Promise!Spec
=============================================================================
