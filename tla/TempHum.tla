------------------------------- MODULE TempHum ------------------------------
(***************************************************************************)
(* The climate sensor driver hal_temp_hum.c: dht11ReadData gets a frame    *)
(* of five bytes from the sensor, dh11Read keeps the last MEAN_NUM samples *)
(* in a ring and gives its caller their mean.                              *)
(*                                                                         *)
(* The bits on the wire are abstracted to what dht11ReadData makes of      *)
(* them: no answer, a frame whose checksum fails, or a sample.             *)
(***************************************************************************)
EXTENDS Integers, Sequences, FiniteSets

CONSTANTS
  MEAN_NUM,  \* places of the ring
  Readings   \* samples the sensor sends: records of tem and hum

\* The place a caller's samples are initialised with.
Zero == [tem |-> 0, hum |-> 0]
Sample == Readings \cup {Zero}

ASSUME TempHumAssumption ==
  /\ MEAN_NUM \in 1 .. 10
  /\ Readings \subseteq [tem : 0 .. 255, hum : 0 .. 255]

VARIABLES
  th_num,     \* places in use, or one past the place last written
  th_amount,  \* MEAN_NUM once the ring has been full, 0 before
  th_bufs,    \* the ring
  shown,      \* *temperature and *humidity
  ret         \* what dh11Read returned

vars == <<th_num, th_amount, th_bufs, shown, ret>>

Places == 0 .. MEAN_NUM - 1

\* The mean of the first n places; the loop adds up in 16 bits.
Mean(n, bufs) ==
  LET sum[i \in 0 .. n] ==
        IF i = 0 THEN Zero
        ELSE [tem |-> (sum[i - 1].tem + bufs[i - 1].tem) % 65536,
              hum |-> (sum[i - 1].hum + bufs[i - 1].hum) % 65536]
  IN [tem |-> sum[n].tem \div n, hum |-> sum[n].hum \div n]

-----------------------------------------------------------------------------

\* dh11Init clears the ring.
Init ==
  /\ th_num = 0 /\ th_amount = 0 /\ th_bufs = [i \in Places |-> Zero]
  /\ shown = Zero /\ ret = 0

\* dht11Check times out: nothing changes and the caller is told.
NoAnswer ==
  /\ ret' = 1
  /\ UNCHANGED <<th_num, th_amount, th_bufs, shown>>

\* The sample goes to the next place of the ring.
Store(s) ==
  LET place == IF th_num < MEAN_NUM THEN th_num ELSE 0
  IN /\ th_bufs' = [th_bufs EXCEPT ![place] = s]
     /\ th_num' = place + 1

\* Mutant of dh11Read: it does not remember that the ring has been full.
dh11Read_Forgets(s) ==
  /\ Store(s)
  /\ th_amount' = IF th_num' >= MEAN_NUM THEN MEAN_NUM ELSE 0
  /\ shown' = Mean(IF th_amount' = 0 THEN th_num' ELSE th_amount', th_bufs')
  /\ ret' = 0

\* dh11Read with the sample s of dht11ReadData.
dh11Read(s) ==
  /\ Store(s)
  /\ th_amount' = IF th_num' >= MEAN_NUM THEN MEAN_NUM ELSE th_amount
  /\ shown' = Mean(IF th_amount' = 0 THEN th_num' ELSE th_amount', th_bufs')
  /\ ret' = 0

\* A frame whose checksum is right.
Answer == \E s \in Readings : dh11Read(s)

\* A frame whose checksum is wrong: dht11ReadData leaves the caller's zeros
\* in place and returns 0 all the same.
BadFrame == dh11Read(Zero)

Next == NoAnswer \/ Answer \/ BadFrame

Spec == Init /\ [][Next]_vars

-----------------------------------------------------------------------------

\* The indices stay inside the ring.
TypeOK ==
  /\ th_num \in 0 .. MEAN_NUM /\ th_amount \in {0, MEAN_NUM}
  /\ th_bufs \in [Places -> Sample]
  /\ shown \in [tem : 0 .. 255, hum : 0 .. 255] /\ ret \in {0, 1}

\* The ring unrolled, oldest sample first.
Window ==
  IF th_amount = 0 THEN [i \in 1 .. th_num |-> th_bufs[i - 1]]
  ELSE [i \in 1 .. MEAN_NUM |-> th_bufs[IF th_num + i <= MEAN_NUM THEN th_num + i - 1
                                         ELSE th_num + i - 1 - MEAN_NUM]]

Promise == INSTANCE SlidingMean WITH
  Size <- MEAN_NUM, Samples <- Sample, window <- Window

\* dh11Read gives the mean of the last MEAN_NUM frames, in which a frame with
\* a wrong checksum counts as zero.
GivesMeanOfWindow == Promise!Spec

\* The ring, unrolled, is the sliding window of the promise: each frame drops
\* the oldest sample once the ring is full, whatever place th_num has reached.
RingSlides == [][\E s \in Sample : Window' = Promise!Slide(Window, s)]_Window

=============================================================================
