---------------------------- MODULE DriverProofs ---------------------------
(***************************************************************************)
(* What DevIO guarantees for every number of terminals and keys, lengths   *)
(* of reads and sizes of buffers: the bytes of a virtual device, and the   *)
(* order of what is typed.  What Tty guarantees for every size of the      *)
(* screen, every text and every escape sequence.                           *)
(***************************************************************************)
EXTENDS DevIO, Tty, SequenceTheorems, TLAPS

(***************************************************************************)
(* The virtual device.  The device is ready for what the command is about, *)
(* and only between the two system calls of the command or during the      *)
(* second.  The task at its prompt has seen what arrived, and so has one   *)
(* that offers a byte.                                                     *)
(***************************************************************************)
VdInv ==
    /\ manager \in [pc : {"idle", "ready", "VDEVWAIT", "told"}, cmd : {"in", "out"}]
    /\ status_in \in BOOLEAN /\ status_out \in BOOLEAN
    /\ status_in => manager.cmd = "in" /\ manager.pc \in {"ready", "VDEVWAIT"}
    /\ status_out => manager.cmd = "out" /\ manager.pc \in {"ready", "VDEVWAIT"}
    /\ manager.cmd = "out" \/ manager.pc = "idle" => arrived = NoByte
    /\ VdevBytesOnce

\* Nothing has been offered at first, and nothing has arrived.
LEMMA VdStarts == Init => VdInv
<1> SUFFICES ASSUME Init PROVE VdInv
  OBVIOUS
<1>1. ~status_in /\ ~status_out /\ status_in \in BOOLEAN /\ status_out \in BOOLEAN
      /\ manager = At("idle", "in") /\ arrived = NoByte
  BY Zenon DEF Init, VdInit
<1>2. manager \in [pc : {"idle", "ready", "VDEVWAIT", "told"}, cmd : {"in", "out"}]
      /\ manager.pc = "idle"
  BY <1>1 DEF At
<1> QED
  BY <1>1, <1>2 DEF VdInv, VdevBytesOnce

LEMMA VdStep == VdInv /\ [Next]_vars => VdInv'
<1> SUFFICES ASSUME VdInv, [Next]_vars
             PROVE  VdInv'
  OBVIOUS
<1> USE DEF VdInv, VdevBytesOnce
<1>1. ASSUME UNCHANGED vdVars PROVE VdInv'
  BY <1>1 DEF vdVars
<1>2. CASE ReadVdev
  BY <1>2 DEF ReadVdev, IoRead, Woken, At
<1>3. ASSUME NEW b \in Bytes, WriteVdev(b) PROVE VdInv'
  BY <1>3 DEF WriteVdev, IoWrite, Woken, At
<1>4. CASE Manage
  <2>1. CASE vdev_in_ready
    BY <2>1 DEF vdev_in_ready, At
  <2>2. ASSUME NEW b \in Bytes, vdev_out_ready(b) PROVE VdInv'
    <3>1. b # NoByte
      BY VdevAssumption DEF NoByte
    <3> QED
      BY <2>2, <3>1 DEF vdev_out_ready, At
  <2>3. CASE vdev_await
    BY <2>3 DEF vdev_await, At
  <2>4. CASE Told
    BY <2>4 DEF Told, At
  <2> QED
    BY <1>4, <2>1, <2>2, <2>3, <2>4 DEF Manage, Manager
<1>5. CASE \/ Retry \/ Full \/ EndOfLine \/ FetchChar \/ Shift \/ NothingTyped \/ VdevNotReady
  BY <1>1, <1>5 DEF Retry, Full, EndOfLine, FetchChar, Shift, NothingTyped, VdevNotReady, InTty
<1> QED
  BY <1>1, <1>2, <1>3, <1>4, <1>5 DEF Next, Kernel, Call, Key, Switch, vars

(***************************************************************************)
(* Every byte that goes through a virtual device is taken once, whatever   *)
(* the accesses and wherever a tick falls between vdev_in_ready or         *)
(* vdev_out_ready and vdev_await (vdev_io_wrapper and the commands vdevin  *)
(* and vdevout).                                                           *)
(***************************************************************************)
THEOREM BytesOnce == Spec => []VdevBytesOnce
<1>1. Init => VdInv
  BY VdStarts
<1>2. VdInv => VdevBytesOnce
  BY DEF VdInv
<1> QED
  BY <1>1, <1>2, VdStep, PTL DEF Spec

(***************************************************************************)
(* Whatever ticks and accesses come between the two system calls of the    *)
(* task of a device, an access that ends the device's being ready either   *)
(* comes there or wakes the task (vdev_io_wrapper, vdev_await).            *)
(***************************************************************************)
THEOREM AwaitMissesOnlyEarlier == Spec => MissedOnlyBeforeAwait
<1>1. VdInv /\ [Next]_vars =>
         [(status_in /\ ~status_in') \/ (status_out /\ ~status_out')
             => manager.pc = "ready" \/ (manager.pc = "VDEVWAIT" /\ manager'.pc = "told")]_vars
  <2> SUFFICES ASSUME VdInv, [Next]_vars,
                      (status_in /\ ~status_in') \/ (status_out /\ ~status_out')
               PROVE  manager.pc = "ready" \/ (manager.pc = "VDEVWAIT" /\ manager'.pc = "told")
    OBVIOUS
  <2>1. manager.pc \in {"ready", "VDEVWAIT"}
    BY DEF VdInv
  <2>2. CASE ReadVdev \/ \E b \in Bytes : WriteVdev(b)
    BY <2>1, <2>2 DEF ReadVdev, WriteVdev, IoRead, IoWrite, Woken, At
  <2>3. CASE Manage
    BY <2>3 DEF Manage, Manager, vdev_in_ready, vdev_out_ready, vdev_await, Told
  <2>4. CASE UNCHANGED vdVars
    BY <2>4 DEF vdVars
  <2>5. CASE \/ Retry \/ Full \/ EndOfLine \/ FetchChar \/ Shift \/ NothingTyped \/ VdevNotReady
    BY <2>4, <2>5 DEF Retry, Full, EndOfLine, FetchChar, Shift, NothingTyped, VdevNotReady, InTty
  <2> QED
    BY <2>2, <2>3, <2>4, <2>5 DEF Next, Kernel, Call, Key, Switch, vars
<1>2. Init => VdInv
  BY VdStarts
<1> QED
  BY <1>1, <1>2, VdStep, PTL DEF Spec, MissedOnlyBeforeAwait

(***************************************************************************)
(* What is typed.  The characters of a buffer b are due as d if there is a *)
(* place in d for each of them, in order, with an end of file after each   *)
(* newline and nothing else.                                               *)
(***************************************************************************)
Symbols == {"a", "newline", "erase", EOF}

Placed(b, d, pos) ==
    /\ pos \in [1 .. Len(b) + 1 -> 1 .. Len(d) + 1]
    /\ pos[1] = 1 /\ pos[Len(b) + 1] = Len(d) + 1
    /\ \A k \in 1 .. Len(b) :
          /\ d[pos[k]] = b[k]
          /\ b[k] # "newline" => pos[k + 1] = pos[k] + 1
          /\ b[k] = "newline" => pos[k + 1] = pos[k] + 2 /\ d[pos[k] + 1] = EOF
    /\ \A j, k \in 1 .. Len(b) + 1 : j <= k => pos[j] <= pos[k]

DueFor(b, d) ==
    /\ b \in Seq(Symbols) /\ d \in Seq(Symbols)
    /\ \E pos : Placed(b, d, pos)

\* The first character of a buffer is due first, and the end of file next if
\* it is a newline.
LEMMA DueHead ==
    ASSUME NEW b, NEW d, DueFor(b, d), b # <<>>
    PROVE  /\ d # <<>> /\ Head(d) = Head(b)
           /\ Head(b) # "newline" => DueFor(Tail(b), Tail(d))
           /\ Head(b) = "newline" => /\ Tail(d) # <<>> /\ Head(Tail(d)) = EOF
                                     /\ DueFor(Tail(b), Tail(Tail(d)))
<1>1. PICK pos : Placed(b, d, pos)
  BY DEF DueFor
<1>2. b \in Seq(Symbols) /\ d \in Seq(Symbols) /\ Len(b) \in Nat /\ Len(d) \in Nat
      /\ Len(b) >= 1 /\ Head(b) = b[1]
  BY DEF DueFor
<1>3. 1 \in 1 .. Len(b) /\ 2 \in 1 .. Len(b) + 1 /\ 1 + 1 = 2
  BY <1>2
<1>4. d[1] = b[1] /\ (b[1] # "newline" => pos[2] = 2)
      /\ (b[1] = "newline" => pos[2] = 3 /\ d[2] = EOF) /\ pos[2] <= Len(d) + 1
      /\ pos[2] \in Nat
  BY <1>1, <1>2, <1>3 DEF Placed
<1>5. d # <<>> /\ Head(d) = Head(b)
  BY <1>2, <1>4
<1>6. Tail(b) \in Seq(Symbols) /\ Len(Tail(b)) = Len(b) - 1
      /\ \A k \in 1 .. Len(b) - 1 : Tail(b)[k] = b[k + 1]
  BY <1>2
<1>7. ASSUME NEW n \in Nat, pos[2] = n + 1, NEW e \in Seq(Symbols),
             Len(e) = Len(d) - n, \A i \in 1 .. Len(e) : e[i] = d[i + n]
      PROVE  DueFor(Tail(b), e)
  <2>1. PICK lb, ld, le : lb = Len(b) /\ ld = Len(d) /\ le = Len(e)
    OBVIOUS
  <2>2. lb \in Nat /\ lb >= 1 /\ ld \in Nat /\ le \in Nat /\ le = ld - n /\ Len(Tail(b)) = lb - 1
    BY <1>2, <1>6, <1>7, <2>1
  <2>3. ASSUME NEW k \in 1 .. lb, NEW p, p = pos[k + 1]
        PROVE  p \in Nat /\ p >= n + 1 /\ p <= ld + 1
    <3>1. k + 1 \in 1 .. Len(b) + 1 /\ 2 <= k + 1
      BY <2>1, <2>2
    <3>2. p \in 1 .. ld + 1
      BY <1>1, <2>1, <2>3, <3>1 DEF Placed
    <3>3. pos[2] <= pos[k + 1]
      BY <1>1, <1>3, <3>1 DEF Placed
    <3>4. n + 1 <= p
      BY <1>7, <2>3, <3>3
    <3> QED
      BY <2>2, <3>2, <3>4
  <2>4. PICK q : q = [k \in 1 .. lb |-> pos[k + 1] - n]
    OBVIOUS
  <2>5. ASSUME NEW k \in 1 .. lb
        PROVE  q[k] = pos[k + 1] - n /\ q[k] \in 1 .. le + 1
    <3>1. PICK p, r : p = pos[k + 1] /\ r = q[k]
      OBVIOUS
    <3>2. r = p - n
      BY <2>4, <3>1
    <3>3. r \in 1 .. le + 1
      BY <2>2, <2>3, <3>1, <3>2
    <3> QED
      BY <3>1, <3>2, <3>3
  <2>6. q \in [1 .. lb -> 1 .. le + 1]
    BY <2>4, <2>5
  <2>7. q[1] = 1 /\ q[lb] = le + 1
    <3>1. 1 \in 1 .. lb /\ lb \in 1 .. lb /\ 1 + 1 = 2
      BY <2>2
    <3>2. q[1] = pos[2] - n /\ q[lb] = pos[lb + 1] - n
      BY <2>5, <3>1
    <3>3. pos[2] = n + 1 /\ pos[lb + 1] = ld + 1
      BY <1>1, <1>7, <2>1 DEF Placed
    <3> QED
      BY <2>2, <3>2, <3>3
  <2>8. ASSUME NEW k \in 1 .. lb - 1
        PROVE  /\ e[q[k]] = Tail(b)[k]
               /\ Tail(b)[k] # "newline" => q[k + 1] = q[k] + 1
               /\ Tail(b)[k] = "newline" => q[k + 1] = q[k] + 2 /\ e[q[k] + 1] = EOF
    <3>1. k \in 1 .. lb /\ k + 1 \in 1 .. lb /\ (k + 1) + 1 = k + 2
      BY <2>2
    <3>2. PICK p, pn, r, rn, c : /\ p = pos[k + 1] /\ pn = pos[k + 2]
                                 /\ r = q[k] /\ rn = q[k + 1] /\ c = b[k + 1]
      OBVIOUS
    <3>3. /\ d[p] = c
          /\ c # "newline" => pn = p + 1
          /\ c = "newline" => pn = p + 2 /\ d[p + 1] = EOF
      BY <1>1, <2>1, <3>1, <3>2 DEF Placed
    <3>4. r = p - n /\ rn = pn - n /\ Tail(b)[k] = c
      BY <1>6, <2>1, <2>5, <3>1, <3>2
    <3>5. p \in Nat /\ p >= n + 1 /\ pn \in Nat /\ pn <= ld + 1
      BY <2>3, <3>1, <3>2
    <3>6. r \in 1 .. le /\ r + n = p
      <4>1. pn = p + 1 \/ pn = p + 2
        BY <3>3
      <4> QED
        BY <2>2, <3>4, <3>5, <4>1
    <3>7. c = "newline" => r + 1 \in 1 .. le /\ (r + 1) + n = p + 1
      <4>1. c = "newline" => pn = p + 2
        BY <3>3
      <4> QED
        BY <2>2, <3>4, <3>5, <4>1
    <3>8. e[r] = c
      <4>1. e[r] = d[r + n]
        BY <1>7, <2>1, <3>6
      <4> QED
        BY <3>3, <3>6, <4>1
    <3>9. c = "newline" => e[r + 1] = EOF
      <4>1. c = "newline" => e[r + 1] = d[(r + 1) + n]
        BY <1>7, <2>1, <3>7
      <4> QED
        BY <3>3, <3>7, <4>1
    <3>10. (c # "newline" => rn = r + 1) /\ (c = "newline" => rn = r + 2)
      <4>1. (c # "newline" => pn = p + 1) /\ (c = "newline" => pn = p + 2)
        BY <3>3
      <4> QED
        BY <3>4, <3>5, <4>1
    <3> QED
      BY <3>2, <3>4, <3>8, <3>9, <3>10
  <2>9. ASSUME NEW j \in 1 .. lb, NEW k \in 1 .. lb, j <= k
        PROVE  q[j] <= q[k]
    <3>1. PICK p, pn : p = pos[j + 1] /\ pn = pos[k + 1]
      OBVIOUS
    <3>2. p <= pn
      <4>1. j + 1 \in 1 .. Len(b) + 1 /\ k + 1 \in 1 .. Len(b) + 1 /\ j + 1 <= k + 1
        BY <2>1, <2>2, <2>9
      <4> QED
        BY <1>1, <3>1, <4>1 DEF Placed
    <3>3. p \in Nat /\ pn \in Nat
      BY <2>3, <3>1
    <3>4. q[j] = p - n /\ q[k] = pn - n
      BY <2>5, <3>1
    <3> QED
      BY <3>2, <3>3, <3>4
  <2>10. Placed(Tail(b), e, q)
    <3>1. Len(Tail(b)) = lb - 1 /\ Len(Tail(b)) + 1 = lb /\ Len(e) = le
      BY <2>1, <2>2
    <3> QED
      BY <2>6, <2>7, <2>8, <2>9, <3>1 DEF Placed
  <2> QED
    BY <1>6, <2>10 DEF DueFor
<1>8. Tail(d) \in Seq(Symbols) /\ Len(Tail(d)) = Len(d) - 1
      /\ \A i \in 1 .. Len(Tail(d)) : Tail(d)[i] = d[i + 1]
  BY <1>2, <1>5
<1>9. CASE Head(b) # "newline"
  <2>0. pos[2] = 1 + 1
    BY <1>2, <1>4, <1>9
  <2>1. DueFor(Tail(b), Tail(d))
    BY <1>7, <1>8, <2>0
  <2> QED
    BY <1>5, <1>9, <2>1
<1>10. CASE Head(b) = "newline"
  <2>0. pos[2] = 3 /\ Len(d) >= 2 /\ d[2] = EOF /\ pos[2] = 2 + 1
    BY <1>2, <1>4, <1>10
  <2>1. Tail(d) # <<>> /\ Head(Tail(d)) = EOF
    <3>1. 1 \in 1 .. Len(Tail(d)) /\ 1 + 1 = 2
      BY <1>2, <1>8, <2>0
    <3>2. Tail(d)[1] = EOF
      BY <1>8, <2>0, <3>1
    <3>3. Tail(d) # <<>> /\ Head(Tail(d)) = Tail(d)[1]
      <4>1. ASSUME NEW f \in Seq(Symbols), 1 \in 1 .. Len(f)
            PROVE  f # <<>> /\ Head(f) = f[1]
        BY <4>1
      <4> QED
        BY <1>8, <3>1, <4>1
    <3> QED
      BY <3>2, <3>3
  <2> DEFINE e == Tail(Tail(d))
  <2>2. e \in Seq(Symbols) /\ Len(e) = Len(d) - 2
    BY <1>8, <2>1
  <2>3. \A i \in 1 .. Len(e) : e[i] = d[i + 2]
    <3>1. ASSUME NEW i \in 1 .. Len(e) PROVE e[i] = d[i + 2]
      <4>1. e[i] = Tail(d)[i + 1]
        BY <1>8, <2>1, <2>2
      <4>2. i + 1 \in 1 .. Len(Tail(d)) /\ (i + 1) + 1 = i + 2
        BY <1>2, <1>8, <2>2
      <4> QED
        BY <1>8, <4>1, <4>2
    <3> QED
      BY <3>1
  <2>4. DueFor(Tail(b), e)
    BY <1>7, <2>0, <2>2, <2>3
  <2> QED
    BY <1>5, <1>10, <2>1, <2>4
<1> QED
  BY <1>9, <1>10
\* A line or a raw character is due as it is added.
LEMMA DueAdded ==
    ASSUME NEW b, NEW d, DueFor(b, d), NEW s \in Seq(Symbols), s # <<>>,
           \A k \in 1 .. Len(s) - 1 : s[k] # "newline"
    PROVE  DueFor(b \o s, d \o AsRead(s))
<1>1. PICK pos : Placed(b, d, pos)
  BY DEF DueFor
<1>2. b \in Seq(Symbols) /\ d \in Seq(Symbols)
  BY DEF DueFor
<1>3. PICK t : t = AsRead(s)
  OBVIOUS
<1>4. PICK lb, ld, ls, lt : lb = Len(b) /\ ld = Len(d) /\ ls = Len(s) /\ lt = Len(t)
  OBVIOUS
<1>5. lb \in Nat /\ ld \in Nat /\ ls \in Nat /\ ls >= 1
  BY <1>2, <1>4
<1>6. /\ t \in Seq(Symbols) /\ \A i \in 1 .. ls : t[i] = s[i]
      /\ s[ls] # "newline" => lt = ls
      /\ s[ls] = "newline" => lt = ls + 1 /\ t[ls + 1] = EOF
  <2>1. CASE s[ls] # "newline"
    BY <1>3, <1>4, <2>1 DEF AsRead
  <2>2. CASE s[ls] = "newline"
    <3>1. t = Append(s, EOF) /\ EOF \in Symbols
      BY <1>3, <1>4, <2>2 DEF AsRead, Symbols
    <3> QED
      BY <1>4, <2>2, <3>1, AppendProperties
  <2> QED
    BY <2>1, <2>2
<1>7. lt \in Nat /\ lt >= ls
  BY <1>4, <1>5, <1>6
<1>8. PICK bs, dt : bs = b \o s /\ dt = d \o t
  OBVIOUS
<1>9. /\ bs \in Seq(Symbols) /\ Len(bs) = lb + ls
      /\ \A i \in 1 .. lb + ls : bs[i] = IF i <= lb THEN b[i] ELSE s[i - lb]
  BY <1>2, <1>4, <1>8, ConcatProperties
<1>10. /\ dt \in Seq(Symbols) /\ Len(dt) = ld + lt
       /\ \A i \in 1 .. ld + lt : dt[i] = IF i <= ld THEN d[i] ELSE t[i - ld]
  BY <1>2, <1>4, <1>6, <1>8, ConcatProperties
<1>11. PICK q : q = [k \in 1 .. lb + ls + 1 |-> IF k <= lb THEN pos[k]
                                               ELSE IF k <= lb + ls THEN ld + (k - lb)
                                               ELSE ld + lt + 1]
  OBVIOUS
<1>12. ASSUME NEW k \in 1 .. lb + 1
       PROVE  q[k] = pos[k] /\ pos[k] \in 1 .. ld + 1
  <2>1. pos[k] \in 1 .. ld + 1
    BY <1>1, <1>4 DEF Placed
  <2>2. pos[lb + 1] = ld + 1
    BY <1>1, <1>4 DEF Placed
  <2>3. CASE k <= lb
    <3>1. k \in 1 .. lb + ls + 1
      BY <1>5
    <3> QED
      BY <1>11, <2>1, <2>3, <3>1
  <2>4. CASE k = lb + 1
    <3>1. k \in 1 .. lb + ls + 1 /\ ~(k <= lb) /\ k <= lb + ls /\ ld + (k - lb) = ld + 1
      BY <1>5, <2>4
    <3> QED
      BY <1>11, <2>1, <2>2, <2>4, <3>1
  <2> QED
    BY <1>5, <2>3, <2>4
<1>13. ASSUME NEW k \in lb + 1 .. lb + ls
       PROVE  q[k] = ld + (k - lb)
  <2>1. k \in 1 .. lb + ls + 1 /\ ~(k <= lb) /\ k <= lb + ls
    BY <1>5
  <2> QED
    BY <1>11, <2>1
<1>14. q[lb + ls + 1] = ld + lt + 1
  <2>1. lb + ls + 1 \in 1 .. lb + ls + 1 /\ ~(lb + ls + 1 <= lb) /\ ~(lb + ls + 1 <= lb + ls)
    BY <1>5
  <2> QED
    BY <1>11, <2>1
<1>15. ASSUME NEW k \in 1 .. lb + ls + 1
       PROVE  q[k] \in 1 .. ld + lt + 1
  <2>1. CASE k <= lb
    <3>1. PICK p : p = pos[k]
      OBVIOUS
    <3>2. q[k] = p /\ p \in 1 .. ld + 1
      BY <1>5, <1>12, <2>1, <3>1
    <3> QED
      BY <1>5, <1>7, <3>2
  <2>2. CASE k \in lb + 1 .. lb + ls
    BY <1>5, <1>7, <1>13, <2>2
  <2>3. CASE k = lb + ls + 1
    BY <1>5, <1>7, <1>14, <2>3
  <2> QED
    BY <1>5, <2>1, <2>2, <2>3
<1>16. q \in [1 .. lb + ls + 1 -> 1 .. ld + lt + 1]
  BY <1>11, <1>15
<1>17. q[1] = 1
  <2>1. 1 \in 1 .. lb + 1
    BY <1>5
  <2> QED
    BY <1>1, <1>12, <2>1 DEF Placed
<1>18. ASSUME NEW k \in 1 .. lb
       PROVE  /\ dt[q[k]] = bs[k]
              /\ bs[k] # "newline" => q[k + 1] = q[k] + 1
              /\ bs[k] = "newline" => q[k + 1] = q[k] + 2 /\ dt[q[k] + 1] = EOF
  <2>1. PICK p, pn, c : p = pos[k] /\ pn = pos[k + 1] /\ c = b[k]
    OBVIOUS
  <2>2. k \in 1 .. lb + 1 /\ k + 1 \in 1 .. lb + 1 /\ k \in 1 .. lb + ls /\ k <= lb
    BY <1>5
  <2>3. q[k] = p /\ q[k + 1] = pn /\ p \in 1 .. ld + 1 /\ pn \in 1 .. ld + 1
    BY <1>12, <2>1, <2>2
  <2>4. bs[k] = c
    BY <1>9, <2>1, <2>2
  <2>5. /\ d[p] = c
        /\ c # "newline" => pn = p + 1
        /\ c = "newline" => pn = p + 2 /\ d[p + 1] = EOF
    BY <1>1, <1>4, <2>1 DEF Placed
  <2>6. (pn = p + 1 \/ pn = p + 2) /\ (c = "newline" => pn = p + 2)
    BY <2>5
  <2>7. p \in 1 .. ld + lt /\ p <= ld
        /\ (c = "newline" => p + 1 \in 1 .. ld + lt /\ p + 1 <= ld)
    BY <1>5, <1>7, <2>3, <2>6
  <2>8. dt[p] = d[p] /\ (c = "newline" => dt[p + 1] = d[p + 1])
    BY <1>10, <2>7
  <2> QED
    BY <2>3, <2>4, <2>5, <2>8
<1>19. ASSUME NEW k \in lb + 1 .. lb + ls
       PROVE  /\ dt[q[k]] = bs[k]
              /\ bs[k] # "newline" => q[k + 1] = q[k] + 1
              /\ bs[k] = "newline" => q[k + 1] = q[k] + 2 /\ dt[q[k] + 1] = EOF
  <2>1. PICK i, c : i = k - lb /\ c = s[i]
    OBVIOUS
  <2>2. i \in 1 .. ls /\ k = lb + i /\ k \in 1 .. lb + ls /\ ~(k <= lb)
    BY <1>5, <2>1
  <2>3. bs[k] = c
    BY <1>9, <2>1, <2>2
  <2>4. q[k] = ld + i
    BY <1>13, <2>1
  <2>5. ld + i \in 1 .. ld + lt /\ ~(ld + i <= ld) /\ (ld + i) - ld = i
    BY <1>5, <1>7, <2>2
  <2>6. dt[ld + i] = c
    <3>1. dt[ld + i] = t[(ld + i) - ld]
      BY <1>10, <2>5
    <3>2. t[i] = c
      BY <1>6, <2>1, <2>2
    <3> QED
      BY <2>5, <3>1, <3>2
  <2>7. CASE i # ls
    <3>1. i \in 1 .. ls - 1 /\ k + 1 \in lb + 1 .. lb + ls /\ ld + ((k + 1) - lb) = ld + i + 1
      BY <1>5, <2>2, <2>7
    <3>2. c # "newline"
      BY <1>4, <2>1, <3>1
    <3>3. q[k + 1] = ld + ((k + 1) - lb)
      BY <1>13, <3>1
    <3>4. q[k + 1] = ld + i + 1
      BY <3>1, <3>3
    <3> QED
      BY <2>3, <2>4, <2>6, <3>2, <3>4
  <2>8. CASE i = ls
    <3>1. k + 1 = lb + ls + 1
      BY <1>5, <2>2, <2>8
    <3>2. q[k + 1] = ld + lt + 1
      BY <1>14, <3>1
    <3>3. (c # "newline" => lt = i) /\ (c = "newline" => lt = i + 1 /\ t[i + 1] = EOF)
      BY <1>6, <2>1, <2>8
    <3>4. c = "newline" => dt[ld + i + 1] = EOF
      <4>1. c = "newline" => /\ ld + i + 1 \in 1 .. ld + lt /\ ~(ld + i + 1 <= ld)
                             /\ (ld + i + 1) - ld = i + 1
        <5>1. c = "newline" => lt = i + 1
          BY <3>3
        <5> QED
          BY <1>5, <2>2, <5>1
      <4>2. c = "newline" => dt[ld + i + 1] = t[(ld + i + 1) - ld]
        BY <1>10, <4>1
      <4> QED
        BY <3>3, <4>1, <4>2
    <3>5. i \in Nat /\ (c # "newline" => lt = i) /\ (c = "newline" => lt = i + 1)
      BY <2>2, <3>3
    <3>6. (c # "newline" => ld + lt + 1 = (ld + i) + 1)
          /\ (c = "newline" => ld + lt + 1 = (ld + i) + 2)
      BY <1>5, <3>5
    <3> QED
      BY <2>3, <2>4, <2>6, <3>2, <3>4, <3>6
  <2> QED
    BY <2>7, <2>8
<1>20. ASSUME NEW j \in 1 .. lb + ls + 1, NEW k \in 1 .. lb + ls + 1, j <= k
       PROVE  q[j] <= q[k]
  <2>1. CASE k \in 1 .. lb + 1
    <3>1. j \in 1 .. lb + 1
      BY <1>5, <1>20, <2>1
    <3>2. pos[j] <= pos[k]
      BY <1>1, <1>4, <1>20, <2>1, <3>1 DEF Placed
    <3> QED
      BY <1>12, <2>1, <3>1, <3>2
  <2>2. CASE j \in 1 .. lb + 1 /\ k \notin 1 .. lb + 1
    <3>1. PICK p : p = pos[j]
      OBVIOUS
    <3>2. q[j] = p /\ p \in 1 .. ld + 1
      BY <1>12, <2>2, <3>1
    <3>3. k \in lb + 1 .. lb + ls \/ k = lb + ls + 1
      BY <1>5, <2>2
    <3>4. q[k] = ld + (k - lb) \/ q[k] = ld + lt + 1
      BY <1>13, <1>14, <3>3
    <3>5. k >= lb + 1
      BY <1>5, <3>3
    <3> QED
      BY <1>5, <1>7, <3>2, <3>4, <3>5
  <2>3. CASE j \notin 1 .. lb + 1
    <3>1. j \in lb + 1 .. lb + ls \/ (j = lb + ls + 1 /\ k = lb + ls + 1)
      BY <1>5, <1>20, <2>3
    <3>2. CASE j = lb + ls + 1 /\ k = lb + ls + 1
      BY <1>5, <1>7, <1>14, <3>2
    <3>3. CASE j \in lb + 1 .. lb + ls
      <4>1. q[j] = ld + (j - lb)
        BY <1>13, <3>3
      <4>2. CASE k = lb + ls + 1
        BY <1>5, <1>7, <1>14, <3>3, <4>1, <4>2
      <4>3. CASE k \in lb + 1 .. lb + ls
        <5>1. q[k] = ld + (k - lb)
          BY <1>13, <4>3
        <5> QED
          BY <1>5, <1>20, <4>1, <5>1
      <4> QED
        BY <1>5, <1>20, <3>3, <4>2, <4>3
    <3> QED
      BY <3>1, <3>2, <3>3
  <2> QED
    BY <2>1, <2>2, <2>3
<1>21. Placed(bs, dt, q)
  <2>1. Len(bs) = lb + ls /\ Len(dt) = ld + lt
    BY <1>9, <1>10
  <2>2. ASSUME NEW k \in 1 .. lb + ls
        PROVE  k \in 1 .. lb \/ k \in lb + 1 .. lb + ls
    BY <1>5
  <2> QED
    BY <1>14, <1>16, <1>17, <1>18, <1>19, <1>20, <2>1, <2>2 DEF Placed
<1> QED
  BY <1>3, <1>8, <1>9, <1>10, <1>21 DEF DueFor

\* What is due while b is to be fetched; an end of file comes first if the last
\* character fetched was a newline.
Pending(b, d, eof) ==
    /\ b \in Seq(Symbols) /\ d \in Seq(Symbols)
    /\ eof => d # <<>> /\ Head(d) = EOF /\ DueFor(b, Tail(d))
    /\ ~eof => DueFor(b, d)

LEMMA PendingAdded ==
    ASSUME NEW b, NEW d, NEW eof \in BOOLEAN, Pending(b, d, eof), NEW s \in Seq(Symbols), s # <<>>,
           \A k \in 1 .. Len(s) - 1 : s[k] # "newline"
    PROVE  Pending(b \o s, d \o AsRead(s), eof)
<1>1. b \in Seq(Symbols) /\ d \in Seq(Symbols)
  BY DEF Pending
<1>2. PICK t : t = AsRead(s)
  OBVIOUS
<1>3. t \in Seq(Symbols)
  BY <1>2, AppendProperties DEF AsRead, Symbols
<1>4. b \o s \in Seq(Symbols) /\ d \o t \in Seq(Symbols)
  BY <1>1, <1>3, ConcatProperties
<1>5. CASE ~eof
  BY <1>2, <1>4, <1>5, DueAdded DEF Pending
<1>6. CASE eof
  <2>1. d # <<>> /\ Head(d) = EOF /\ DueFor(b, Tail(d))
    BY <1>6 DEF Pending
  <2>2. d \o t # <<>> /\ Head(d \o t) = Head(d) /\ Tail(d \o t) = Tail(d) \o t
    BY <1>1, <1>3, <2>1
  <2>3. DueFor(b \o s, Tail(d) \o t)
    BY <1>2, <2>1, DueAdded
  <2> QED
    BY <1>2, <1>4, <1>6, <2>1, <2>2, <2>3 DEF Pending
<1> QED
  BY <1>5, <1>6

OpStates == [phase : {"idle", "loop", "shift", "wait"}, dev : Readers \cup {"vdev"},
             type : {"read", "write"}, len : Nat, done : Nat, i : Nat, retry : BOOLEAN]

\* The characters that are still to be fetched.  Between the two parts of
\* keyboard_fetch_char the first has been.
ToFetch(t) == IF op.phase = "shift" THEN Tail(l2[t]) ELSE l2[t]

KeyInv ==
    /\ misread = FALSE
    /\ is_eof \in BOOLEAN /\ current_tty \in Ttys
    /\ op \in OpStates
    /\ l1 \in [Ttys -> Seq({"a"})]
    /\ l2 \in [Ttys -> Seq(Symbols)] /\ due \in [Ttys -> Seq(Symbols)]
    /\ op.phase = "shift" => op.dev \in Readers /\ l2[op.dev] # <<>>
    /\ \A t \in Readers : Pending(ToFetch(t), due[t], is_eof)

OneReader == \A t, u \in Readers : t = u

LEMMA ReadersAreTtys == Readers \subseteq Ttys /\ "vdev" \notin Ttys
  BY DevIOAssumption

\* A step of the program that leaves the keyboard alone.
LEMMA QuietStep ==
    ASSUME KeyInv, UNCHANGED <<l1, l2, current_tty, is_eof, due>>, misread' = misread,
           op' \in OpStates, op.phase # "shift", op'.phase # "shift"
    PROVE  KeyInv'
<1>1. ASSUME NEW t \in Readers PROVE ToFetch(t)' = ToFetch(t)
  BY DEF ToFetch
<1> QED
  BY <1>1 DEF KeyInv

\* How a loop ends.
LEMMA StopsIsState ==
    ASSUME KeyInv, NEW stat \in BOOLEAN
    PROVE  Stops(stat) \in OpStates /\ Stops(stat).phase # "shift"
<1>1. NoOp \in OpStates /\ NoOp.phase # "shift"
  BY DEF NoOp, OpStates
<1> DEFINE w == [op EXCEPT !.phase = "wait", !.done = @ + op.i, !.i = 0, !.retry = FALSE]
<1>2. w \in OpStates /\ w.phase # "shift"
  <2>1. op \in OpStates
    BY DEF KeyInv
  <2>2. op.done + op.i \in Nat
    BY <2>1 DEF OpStates
  <2> QED
    BY <2>1, <2>2 DEF OpStates
<1> QED
  BY <1>1, <1>2 DEF Stops

\* The reader is at its only terminal.
LEMMA InTtyReader ==
    ASSUME KeyInv, OneReader, InTty
    PROVE  /\ op.dev \in Readers /\ op.dev \in Ttys /\ \A t \in Readers : t = op.dev
           /\ op.phase = "loop"
           /\ Pending(l2[op.dev], due[op.dev], is_eof)
<1>1. op.dev \in Readers \cup {"vdev"} /\ op.dev \in Ttys /\ op.phase = "loop"
  BY DEF KeyInv, OpStates, InTty, InLoop
<1>2. op.dev \in Readers /\ \A t \in Readers : t = op.dev
  BY <1>1, ReadersAreTtys DEF OneReader
<1> QED
  BY <1>1, <1>2 DEF KeyInv, ToFetch

LEMMA EndOfLineKeeps ==
    ASSUME KeyInv, OneReader, EndOfLine
    PROVE  KeyInv'
<1> DEFINE t == op.dev
<1>1. /\ t \in Readers /\ t \in Ttys /\ \A u \in Readers : u = t
      /\ op.phase = "loop" /\ Pending(l2[t], due[t], is_eof)
  BY InTtyReader DEF EndOfLine
<1>2. is_eof /\ is_eof' = FALSE /\ op' = Stops(FALSE) /\ l1' = l1 /\ l2' = l2
      /\ current_tty' = current_tty
  BY DEF EndOfLine
<1>3. due[t] # <<>> /\ Head(due[t]) = EOF /\ DueFor(l2[t], Tail(due[t]))
  BY <1>1, <1>2 DEF Pending
<1>4. misread' = FALSE /\ due' = [due EXCEPT ![t] = Tail(@)]
  <2>1. misread' = (misread \/ due[t] = <<>> \/ Head(due[t]) # EOF)
        /\ due' = [due EXCEPT ![t] = IF @ = <<>> THEN @ ELSE Tail(@)]
    BY DEF EndOfLine, Expected
  <2>2. misread = FALSE
    BY DEF KeyInv
  <2> QED
    BY <1>3, <2>1, <2>2
<1>5. op' \in OpStates /\ op'.phase # "shift"
  BY <1>2, StopsIsState
<1>6. due' \in [Ttys -> Seq(Symbols)] /\ due'[t] = Tail(due[t]) /\ Tail(due[t]) \in Seq(Symbols)
  <2>1. Tail(due[t]) \in Seq(Symbols)
    BY <1>3 DEF DueFor
  <2> QED
    BY <1>1, <1>4, <2>1 DEF KeyInv
<1>7. Pending(l2[t], due'[t], FALSE)
  BY <1>3, <1>6 DEF Pending, DueFor
<1>8. \A u \in Readers : Pending(ToFetch(u)', due'[u], is_eof')
  BY <1>1, <1>2, <1>5, <1>7 DEF ToFetch
<1> QED
  BY <1>2, <1>4, <1>5, <1>6, <1>8 DEF KeyInv

LEMMA FetchCharKeeps ==
    ASSUME KeyInv, OneReader, FetchChar
    PROVE  KeyInv'
<1> DEFINE t == op.dev
           c == Head(l2[t])
<1>1. /\ t \in Readers /\ t \in Ttys /\ \A u \in Readers : u = t
      /\ op.phase = "loop" /\ Pending(l2[t], due[t], is_eof)
  BY InTtyReader DEF FetchChar
<1>2. ~is_eof /\ l2[t] # <<>> /\ is_eof' = (c = "newline") /\ op' = [op EXCEPT !.phase = "shift"]
      /\ l1' = l1 /\ l2' = l2 /\ current_tty' = current_tty
  BY DEF FetchChar
<1>3. DueFor(l2[t], due[t])
  BY <1>1, <1>2 DEF Pending
<1>4. /\ due[t] # <<>> /\ Head(due[t]) = c
      /\ c # "newline" => DueFor(Tail(l2[t]), Tail(due[t]))
      /\ c = "newline" => /\ Tail(due[t]) # <<>> /\ Head(Tail(due[t])) = EOF
                          /\ DueFor(Tail(l2[t]), Tail(Tail(due[t])))
  BY <1>2, <1>3, DueHead
<1>5. misread' = FALSE /\ due' = [due EXCEPT ![t] = Tail(@)]
  <2>1. misread' = (misread \/ due[t] = <<>> \/ Head(due[t]) # c)
        /\ due' = [due EXCEPT ![t] = IF @ = <<>> THEN @ ELSE Tail(@)]
    BY DEF FetchChar, Expected
  <2>2. misread = FALSE
    BY DEF KeyInv
  <2> QED
    BY <1>4, <2>1, <2>2
<1>6. op' \in OpStates /\ op'.phase = "shift" /\ op'.dev = t
  BY <1>2 DEF KeyInv, OpStates
<1>7. l2[t] \in Seq(Symbols) /\ due[t] \in Seq(Symbols)
  BY <1>3 DEF DueFor
<1>8. due' \in [Ttys -> Seq(Symbols)] /\ due'[t] = Tail(due[t])
  <2>1. Tail(due[t]) \in Seq(Symbols)
    BY <1>4, <1>7
  <2> QED
    BY <1>1, <1>5, <2>1 DEF KeyInv
<1>9. Tail(l2[t]) \in Seq(Symbols) /\ Tail(due[t]) \in Seq(Symbols)
  BY <1>2, <1>4, <1>7
<1>10. Pending(Tail(l2[t]), due'[t], is_eof')
  BY <1>2, <1>4, <1>8, <1>9 DEF Pending
<1>11. \A u \in Readers : Pending(ToFetch(u)', due'[u], is_eof')
  BY <1>1, <1>2, <1>6, <1>10 DEF ToFetch
<1>12. is_eof' \in BOOLEAN
  BY <1>2
<1> QED
  BY <1>1, <1>2, <1>5, <1>6, <1>8, <1>11, <1>12 DEF KeyInv

LEMMA ShiftKeeps ==
    ASSUME KeyInv, OneReader, Shift
    PROVE  KeyInv'
<1> DEFINE t == op.dev
<1>1. t \in Readers /\ t \in Ttys /\ (\A u \in Readers : u = t) /\ l2[t] # <<>>
      /\ op.phase = "shift"
  BY ReadersAreTtys DEF KeyInv, OneReader, Shift
<1>2. l2' = [l2 EXCEPT ![t] = Tail(@)] /\ op' = [op EXCEPT !.phase = "loop", !.i = @ + 1]
      /\ l1' = l1 /\ due' = due /\ current_tty' = current_tty /\ is_eof' = is_eof
      /\ misread' = misread
  BY DEF Shift
<1>3. l2' \in [Ttys -> Seq(Symbols)] /\ l2'[t] = Tail(l2[t])
  <2>1. l2 \in [Ttys -> Seq(Symbols)] /\ l2[t] \in Seq(Symbols)
    BY <1>1 DEF KeyInv
  <2>2. Tail(l2[t]) \in Seq(Symbols)
    BY <1>1, <2>1
  <2> QED
    BY <1>1, <1>2, <2>1, <2>2
<1>4. op' \in OpStates /\ op'.phase = "loop"
  <2>1. op \in OpStates
    BY DEF KeyInv
  <2>2. op.i + 1 \in Nat
    BY <2>1 DEF OpStates
  <2> QED
    BY <1>2, <2>1, <2>2 DEF OpStates
<1>5. Pending(Tail(l2[t]), due[t], is_eof)
  BY <1>1 DEF KeyInv, ToFetch
<1>6. \A u \in Readers : Pending(ToFetch(u)', due'[u], is_eof')
  BY <1>1, <1>2, <1>3, <1>4, <1>5 DEF ToFetch
<1> QED
  BY <1>2, <1>3, <1>4, <1>6 DEF KeyInv

\* The tables give letters, newlines and erasures.
LEMMA AsciiSymbols ==
    ASSUME NEW code
    PROVE  Ascii(code) \subseteq {"a", "newline", "erase"}
  BY DEF Ascii

\* A line or a raw character is passed on while nothing is being fetched.
LEMMA PassedKeeps ==
    ASSUME KeyInv, op.phase # "shift", NEW s \in Seq(Symbols), s # <<>>,
           \A k \in 1 .. Len(s) - 1 : s[k] # "newline",
           Passed(s, FALSE), l1' \in [Ttys -> Seq({"a"})],
           UNCHANGED <<current_tty, is_eof, op, misread>>
    PROVE  KeyInv'
<1> DEFINE c == current_tty
<1>1. c \in Ttys /\ l2 \in [Ttys -> Seq(Symbols)] /\ due \in [Ttys -> Seq(Symbols)]
      /\ is_eof \in BOOLEAN
  BY DEF KeyInv
<1>2. l2' = [l2 EXCEPT ![c] = l2[c] \o s] /\ due' = [due EXCEPT ![c] = due[c] \o AsRead(s)]
  BY DEF Passed, AddedTo
<1>3. AsRead(s) \in Seq(Symbols)
  BY AppendProperties DEF AsRead, Symbols
<1>4. l2[c] \o s \in Seq(Symbols) /\ due[c] \o AsRead(s) \in Seq(Symbols)
  <2>1. l2[c] \in Seq(Symbols) /\ due[c] \in Seq(Symbols)
    BY <1>1
  <2> QED
    BY <1>3, <2>1, ConcatProperties
<1>5. l2' \in [Ttys -> Seq(Symbols)] /\ due' \in [Ttys -> Seq(Symbols)]
      /\ l2'[c] = l2[c] \o s /\ due'[c] = due[c] \o AsRead(s)
      /\ \A t \in Ttys \ {c} : l2'[t] = l2[t] /\ due'[t] = due[t]
  BY <1>1, <1>2, <1>4
<1>6. ASSUME NEW t \in Readers
      PROVE  Pending(l2'[t], due'[t], is_eof)
  <2>1. Pending(l2[t], due[t], is_eof) /\ t \in Ttys
    BY ReadersAreTtys DEF KeyInv, ToFetch
  <2>2. CASE t = c
    <3>1. Pending(l2[c] \o s, due[c] \o AsRead(s), is_eof)
      BY <1>1, <2>1, <2>2, PendingAdded
    <3> QED
      BY <1>5, <2>2, <3>1
  <2>3. CASE t # c
    BY <1>5, <2>1, <2>3
  <2> QED
    BY <2>2, <2>3
<1> QED
  BY <1>5, <1>6 DEF KeyInv, ToFetch

\* The first buffer changes and nothing is passed on.
LEMMA EditKeeps ==
    ASSUME KeyInv, l1' \in [Ttys -> Seq({"a"})],
           UNCHANGED <<l2, due, current_tty, is_eof, op, misread>>
    PROVE  KeyInv'
  BY DEF KeyInv, ToFetch

LEMMA CharacterKeeps ==
    ASSUME KeyInv, op.phase # "shift", NEW ch \in {"a", "newline", "erase"},
           Character(ch, FALSE), UNCHANGED <<current_tty, is_eof, op, misread>>
    PROVE  KeyInv'
<1> DEFINE c == current_tty
<1>1. c \in Ttys /\ l1 \in [Ttys -> Seq({"a"})] /\ l1[c] \in Seq({"a"})
  BY DEF KeyInv
<1>2. CASE ch = "erase" /\ l1[c] = <<>>
  <2>1. UNCHANGED <<l1, l2, due>>
    BY <1>2 DEF Character
  <2> QED
    BY <1>1, <2>1, EditKeeps
<1>3. CASE ch = "erase" /\ l1[c] # <<>>
  <2>1. l1' = [l1 EXCEPT ![c] = SubSeq(l1[c], 1, Len(l1[c]) - 1)] /\ UNCHANGED <<l2, due>>
    BY <1>3 DEF Character
  <2>2. SubSeq(l1[c], 1, Len(l1[c]) - 1) \in Seq({"a"})
    <3>1. \A i \in 1 .. Len(l1[c]) - 1 : l1[c][i] \in {"a"}
      BY <1>1, ElementOfSeq
    <3>2. Len(l1[c]) \in Nat
      BY <1>1
    <3> QED
      BY <3>1, <3>2, SubSeqProperties
  <2> QED
    BY <1>1, <2>1, <2>2, EditKeeps
<1>4. CASE ch = "newline"
  <2> DEFINE s == Append(l1[c], ch)
  <2>1. Passed(s, FALSE) /\ l1' = [l1 EXCEPT ![c] = <<>>]
    BY <1>4 DEF Character
  <2>2. l1' \in [Ttys -> Seq({"a"})]
    BY <1>1, <2>1
  <2>3. l1[c] \in Seq(Symbols)
    BY <1>1, SeqMonotonic DEF Symbols
  <2>4. /\ s \in Seq(Symbols) /\ s # <<>> /\ Len(s) = Len(l1[c]) + 1
        /\ \A i \in 1 .. Len(l1[c]) : s[i] = l1[c][i]
    BY <1>4, <2>3, AppendProperties DEF Symbols
  <2>5. ASSUME NEW i \in 1 .. Len(s) - 1 PROVE s[i] # "newline"
    <3>1. i \in 1 .. Len(l1[c])
      BY <1>1, <2>4
    <3>2. s[i] = l1[c][i]
      BY <2>4, <3>1
    <3>3. l1[c][i] \in {"a"}
      BY <1>1, <3>1, ElementOfSeq
    <3> QED
      BY <3>2, <3>3
  <2> QED
    BY <2>1, <2>2, <2>4, <2>5, PassedKeeps
<1>5. CASE ch = "a"
  <2>1. l1' = [l1 EXCEPT ![c] = Append(l1[c], ch)] /\ UNCHANGED <<l2, due>>
    BY <1>5 DEF Character
  <2>2. Append(l1[c], ch) \in Seq({"a"})
    BY <1>1, <1>5, AppendProperties
  <2> QED
    BY <1>1, <2>1, <2>2, EditKeeps
<1> QED
  BY <1>2, <1>3, <1>4, <1>5

\* A key, with no interrupts during a system call.
LEMMA KeyKeeps ==
    ASSUME KeyInv, ~Interrupts, NEW code, Key(code)
    PROVE  KeyInv'
<1>1. op.phase # "shift" /\ UNCHANGED <<op, misread>>
  BY DEF Key
<1>2. keyboard_handler(code, FALSE)
  <2>1. keyboard_handler(code, op.phase = "shift" /\ op.dev = current_tty)
    BY DEF Key
  <2>2. (op.phase = "shift" /\ op.dev = current_tty) = FALSE
    BY <1>1
  <2> QED
    BY <2>1, <2>2
<1>3. CASE SwitchTty(code)
  <2>1. current_tty' \in Ttys /\ UNCHANGED <<l1, l2, is_eof, due>>
    BY <1>3 DEF SwitchTty
  <2> QED
    BY <1>1, <2>1 DEF KeyInv, ToFetch
<1>4. CASE Modifier(code)
  <2>1. UNCHANGED <<l1, l2, current_tty, is_eof, due>> /\ l1 \in [Ttys -> Seq({"a"})]
    BY <1>4 DEF Modifier, KeyInv
  <2> QED
    BY <1>1, <2>1, EditKeeps
<1>5. CASE Typed(code, FALSE)
  <2>1. UNCHANGED <<current_tty, is_eof>>
    BY <1>5 DEF Typed
  <2>2. PICK c \in Ascii(code) : IF "raw" \in modes[current_tty]
                                 THEN Passed(<<c>>, FALSE) /\ UNCHANGED l1
                                 ELSE Character(c, FALSE)
    BY <1>5 DEF Typed
  <2>3. c \in {"a", "newline", "erase"} /\ c \in Symbols
    BY AsciiSymbols DEF Symbols
  <2>4. CASE Passed(<<c>>, FALSE) /\ UNCHANGED l1
    <3>1. <<c>> \in Seq(Symbols) /\ <<c>> # <<>> /\ \A k \in 1 .. Len(<<c>>) - 1 : <<c>>[k] # "newline"
      BY <2>3
    <3>2. l1' \in [Ttys -> Seq({"a"})]
      BY <2>4 DEF KeyInv
    <3> QED
      BY <1>1, <2>1, <2>4, <3>1, <3>2, PassedKeeps
  <2>5. CASE Character(c, FALSE)
    BY <1>1, <2>1, <2>3, <2>5, CharacterKeeps
  <2> QED
    BY <2>2, <2>4, <2>5
<1> QED
  BY <1>2, <1>3, <1>4, <1>5 DEF keyboard_handler

\* The program's own steps.
LEMMA ProgramKeeps ==
    ASSUME KeyInv, \/ \E len \in Lens : \/ \E t \in Readers : Call(t, "read", len)
                                        \/ \E type \in {"read", "write"} : Call("vdev", type, len)
                   \/ Retry \/ Full \/ NothingTyped \/ ReadVdev \/ VdevNotReady
                   \/ (\E b \in Bytes : WriteVdev(b)) \/ Manage
                   \/ \E t \in Readers, m \in Modes : Switch(t, m)
    PROVE  KeyInv'
<1>1. op \in OpStates
  BY DEF KeyInv
<1>2. op.i + 1 \in Nat
  BY <1>1 DEF OpStates
<1>3. [op EXCEPT !.i = @ + 1] \in OpStates /\ [op EXCEPT !.i = @ + 1].phase = op.phase
  BY <1>1, <1>2 DEF OpStates
<1>4. ASSUME NEW len \in Lens, NEW dev \in Readers \cup {"vdev"}, NEW type \in {"read", "write"},
             Call(dev, type, len)
      PROVE  KeyInv'
  <2>1. len \in Nat
    <3>1. len \in Nat \ {0}
      BY DevIOAssumption, Zenon
    <3> QED
      BY <3>1
  <2>2. op' \in OpStates /\ op'.phase = "loop"
    BY <1>4, <2>1 DEF Call, NoOp, OpStates
  <2> QED
    BY <1>4, <2>2, QuietStep DEF Call, kbVars
<1>5. CASE Retry
  <2>1. op' \in OpStates /\ op'.phase = "loop"
    BY <1>1, <1>5 DEF Retry, OpStates
  <2> QED
    BY <1>5, <2>1, QuietStep DEF Retry, kbVars
<1>6. CASE Full
  <2>1. op' \in OpStates /\ op'.phase # "shift"
    BY <1>6, StopsIsState DEF Full
  <2> QED
    BY <1>6, <2>1, QuietStep DEF Full, kbVars
<1>7. CASE NothingTyped
  <2>1. op.phase = "loop" /\ UNCHANGED kbVars /\ misread' = misread
        /\ (op' = [op EXCEPT !.i = @ + 1] \/ op' = Stops(TRUE))
    BY <1>7 DEF NothingTyped, InTty, InLoop
  <2>2. op' \in OpStates /\ op'.phase # "shift"
    BY <1>3, <2>1, StopsIsState
  <2> QED
    BY <2>1, <2>2, QuietStep DEF kbVars
<1>8. CASE ReadVdev
  <2>1. op.phase = "loop" /\ UNCHANGED kbVars /\ misread' = misread
        /\ op' = [op EXCEPT !.i = @ + 1]
    BY <1>8 DEF ReadVdev, InVdev, InLoop
  <2> QED
    BY <1>3, <2>1, QuietStep DEF kbVars
<1>9. ASSUME NEW b \in Bytes, WriteVdev(b) PROVE KeyInv'
  <2>1. op.phase = "loop" /\ UNCHANGED kbVars /\ misread' = misread
        /\ op' = [op EXCEPT !.i = @ + 1]
    BY <1>9 DEF WriteVdev, InVdev, InLoop
  <2> QED
    BY <1>3, <2>1, QuietStep DEF kbVars
<1>10. CASE VdevNotReady
  <2>1. op.phase = "loop" /\ UNCHANGED kbVars /\ misread' = misread /\ op' = Stops(TRUE)
    BY <1>10 DEF VdevNotReady, InVdev, InLoop
  <2>2. op' \in OpStates /\ op'.phase # "shift"
    BY <2>1, StopsIsState
  <2> QED
    BY <2>1, <2>2, QuietStep DEF kbVars
<1>11. CASE Manage
  BY <1>1, <1>11, QuietStep DEF Manage, kbVars
<1>12. ASSUME NEW t \in Readers, NEW m \in Modes, Switch(t, m) PROVE KeyInv'
  BY <1>1, <1>12, QuietStep DEF Switch, SwitchMode
<1> QED
  BY <1>4, <1>5, <1>6, <1>7, <1>8, <1>9, <1>10, <1>11, <1>12

LEMMA KeyStep ==
    ASSUME ~Interrupts, OneReader, KeyInv, [Next]_vars
    PROVE  KeyInv'
<1>1. CASE UNCHANGED vars
  <2>1. UNCHANGED <<l1, l2, due, current_tty, is_eof, op, misread>> /\ l1 \in [Ttys -> Seq({"a"})]
    BY <1>1 DEF vars, kbVars, KeyInv
  <2> QED
    BY <2>1, EditKeeps
<1>2. CASE EndOfLine \/ FetchChar \/ Shift
  BY <1>2, EndOfLineKeeps, FetchCharKeeps, ShiftKeeps
<1>3. CASE \E code \in Codes : Key(code)
  BY <1>3, KeyKeeps
<1> QED
  BY <1>1, <1>2, <1>3, ProgramKeeps DEF Next, Kernel

\* Nothing is due for an empty buffer.
LEMMA DueEmpty ==
    /\ DueFor(<<>>, <<>>)
    /\ \A d : DueFor(<<>>, d) => d = <<>>
<1>1. Placed(<<>>, <<>>, [k \in 1 .. 1 |-> 1])
  BY DEF Placed
<1>2. DueFor(<<>>, <<>>)
  BY <1>1 DEF DueFor
<1>3. ASSUME NEW d, DueFor(<<>>, d) PROVE d = <<>>
  <2>1. PICK pos : Placed(<<>>, d, pos)
    BY <1>3 DEF DueFor
  <2>2. d \in Seq(Symbols) /\ Len(d) \in Nat
    BY <1>3 DEF DueFor
  <2>3. pos[1] = 1 /\ pos[0 + 1] = Len(d) + 1
    BY <2>1 DEF Placed
  <2>4. Len(d) = 0
    BY <2>2, <2>3
  <2> QED
    BY <2>2, <2>4
<1> QED
  BY <1>2, <1>3

LEMMA KeyInit == Init => KeyInv
<1> SUFFICES ASSUME Init PROVE KeyInv
  OBVIOUS
<1>1. /\ l1 = [t \in Ttys |-> <<>>] /\ l2 = [t \in Ttys |-> <<>>] /\ due = [t \in Ttys |-> <<>>]
      /\ is_eof = FALSE /\ misread = FALSE /\ op = NoOp /\ current_tty = FirstTty
  BY DEF Init, KbInit
<1>2. op \in OpStates /\ op.phase = "idle"
  BY <1>1 DEF NoOp, OpStates
<1>3. l1 \in [Ttys -> Seq({"a"})] /\ l2 \in [Ttys -> Seq(Symbols)] /\ due \in [Ttys -> Seq(Symbols)]
  BY <1>1
<1>4. Pending(<<>>, <<>>, FALSE)
  BY DueEmpty DEF Pending
<1>5. \A t \in Readers : Pending(ToFetch(t), due[t], is_eof)
  BY <1>1, <1>2, <1>4, ReadersAreTtys DEF ToFetch
<1>6. current_tty \in Ttys
  BY <1>1, KeyboardAssumption, Zenon
<1> QED
  BY <1>1, <1>2, <1>3, <1>5, <1>6 DEF KeyInv

(***************************************************************************)
(* What is typed on a terminal reaches its reader in order, each line with *)
(* its end of file, and none of it is lost, for any keys, lengths of reads *)
(* and parts of them, waits and retries (keyboard_handler,                 *)
(* keyboard_fetch_char, devfs_uread).  Two things are assumed: no key is   *)
(* pressed during a read system call, since a fetch that is interrupted    *)
(* half-way mixes the buffer up, and at most one terminal is read, since   *)
(* is_eof is one variable for all of them.                                 *)
(***************************************************************************)
THEOREM KeysOrdered ==
    ASSUME ~Interrupts, OneReader
    PROVE  Spec => []KeysInOrder
<1>1. ASSUME KeyInv PROVE KeysInOrder
  <2>1. ASSUME op.phase = "idle", ~is_eof, NEW t \in Readers, l2[t] = <<>>
        PROVE  due[t] = <<>>
    <3>1. DueFor(<<>>, due[t])
      BY <1>1, <2>1 DEF KeyInv, ToFetch, Pending
    <3> QED
      BY <3>1, DueEmpty
  <2>2. ~misread
    BY <1>1 DEF KeyInv
  <2> QED
    BY <2>1, <2>2 DEF KeysInOrder
<1>2. KeyInv /\ [Next]_vars => KeyInv'
  BY KeyStep
<1>3. Init => KeyInv
  BY KeyInit
<1> QED
  BY <1>1, <1>2, <1>3, PTL DEF Spec
(***************************************************************************)
(* The screen of a terminal.                                               *)
(***************************************************************************)

Glyphs == Chars \cup {" ", "?"}
Fields == [text : [Cells -> Glyphs], lit : SUBSET Cells]
Screens == [field : Fields, cursor : Cells, video : Fields]

\* What the video memory holds while the field is f.
Visible(f) == IF shown THEN f ELSE Blank

\* A screen between two calls, and one on which the cursor is not drawn.
Drawn(s) == s \in Screens /\ s.field.lit = {s.cursor} /\ s.video = Visible(s.field)
Cleared(s) == s \in Screens /\ s.field.lit = {} /\ s.video = Visible(s.field)

\* The parser.
EscStates == [escape : BOOLEAN, value : Ints \X Ints, default : BOOLEAN \X BOOLEAN, sel : {1, 2}]

EscInv ==
    /\ esc \in EscStates
    /\ EscapesStartClean

ScreenInv ==
    /\ scr = [field |-> scr.field, cursor |-> scr.cursor, video |-> scr.video]
    /\ scr.cursor \in Cells => Drawn(scr)
    /\ shown \in BOOLEAN

(***************************************************************************)
(* Positions.                                                              *)
(***************************************************************************)

\* A product with one row less, and the product of fewer rows.
LEMMA OneRowLess ==
    ASSUME NEW a \in Int, NEW b \in Int
    PROVE  (a - 1) * b = a * b - b
  OBVIOUS

LEMMA FewerRows ==
    ASSUME NEW a \in Nat, NEW b \in Nat, NEW c \in Nat, a <= c
    PROVE  a * b \in Nat /\ a * b <= c * b
  OBVIOUS

\* The quotient by the length of a row.
LEMMA RowBelow ==
    ASSUME NEW k \in Nat, NEW b \in Nat, NEW r \in Nat, k < r * b, b > 0
    PROVE  k \div b \in Nat /\ k \div b < r /\ k % b \in 0 .. b - 1
  OBVIOUS

\* The last row begins a row's length before the end.
LEMMA SizeFacts ==
    /\ Size \in Nat /\ Columns \in Nat /\ VD_ROWS \in Nat
    /\ Size >= Columns /\ Columns >= 1 /\ VD_ROWS >= 1
    /\ (VD_ROWS - 1) * Columns = Size - Columns
<1>0. VD_ROWS \in Nat \ {0} /\ Columns \in Nat \ {0}
  BY TtyAssumption, Zenon
<1>1. VD_ROWS \in Nat /\ Columns \in Nat /\ VD_ROWS >= 1 /\ Columns >= 1
  BY <1>0
<1>2. (VD_ROWS - 1) * Columns = Size - Columns
  BY <1>1, OneRowLess DEF Size
<1>3. Size \in Nat
  BY <1>1 DEF Size
<1>4. VD_ROWS - 1 \in Nat
  BY <1>1
<1>5. (VD_ROWS - 1) * Columns \in Nat
  BY <1>1, <1>4, FewerRows
<1> QED
  BY <1>1, <1>2, <1>3, <1>5

\* Arithmetic modulo a number, the ints, and the unsigned ones.
LEMMA Modulo ==
    ASSUME NEW a \in Int, NEW n \in Nat, n > 0
    PROVE  a % n \in 0 .. n - 1 /\ (a \in 0 .. n - 1 => a % n = a)
  OBVIOUS

LEMMA IntFacts ==
    /\ INT_MAX \in Nat /\ Size <= INT_MAX /\ IntRange \in Nat /\ IntRange > 0
    /\ IntRange = 2 * INT_MAX + 2 /\ 0 \in Ints
<1>1. INT_MAX \in Nat /\ VD_ROWS * Columns <= INT_MAX
  BY TtyAssumption, Zenon
<1> QED
  BY <1>1 DEF IntRange, Ints, Size

LEMMA IntOfNumber ==
    ASSUME NEW v \in Int
    PROVE  AsInt(v) \in Ints
<1>1. v + INT_MAX + 1 \in Int
  BY IntFacts
<1>2. (v + INT_MAX + 1) % IntRange \in 0 .. IntRange - 1
  BY <1>1, IntFacts, Modulo
<1> QED
  BY <1>2, IntFacts DEF AsInt, Ints

\* A row and a column give a cell.
LEMMA CellOfRowAndColumn ==
    ASSUME NEW x \in 0 .. Columns - 1, NEW y \in 0 .. VD_ROWS - 1
    PROVE  y * Columns + x \in Cells
<1>1. y \in Nat /\ VD_ROWS - 1 \in Nat /\ y <= VD_ROWS - 1 /\ Columns \in Nat
  BY SizeFacts
<1>2. y * Columns <= (VD_ROWS - 1) * Columns /\ y * Columns \in Nat
  BY <1>1, FewerRows
<1> QED
  BY <1>2, SizeFacts DEF Cells

\* A cell has a row and a column.
LEMMA RowAndColumnOfCell ==
    ASSUME NEW k \in Cells
    PROVE  k % Columns \in 0 .. Columns - 1 /\ k \div Columns \in 0 .. VD_ROWS - 1
<1>1. k \in Nat /\ k < VD_ROWS * Columns
  BY SizeFacts DEF Cells, Size
<1>2. k \div Columns \in Nat /\ k \div Columns < VD_ROWS /\ k % Columns \in 0 .. Columns - 1
  BY <1>1, SizeFacts, RowBelow
<1> QED
  BY <1>2, SizeFacts

(***************************************************************************)
(* What the functions of the driver do to a screen.                        *)
(***************************************************************************)

\* The blank field is a field.
LEMMA BlankIsField == Blank \in Fields /\ Spaces \in [Cells -> Glyphs] /\ 0 \in Cells
<1>1. 0 \in Cells
  BY SizeFacts DEF Cells
<1>2. Spaces \in [Cells -> Glyphs]
  BY DEF Spaces, Glyphs
<1> QED
  BY <1>1, <1>2 DEF Blank, Fields

\* Taking the palette of the cursor off a cell, of a screen and of a field.
LEMMA ClearIsCleared ==
    ASSUME NEW s, Drawn(s) \/ Cleared(s)
    PROVE  Cleared(Clear_cursor(s)) /\ Clear_cursor(s).cursor = s.cursor
<1> DEFINE c == Clear_cursor(s)
<1>1. s \in Screens /\ s.video = Visible(s.field) /\ s.field.lit \ {s.cursor} = {}
  BY DEF Drawn, Cleared
<1>2. c.cursor = s.cursor /\ c.field = [s.field EXCEPT !.lit = @ \ {s.cursor}]
      /\ c.video = IF shown THEN [s.video EXCEPT !.lit = @ \ {s.cursor}] ELSE s.video
  BY <1>1 DEF Clear_cursor, Screens, Fields
<1>3. c \in Screens
  BY <1>1 DEF Clear_cursor, Screens, Fields
<1>4. c.field.lit = {}
  BY <1>1, <1>2 DEF Screens, Fields
<1>5. c.video = Visible(c.field)
  BY <1>1, <1>2 DEF Visible
<1> QED
  BY <1>2, <1>3, <1>4, <1>5 DEF Cleared

LEMMA DrawIsDrawn ==
    ASSUME NEW s, Cleared(s)
    PROVE  Drawn(Draw_cursor(s))
<1> DEFINE d == Draw_cursor(s)
<1>1. s \in Screens /\ s.video = Visible(s.field) /\ s.field.lit = {}
  BY DEF Cleared
<1>2. d.cursor = s.cursor /\ d.field = [s.field EXCEPT !.lit = @ \cup {s.cursor}]
      /\ d.video = IF shown THEN [s.video EXCEPT !.lit = @ \cup {s.cursor}] ELSE s.video
  BY <1>1 DEF Draw_cursor, Screens, Fields
<1>3. d \in Screens
  BY <1>1 DEF Draw_cursor, Screens, Fields
<1>4. d.field.lit = {d.cursor}
  BY <1>1, <1>2 DEF Screens, Fields
<1>5. d.video = Visible(d.field)
  BY <1>1, <1>2 DEF Visible
<1> QED
  BY <1>3, <1>4, <1>5 DEF Drawn

LEMMA CursorMovesCleared ==
    ASSUME NEW s, Cleared(s), NEW k \in Cells
    PROVE  Cleared([s EXCEPT !.cursor = k])
  BY DEF Cleared, Screens, Visible

LEMMA StoreIsCleared ==
    ASSUME NEW s, Cleared(s), NEW c \in Glyphs
    PROVE  Cleared(Store(s, c)) /\ Store(s, c).cursor = s.cursor
<1> DEFINE d == Store(s, c)
<1>1. s \in Screens /\ s.video = Visible(s.field) /\ s.field.lit = {}
  BY DEF Cleared
<1>2. d.cursor = s.cursor /\ d.field = [s.field EXCEPT !.text[s.cursor] = c]
      /\ d.video = IF shown THEN [s.video EXCEPT !.text[s.cursor] = c] ELSE s.video
  BY <1>1 DEF Store, Screens, Fields
<1>3. d \in Screens
  BY <1>1 DEF Store, Screens, Fields
<1>4. d.field.lit = {}
  BY <1>1, <1>2 DEF Screens, Fields
<1>5. d.video = Visible(d.field)
  BY <1>1, <1>2 DEF Visible
<1> QED
  BY <1>2, <1>3, <1>4, <1>5 DEF Cleared

LEMMA ScrollIsCleared ==
    ASSUME NEW s, Cleared(s)
    PROVE  Cleared(Scroll(s)) /\ Scroll(s).cursor = s.cursor
<1> DEFINE tx == [k \in Cells |-> IF k < Size - Columns THEN s.field.text[k + Columns] ELSE " "]
           li == {k - Columns : k \in {j \in s.field.lit : j >= Columns}}
           d == [s EXCEPT !.field.text = tx, !.field.lit = li]
<1>1. s \in Screens /\ s.video = Visible(s.field) /\ s.field.lit = {}
  BY DEF Cleared
<1>2. li = {}
  BY <1>1
<1>3. tx \in [Cells -> Glyphs]
  <2>1. ASSUME NEW k \in Cells, k < Size - Columns
        PROVE  k + Columns \in Cells
    BY <2>1, SizeFacts DEF Cells
  <2>2. s.field.text \in [Cells -> Glyphs]
    BY <1>1 DEF Screens, Fields
  <2> QED
    BY <2>1, <2>2 DEF Glyphs
<1>4. Scroll(s) = Refresh(d)
  BY DEF Scroll
<1> HIDE DEF tx, li
<1>5. d \in Screens /\ d.field = [text |-> tx, lit |-> li] /\ d.cursor = s.cursor
      /\ d.video = s.video
  BY <1>1, <1>2, <1>3 DEF Screens, Fields
<1> HIDE DEF d
<1>6. Refresh(d) = [d EXCEPT !.video = Visible(d.field)]
  BY <1>1, <1>5 DEF Refresh, Visible
<1>7. Visible(d.field) \in Fields
  BY <1>5, BlankIsField DEF Visible, Screens
<1> QED
  BY <1>2, <1>4, <1>5, <1>6, <1>7 DEF Cleared, Screens, Fields, Visible
\* The cursor of a screen moves to a cell.
LEMMA MovedIsDrawn ==
    ASSUME NEW s, Drawn(s) \/ Cleared(s), NEW k \in Cells
    PROVE  Drawn(Moved(s, k))
<1>1. Cleared(Clear_cursor(s))
  BY ClearIsCleared
<1>2. Cleared([Clear_cursor(s) EXCEPT !.cursor = k])
  BY <1>1, CursorMovesCleared
<1> QED
  BY <1>2, DrawIsDrawn DEF Moved

LEMMA SetCursorIsDrawn ==
    ASSUME NEW s, Drawn(s) \/ Cleared(s),
           NEW x \in 0 .. Columns - 1, NEW y \in 0 .. VD_ROWS - 1
    PROVE  Drawn(text_set_cursor_pos(s, x, y))
<1>1. y * Columns + x \in Cells
  BY CellOfRowAndColumn
<1>2. y * Columns + x \in 0 .. INT_MAX
  BY <1>1, SizeFacts, IntFacts DEF Cells
<1> DEFINE k == y * Columns + x
<1> HIDE DEF k
<1>3. k % (INT_MAX + 1) = k
  BY <1>2, IntFacts, Modulo DEF k
<1> QED
  BY <1>1, <1>3, MovedIsDrawn DEF text_set_cursor_pos, k

\* Where the cursor of a screen goes if it goes off it.
LEMMA MovedTo ==
    ASSUME NEW s, Drawn(s), NEW k
    PROVE  \E f, v : Moved(s, k) = [field |-> f, cursor |-> k, video |-> v]
<1> DEFINE c == Clear_cursor(s)
           d == [c EXCEPT !.cursor = k]
<1>1. c \in Screens
  BY ClearIsCleared DEF Cleared
<1> HIDE DEF c
<1>2. /\ d = [field |-> c.field, cursor |-> k, video |-> c.video]
      /\ c.field \in Fields /\ c.video \in Fields
  BY <1>1 DEF Screens
<1> HIDE DEF d
<1> DEFINE m == Draw_cursor(d)
<1> DEFINE Loose == [text : [Cells -> Glyphs], lit : SUBSET (Cells \cup {k})]
<1>3. m = [field |-> m.field, cursor |-> k, video |-> m.video]
  <2>1. d \in [field : Loose, cursor : {k}, video : Loose]
    BY <1>2 DEF Fields
  <2>2. m \in [field : Loose, cursor : {k}, video : Loose]
    BY <2>1 DEF Draw_cursor
  <2> QED
    BY <2>2
<1> HIDE DEF m
<1>4. \E f, v : m = [field |-> f, cursor |-> k, video |-> v]
  BY <1>3
<1> QED
  BY <1>4 DEF Moved, c, d, m

\* The row and the column of a drawn cursor.
LEMMA RowAndColumn ==
    ASSUME NEW s, Drawn(s)
    PROVE  X(s) \in 0 .. Columns - 1 /\ Y(s) \in 0 .. VD_ROWS - 1 /\ s.cursor \in Cells
<1>1. s.cursor \in Cells
  BY DEF Drawn, Screens
<1> QED
  BY <1>1, RowAndColumnOfCell DEF X, Y

LEMMA NewlineIsDrawn ==
    ASSUME NEW s, Drawn(s)
    PROVE  Drawn(Newline(s))
<1>1. Cleared(Scroll(Clear_cursor(s)))
  BY ClearIsCleared, ScrollIsCleared
<1>2. 0 \in 0 .. Columns - 1 /\ VD_ROWS - 1 \in 0 .. VD_ROWS - 1
  BY SizeFacts
<1>3. CASE Y(s) = VD_ROWS - 1
  BY <1>1, <1>2, <1>3, SetCursorIsDrawn DEF Newline
<1>4. CASE Y(s) # VD_ROWS - 1
  <2>1. Y(s) + 1 \in 0 .. VD_ROWS - 1
    BY <1>4, RowAndColumn, SizeFacts
  <2> QED
    BY <1>2, <1>4, <2>1, SetCursorIsDrawn DEF Newline
<1> QED
  BY <1>3, <1>4

LEMMA BackspaceIsDrawn ==
    ASSUME NEW s, Drawn(s)
    PROVE  Drawn(Backspace(s))
<1>1. CASE s.cursor = 0
  BY <1>1 DEF Backspace
<1>2. CASE s.cursor # 0
  <2> DEFINE c == Clear_cursor(s)
  <2>1. Cleared(c) /\ c.cursor = s.cursor
    BY ClearIsCleared
  <2>2. s.cursor - 1 \in Cells
    BY <1>2, RowAndColumn, SizeFacts DEF Cells
  <2>3. Cleared([c EXCEPT !.cursor = s.cursor - 1])
    BY <2>1, <2>2, CursorMovesCleared
  <2>4. Cleared(Store([c EXCEPT !.cursor = s.cursor - 1], " "))
    BY <2>3, StoreIsCleared DEF Glyphs
  <2>5. [c EXCEPT !.cursor = @ - 1] = [c EXCEPT !.cursor = s.cursor - 1]
    BY <2>1 DEF Cleared, Screens
  <2> QED
    BY <1>2, <2>4, <2>5, DrawIsDrawn DEF Backspace
<1> QED
  BY <1>1, <1>2

LEMMA PrintedIsDrawn ==
    ASSUME NEW s, Drawn(s), NEW c \in Glyphs
    PROVE  Drawn(Printed(s, c))
<1> DEFINE t == Store(Clear_cursor(s), c)
<1>1. Cleared(t) /\ t.cursor = s.cursor
  BY ClearIsCleared, StoreIsCleared
<1>2. Size - Columns \in Cells /\ s.cursor \in Cells
  BY RowAndColumn, SizeFacts DEF Cells
<1>3. Cleared([Scroll(t) EXCEPT !.cursor = Size - Columns])
  BY <1>1, <1>2, ScrollIsCleared, CursorMovesCleared
<1>4. ASSUME ~(s.cursor >= Size - 1)
      PROVE  Cleared([t EXCEPT !.cursor = @ + 1])
  <2>1. s.cursor + 1 \in Cells
    BY <1>2, <1>4, SizeFacts DEF Cells
  <2>2. [t EXCEPT !.cursor = @ + 1] = [t EXCEPT !.cursor = s.cursor + 1]
    BY <1>1 DEF Cleared, Screens
  <2> QED
    BY <1>1, <2>1, <2>2, CursorMovesCleared
<1> QED
  BY <1>1, <1>3, <1>4, DrawIsDrawn DEF Printed

LEMMA ClearScreenIsDrawn ==
    ASSUME NEW s, Drawn(s)
    PROVE  Drawn(text_clear_no_move(s))
<1> DEFINE c == Clear_cursor(s)
           e == [c EXCEPT !.field = [text |-> Spaces, lit |-> {}]]
           d == Draw_cursor(e)
           f == [text |-> Spaces, lit |-> {c.cursor}]
<1>1. c \in Screens /\ c.video = Visible(c.field)
  BY ClearIsCleared DEF Cleared
<1> HIDE DEF c
<1>2. e \in Screens /\ e.cursor = c.cursor /\ e.field = [text |-> Spaces, lit |-> {}]
      /\ e.video = c.video
  BY <1>1, BlankIsField DEF Screens, Fields
<1> HIDE DEF e
<1>3. d \in Screens /\ d.cursor = c.cursor /\ d.field = f /\ (~shown => d.video = c.video)
  <2>1. d \in Screens
    BY <1>2 DEF Draw_cursor, Screens, Fields
  <2>2. d.cursor = e.cursor /\ d.field = [e.field EXCEPT !.lit = @ \cup {e.cursor}]
        /\ (~shown => d.video = e.video)
    BY <1>2 DEF Draw_cursor, Screens, Fields
  <2>3. [e.field EXCEPT !.lit = @ \cup {e.cursor}] = f
    BY <1>2
  <2> QED
    BY <1>2, <2>1, <2>2, <2>3
<1> HIDE DEF d, f
<1>4. Refresh(d) = [d EXCEPT !.video = Visible(d.field)]
  BY <1>1, <1>3 DEF Refresh, Visible, Screens
<1>5. Visible(d.field) \in Fields
  BY <1>3, BlankIsField DEF Visible, Screens
<1>6. d.field.lit = {d.cursor}
  BY <1>3 DEF f
<1>7. Drawn(Refresh(d))
  BY <1>3, <1>4, <1>5, <1>6 DEF Drawn, Screens, Visible
<1> QED
  BY <1>7 DEF text_clear_no_move, c, e, d

(***************************************************************************)
(* The parser.                                                             *)
(***************************************************************************)

\* The parser starts, and starts again, with default parameters.
LEMMA ParserInit == NoEscape.escape = FALSE /\ NoEscape \in EscStates
  BY IntFacts DEF NoEscape, EscStates

\* One of the two parameters, or of the two defaults, changes.
LEMMA PairUpdate ==
    ASSUME NEW S, NEW p \in S \X S, NEW i \in {1, 2}, NEW v \in S
    PROVE  [p EXCEPT ![i] = v] \in S \X S
  OBVIOUS

LEMMA EscStep == EscInv /\ [TtyNext]_ttyVars => EscInv'
<1> SUFFICES ASSUME EscInv, [TtyNext]_ttyVars
             PROVE  EscInv'
  OBVIOUS
<1> USE DEF EscInv, EscapesStartClean
<1>1. ASSUME NEW s, Putchar(s) PROVE EscInv'
  BY <1>1 DEF Putchar
<1>2. CASE BeginEscape
  BY <1>2 DEF BeginEscape, EscStates
<1>3. CASE Bracket
  BY <1>3 DEF Bracket, ttyVars
<1>4. CASE Semicolon
  BY <1>4 DEF Semicolon, EscStates
<1>5. ASSUME NEW d \in Digits, Digit(d) PROVE EscInv'
  <2>1. d \in Nat
    <3>1. d \in 0 .. 9
      BY TtyAssumption, Zenon
    <3> QED
      BY <3>1
  <2> DEFINE n == AsInt(esc.value[esc.sel] * 10 + d)
  <2>2. n \in Ints /\ esc.sel \in {1, 2}
    <3>1. esc.sel \in {1, 2} /\ esc.value[esc.sel] \in Ints
      BY DEF EscStates
    <3>2. esc.value[esc.sel] \in Int
      BY <3>1, IntFacts DEF Ints
    <3>3. esc.value[esc.sel] * 10 + d \in Int
      BY <2>1, <3>2
    <3> QED
      BY <3>1, <3>3, IntOfNumber
  <2> HIDE DEF n
  <2>3. [esc.value EXCEPT ![esc.sel] = n] \in Ints \X Ints
    BY <2>2, PairUpdate DEF EscStates
  <2>4. [esc.default EXCEPT ![esc.sel] = FALSE] \in BOOLEAN \X BOOLEAN
    BY <2>2, PairUpdate DEF EscStates
  <2>5. esc' = [esc EXCEPT !.value = [esc.value EXCEPT ![esc.sel] = n],
                           !.default = [esc.default EXCEPT ![esc.sel] = FALSE]]
    BY <1>5 DEF Digit, EscStates, n
  <2>6. esc' \in EscStates
    BY <2>3, <2>4, <2>5 DEF EscStates
  <2>7. esc'.escape
    BY <1>5 DEF Digit, EscStates
  <2> QED
    BY <2>6, <2>7
<1>6. ASSUME NEW s, EndsIn(s) PROVE EscInv'
  BY <1>6, ParserInit DEF EndsIn, Reset
<1>7. ASSUME NEW m, ToggleMode(m) PROVE EscInv'
  BY <1>7, ParserInit DEF ToggleMode, Reset
<1>8. ASSUME NEW here, switch_tty(here) PROVE EscInv'
  BY <1>8 DEF switch_tty
<1>9. CASE UNCHANGED ttyVars
  BY <1>9 DEF ttyVars
<1> QED
  BY <1>1, <1>2, <1>3, <1>4, <1>5, <1>6, <1>7, <1>8, <1>9
  DEF TtyNext, Up, Down, Forward, Back, Home, Sgr, EraseDisplay, Unknown

(***************************************************************************)
(* Outside a sequence the parser has its default parameters: escape_parse  *)
(* puts both values, both defaults and the selector back however the       *)
(* sequence ended, and nothing but a sequence changes them.                *)
(***************************************************************************)
THEOREM EscapesClean == TtySpec => []EscapesStartClean
<1>1. TtyInit => EscInv
  BY ParserInit DEF TtyInit, EscInv, EscapesStartClean
<1>2. EscInv => EscapesStartClean
  BY DEF EscInv
<1> QED
  BY <1>1, <1>2, EscStep, PTL DEF TtySpec

(***************************************************************************)
(* The screen.                                                             *)
(***************************************************************************)

\* A step that leaves a drawn screen and does not change terminals.
LEMMA DrawnNext ==
    ASSUME NEW s, Drawn(s), scr' = s, shown' = shown
    PROVE  Drawn(scr)'
  BY DEF Drawn, Visible

\* How far a sequence moves the cursor.
LEMMA MoveInRange ==
    ASSUME NEW n \in Nat, NEW a \in Nat
    PROVE  AtMost(n, a) \in 0 .. a
  BY DEF AtMost

LEMMA FurtherInRange ==
    ASSUME EscInv, NEW n \in Nat, NEW a \in Nat
    PROVE  Times \in Nat /\ Further(n, a) \in 0 .. a
<1> DEFINE v == IF esc.default[1] THEN 1 ELSE esc.value[1]
<1>1. v \in Int
  BY IntFacts DEF EscInv, EscStates, Ints
<1> HIDE DEF v
<1>2. Times \in Nat
  BY <1>1, IntFacts, Modulo DEF Times, v
<1>3. n + Times \in Int
  BY <1>2
<1>4. (n + Times) % IntRange \in Nat
  BY <1>3, IntFacts, Modulo
<1> QED
  BY <1>2, <1>4, MoveInRange DEF Further

\* A position that is given from 1, or not at all, is on the screen.
LEMMA PositionInRange ==
    ASSUME EscInv, NEW k \in {1, 2}, NEW limit \in Nat, NEW p \in Positions(k, limit),
           esc.default[k] \/ esc.value[k] >= 1
    PROVE  p \in 0 .. limit
<1>1. CASE esc.default[k]
  BY <1>1 DEF Positions
<1>2. CASE ~esc.default[k]
  <2>1. esc.value[k] \in Ints /\ esc.value[k] >= 1
    BY <1>2 DEF EscInv, EscStates
  <2> DEFINE v == esc.value[k]
  <2> HIDE DEF v
  <2>2. v \in Int /\ v >= 1 /\ v <= INT_MAX
    BY <2>1, IntFacts DEF Ints, v
  <2>3. v - 1 + INT_MAX + 1 \in 0 .. IntRange - 1
    BY <2>2, IntFacts
  <2>4. AsInt(v - 1) = v - 1
    <3>1. (v - 1 + INT_MAX + 1) % IntRange = v - 1 + INT_MAX + 1
      BY <2>3, IntFacts, Modulo
    <3> QED
      BY <2>2, <3>1, IntFacts DEF AsInt
  <2>5. v # -(INT_MAX + 1)
    BY <2>2, IntFacts
  <2>6. p = AtMost(v - 1, limit)
    BY <1>2, <2>4, <2>5 DEF Positions, v
  <2> QED
    BY <2>2, <2>6, MoveInRange
<1> QED
  BY <1>1, <1>2

\* Does the position of a sequence lie below 1?
BelowOne == \E k \in {1, 2} : ~esc.default[k] /\ esc.value[k] < 1

\* The cursor leaves the screen in one way alone.
LEMMA ScreenStep ==
    ASSUME EscInv, ScreenInv, scr.cursor \in Cells, [TtyNext]_ttyVars
    PROVE  Drawn(scr)' \/ (Home /\ BelowOne)
<1> USE DEF EscInv
<1>1. Drawn(scr) /\ shown \in BOOLEAN
  BY DEF ScreenInv
<1> DEFINE x == X(scr)
           y == Y(scr)
<1>2. x \in 0 .. Columns - 1 /\ y \in 0 .. VD_ROWS - 1
      /\ Columns - 1 \in Nat /\ VD_ROWS - 1 \in Nat /\ Columns \in Nat /\ VD_ROWS \in Nat
  BY <1>1, RowAndColumn, SizeFacts
<1>3. Times \in Nat
  BY FurtherInRange
<1>4. ASSUME NEW a \in 0 .. Columns - 1, NEW b \in 0 .. VD_ROWS - 1,
             EndsIn(text_set_cursor_pos(scr, a, b))
      PROVE  Drawn(scr)'
  BY <1>1, <1>4, SetCursorIsDrawn, DrawnNext DEF EndsIn
<1> HIDE DEF x, y
<1>5. CASE Putchar(Newline(scr))
  BY <1>1, <1>5, NewlineIsDrawn, DrawnNext DEF Putchar
<1>6. CASE Putchar(Backspace(scr))
  BY <1>1, <1>6, BackspaceIsDrawn, DrawnNext DEF Putchar
<1>7. ASSUME NEW c \in Chars, Putchar(Printed(scr, c)) PROVE Drawn(scr)'
  <2>1. c \in Glyphs
    BY DEF Glyphs
  <2> QED
    BY <1>1, <1>7, <2>1, PrintedIsDrawn, DrawnNext DEF Putchar
<1>8. ASSUME BeginEscape \/ Bracket \/ Semicolon \/ \E d \in Digits : Digit(d)
      PROVE  Drawn(scr)'
  BY <1>1, <1>8, DrawnNext DEF BeginEscape, Bracket, Semicolon, Digit, ttyVars
<1>9. CASE Up
  <2>1. AtMost(Times, y) \in 0 .. y
    BY <1>2, <1>3, MoveInRange
  <2>2. y - AtMost(Times, y) \in 0 .. VD_ROWS - 1
    BY <1>2, <2>1
  <2>3. EndsIn(text_set_cursor_pos(scr, x, y - AtMost(Times, y)))
    BY <1>9 DEF Up, x, y
  <2> QED
    BY <1>2, <1>4, <2>2, <2>3
<1>10. CASE Down
  <2>1. Further(y, VD_ROWS - 1) \in 0 .. VD_ROWS - 1
    BY <1>2, FurtherInRange
  <2>2. EndsIn(text_set_cursor_pos(scr, x, Further(y, VD_ROWS - 1)))
    BY <1>10 DEF Down, x, y
  <2> QED
    BY <1>2, <1>4, <2>1, <2>2
<1>11. CASE Forward
  <2>1. Further(x, Columns - 1) \in 0 .. Columns - 1
    BY <1>2, FurtherInRange
  <2>2. EndsIn(text_set_cursor_pos(scr, Further(x, Columns - 1), y))
    BY <1>11 DEF Forward, x, y
  <2> QED
    BY <1>2, <1>4, <2>1, <2>2
<1>12. CASE Back
  <2>1. AtMost(Times, x) \in 0 .. x
    BY <1>2, <1>3, MoveInRange
  <2>2. x - AtMost(Times, x) \in 0 .. Columns - 1
    BY <1>2, <2>1
  <2>3. EndsIn(text_set_cursor_pos(scr, x - AtMost(Times, x), y))
    BY <1>12 DEF Back, x, y
  <2> QED
    BY <1>2, <1>4, <2>2, <2>3
<1>13. CASE Home /\ ~BelowOne
  <2>1. PICK a \in Positions(2, Columns - 1), b \in Positions(1, VD_ROWS - 1) :
            EndsIn(text_set_cursor_pos(scr, a, b))
    BY <1>13 DEF Home
  <2>2. ASSUME NEW k \in {1, 2} PROVE esc.default[k] \/ esc.value[k] >= 1
    <3>1. esc.default[k] \/ ~(esc.value[k] < 1)
      BY <1>13 DEF BelowOne
    <3>2. esc.value[k] \in Int
      BY IntFacts DEF EscStates, Ints
    <3> QED
      BY <3>1, <3>2
  <2>3. a \in 0 .. Columns - 1 /\ b \in 0 .. VD_ROWS - 1
    BY <1>2, <2>2, PositionInRange
  <2> QED
    BY <1>4, <2>1, <2>3
<1>14. CASE Sgr
  BY <1>1, <1>14, DrawnNext DEF Sgr, EndsIn
<1>15. CASE EraseDisplay
  BY <1>1, <1>15, ClearScreenIsDrawn, DrawnNext DEF EraseDisplay, EndsIn
<1>16. CASE Unknown
  <2>1. "?" \in Glyphs
    BY DEF Glyphs
  <2> QED
    BY <1>1, <1>16, <2>1, PrintedIsDrawn, DrawnNext DEF Unknown, EndsIn
<1>17. ASSUME NEW m \in TtyModes, ToggleMode(m) PROVE Drawn(scr)'
  BY <1>1, <1>17, DrawnNext DEF ToggleMode
<1>18. ASSUME NEW here \in BOOLEAN, switch_tty(here) PROVE Drawn(scr)'
  <2>1. scr \in Screens /\ scr.field.lit = {scr.cursor}
    BY <1>1 DEF Drawn
  <2> DEFINE v == IF here THEN scr.field ELSE Blank
  <2>2. v \in Fields
    BY <2>1, BlankIsField DEF Screens
  <2>3. scr' = [scr EXCEPT !.video = v] /\ shown' = here
    BY <1>18 DEF switch_tty
  <2>4. scr' \in Screens /\ scr'.field = scr.field /\ scr'.cursor = scr.cursor
        /\ scr'.video = v
    BY <2>1, <2>2, <2>3 DEF Screens
  <2> QED
    BY <2>1, <2>3, <2>4 DEF Drawn, Visible
<1>19. CASE UNCHANGED ttyVars
  BY <1>1, <1>19, DrawnNext DEF ttyVars
<1> QED
  BY <1>5, <1>6, <1>7, <1>8, <1>9, <1>10, <1>11, <1>12, <1>13, <1>14, <1>15, <1>16,
     <1>17, <1>18, <1>19 DEF TtyNext

\* If it leaves by way of a position below 1 and comes back on the screen, it
\* is drawn there; if it has left, it stays where it is.
LEMMA ScreenInvStep == EscInv /\ ScreenInv /\ [TtyNext]_ttyVars => ScreenInv'
<1> SUFFICES ASSUME EscInv, ScreenInv, [TtyNext]_ttyVars
             PROVE  ScreenInv'
  OBVIOUS
<1>1. shown' \in BOOLEAN
  BY DEF ScreenInv, TtyNext, ttyVars, Putchar, BeginEscape, Bracket, Semicolon, Digit,
         Up, Down, Forward, Back, Home, Sgr, EraseDisplay, Unknown, EndsIn, ToggleMode,
         switch_tty
<1>2. CASE scr.cursor \in Cells /\ Home
  <2>1. PICK x, y : EndsIn(text_set_cursor_pos(scr, x, y))
    BY <1>2 DEF Home
  <2> DEFINE k == (y * Columns + x) % (INT_MAX + 1)
  <2>2. scr' = Moved(scr, k) /\ shown' = shown
    BY <2>1 DEF EndsIn, text_set_cursor_pos
  <2> HIDE DEF k
  <2>3. Drawn(scr)
    BY <1>2 DEF ScreenInv
  <2>4. \E f, v : scr' = [field |-> f, cursor |-> k, video |-> v]
    BY <2>2, <2>3, MovedTo
  <2>5. k \in Cells => Drawn(scr)'
    BY <2>2, <2>3, MovedIsDrawn, DrawnNext
  <2> QED
    BY <1>1, <2>4, <2>5 DEF ScreenInv
<1>3. CASE scr.cursor \in Cells /\ ~Home
  <2>1. Drawn(scr)'
    BY <1>3, ScreenStep
  <2>2. scr' = [field |-> scr'.field, cursor |-> scr'.cursor, video |-> scr'.video]
    BY <2>1 DEF Drawn, Screens
  <2> QED
    BY <1>1, <2>1, <2>2 DEF ScreenInv
<1>4. CASE scr.cursor \notin Cells
  <2>1. (\E here \in BOOLEAN : switch_tty(here)) \/ UNCHANGED ttyVars
    BY <1>4 DEF TtyNext
  <2>2. /\ scr' = [field |-> scr'.field, cursor |-> scr'.cursor, video |-> scr'.video]
        /\ scr'.cursor = scr.cursor
    BY <2>1 DEF ScreenInv, switch_tty, ttyVars
  <2> QED
    BY <1>1, <1>4, <2>2 DEF ScreenInv
<1> QED
  BY <1>2, <1>3, <1>4

\* init_tty draws the cursor in the first cell.
LEMMA ScreenInit == TtyInit => ScreenInv
<1> SUFFICES ASSUME TtyInit PROVE ScreenInv
  OBVIOUS
<1>1. scr \in Screens
  BY BlankIsField DEF TtyInit, Screens
<1> QED
  BY <1>1 DEF TtyInit, ScreenInv, Drawn, Visible, Blank

\* The parser and the screen together.
LEMMA ScreenAlways == TtySpec => [](EscInv /\ ScreenInv)
<1>1. TtyInit => EscInv /\ ScreenInv
  BY ScreenInit, ParserInit DEF TtyInit, EscInv, EscapesStartClean
<1>2. EscInv /\ ScreenInv /\ [TtyNext]_ttyVars => (EscInv /\ ScreenInv)'
  BY EscStep, ScreenInvStep
<1> QED
  BY <1>1, <1>2, PTL DEF TtySpec

(***************************************************************************)
(* For every size of the screen and of an int, and whatever text and       *)
(* sequences come, one step alone takes the cursor off the screen: that of *)
(* escape_parse for ESC [ row ; column H when a row or a column is below   *)
(* 1, be it given as 0 or by digits that overflow.                         *)
(***************************************************************************)
THEOREM CursorStays == TtySpec => CursorLeavesBelowOne
<1>1. ASSUME EscInv, ScreenInv, [TtyNext]_ttyVars, scr.cursor \in Cells, scr'.cursor \notin Cells
      PROVE  esc.escape /\ ~esc'.escape /\ BelowOne
  <2>1. ~Drawn(scr)'
    BY <1>1 DEF Drawn, Screens
  <2>2. Home /\ BelowOne
    BY <1>1, <2>1, ScreenStep
  <2> QED
    BY <2>2, ParserInit DEF Home, EndsIn, Reset
<1>2. EscInv /\ ScreenInv /\ [TtyNext]_ttyVars =>
          [scr.cursor \in Cells /\ scr'.cursor \notin Cells =>
              /\ esc.escape /\ ~esc'.escape
              /\ \E k \in {1, 2} : ~esc.default[k] /\ esc.value[k] < 1]_ttyVars
  BY <1>1 DEF BelowOne
<1> QED
  BY <1>2, ScreenAlways, PTL DEF TtySpec, CursorLeavesBelowOne

(***************************************************************************)
(* The video memory is the field of the current terminal after every       *)
(* character, though it is written cell by cell (clear_cursor, draw_cursor *)
(* and the stores of text_putchar) and only now and then as a whole        *)
(* (tty_refresh), and the cursor is drawn in its cell and nowhere else; as *)
(* long as it is on the screen.                                            *)
(***************************************************************************)
THEOREM VideoFollows == TtySpec => []VideoShowsTty
<1>1. EscInv /\ ScreenInv => VideoShowsTty
  BY DEF ScreenInv, Drawn, Visible, VideoShowsTty
<1> QED
  BY <1>1, ScreenAlways, PTL
=============================================================================
