----------------------------- MODULE VfsProofs -----------------------------
(***************************************************************************)
(* What the two parts of the virtual file system guarantee: Handles, for   *)
(* every number of tasks, descriptors and handles of the file systems, and *)
(* Paths, for every set of letters, paths, directories and mountpoints.    *)
(***************************************************************************)
EXTENDS Handles, Paths, WellFoundedInduction, SequenceTheorems, TLAPS

(***************************************************************************)
(*                                 HANDLES                                 *)
(***************************************************************************)

EntryRecs == [free : BOOLEAN, fs : FileSystems, internal_handle : Idx \cup {-1}]

Tables(f) ==
    /\ f = [p \in Pids |-> f[p]]
    /\ \A p \in Pids : f[p] \in [Entries(p) -> EntryRecs]

\* The three layers: an open descriptor names a handle, and each handle is
\* named by one.
TablesInv ==
    /\ Tables(file_handles_v2)
    /\ devfs_handles \in [Idx -> [free : BOOLEAN]]
    /\ echfs_handles \in [Idx -> [free : BOOLEAN, dev_handle : Idx]]
    /\ \A p \in Pids : \A h \in Entries(p) : Open(p, h) => Internal(p, h) \in Idx
    /\ HandlesPrivate

\* The loops fill the table of a user's task from that of another.
LoopInv ==
    /\ live \subseteq Pids \ {KERNEL}
    /\ pc \in {"ready", "clone", "execute"}
    /\ pc # "ready" => new \in Pids \ {KERNEL}
    /\ pc = "clone" => task \in Pids \ {KERNEL}
    /\ i \in Nat

(***************************************************************************)
(* Tables.                                                                 *)
(***************************************************************************)

LEMMA KernelFacts ==
    /\ KERNEL \in Pids /\ Entries(KERNEL) = Idx
    /\ \A p \in Pids \ {KERNEL} : Entries(p) = 0 .. MaxHandles - 1
<1>1. MaxTasks \in Nat
  BY HandlesAssumption, Zenon
<1> QED
  BY <1>1 DEF KERNEL, Pids, Entries, Idx

\* A table that has a free entry has a lowest one.
LEMMA FreeHandleIsFree ==
    ASSUME NEW t, DOMAIN t \subseteq Nat, HasFree(t)
    PROVE  FreeHandle(t) \in DOMAIN t /\ t[FreeHandle(t)].free
<1> DEFINE R == OpToRel(<, Nat)
           S == {h \in DOMAIN t : t[h].free}
<1>1. IsWellFoundedOn(R, Nat)
  BY NatLessThanWellFounded, Zenon
<1>2. S \subseteq Nat /\ S # {}
  BY DEF HasFree
<1>3. \E e \in S : \A y \in S : <<y, e>> \notin R
  <2> HIDE DEF R, S
  <2> QED
    BY <1>1, <1>2, WFMin
<1>4. PICK e \in S : \A y \in S : <<y, e>> \notin R
  BY <1>3
<1>5. \A y \in S : ~(y < e)
  BY <1>2, <1>4 DEF OpToRel
<1>6. e \in DOMAIN t /\ t[e].free /\ \A g \in DOMAIN t : g < e => ~t[g].free
  BY <1>5
<1> QED
  BY <1>6, Zenon DEF FreeHandle

\* One entry of one table is written.
Written(f, p, h, v) == [f EXCEPT ![p][h] = v]

LEMMA EntryWritten ==
    ASSUME NEW f, Tables(f), NEW p \in Pids, NEW h \in Entries(p), NEW v \in EntryRecs
    PROVE  /\ Tables(Written(f, p, h, v))
           /\ \A q \in Pids : \A k \in Entries(q) :
                 Written(f, p, h, v)[q][k] = IF q = p /\ k = h THEN v ELSE f[q][k]
<1>0. PICK g : g = Written(f, p, h, v)
  OBVIOUS
<1>1. f[p] \in [Entries(p) -> EntryRecs]
  BY DEF Tables
<1>2. PICK t : t = [f[p] EXCEPT ![h] = v]
  OBVIOUS
<1>3. t \in [Entries(p) -> EntryRecs] /\ \A k \in Entries(p) : t[k] = IF k = h THEN v ELSE f[p][k]
  BY <1>1, <1>2
<1>4. g = [f EXCEPT ![p] = t]
  BY <1>0, <1>2 DEF Written
<1>5. g = [q \in Pids |-> IF q = p THEN t ELSE f[q]]
  BY <1>4 DEF Tables
<1>6. \A q \in Pids : g[q] = IF q = p THEN t ELSE f[q]
  BY <1>5
<1>7. Tables(g)
  <2>1. \A q \in Pids : g[q] \in [Entries(q) -> EntryRecs]
    BY <1>3, <1>6 DEF Tables
  <2>2. g = [q \in Pids |-> g[q]]
    BY <1>5
  <2> QED
    BY <2>1, <2>2 DEF Tables
<1> QED
  BY <1>0, <1>3, <1>6, <1>7

\* The handles are those of the file systems' tables.
LEMMA HandleFacts ==
    ASSUME TablesInv
    PROVE  /\ DOMAIN devfs_handles = Idx /\ DOMAIN echfs_handles = Idx /\ Idx \subseteq Nat
           /\ DOMAIN file_handles_v2[KERNEL] = Idx
           /\ \A p \in Pids : DOMAIN file_handles_v2[p] = Entries(p) /\ Entries(p) \subseteq Nat
<1>1. Idx \subseteq Nat /\ \A p \in Pids : Entries(p) \subseteq Nat
  BY DEF Idx, Entries
<1>2. \A p \in Pids : DOMAIN file_handles_v2[p] = Entries(p)
  BY DEF TablesInv, Tables
<1> QED
  BY <1>1, <1>2, KernelFacts DEF TablesInv

LEMMA EntryIsRec ==
    ASSUME NEW fs \in FileSystems, NEW d \in Idx
    PROVE  /\ Entry(fs, d) \in EntryRecs /\ ~Entry(fs, d).free
           /\ Entry(fs, d).fs = fs /\ Entry(fs, d).internal_handle = d
  BY DEF Entry, EntryRecs

(***************************************************************************)
(* Opening.  The handle taken was free, so no open descriptor names it.    *)
(***************************************************************************)
LEMMA UseDeviceKeeps ==
    ASSUME TablesInv, NEW p \in Pids \ {KERNEL}, NEW h \in Entries(p), UseDevice(p, h)
    PROVE  TablesInv'
<1>1. PICK d : d = FreeHandle(devfs_handles)
  OBVIOUS
<1>2. HasFree(devfs_handles) /\ devfs_handles' = [devfs_handles EXCEPT ![d].free = FALSE]
      /\ file_handles_v2' = [file_handles_v2 EXCEPT ![p][h] = Entry("devfs", d)]
      /\ echfs_handles' = echfs_handles
  BY <1>1 DEF UseDevice
<1>3. d \in Idx /\ devfs_handles[d].free
  BY <1>1, <1>2, FreeHandleIsFree, HandleFacts
<1>4. PICK v : v = Entry("devfs", d)
  OBVIOUS
<1>5. v \in EntryRecs /\ ~v.free /\ v.fs = "devfs" /\ v.internal_handle = d
  BY <1>3, <1>4, EntryIsRec DEF FileSystems
<1>6. /\ Tables(file_handles_v2')
      /\ \A q \in Pids : \A k \in Entries(q) :
            file_handles_v2'[q][k] = IF q = p /\ k = h THEN v ELSE file_handles_v2[q][k]
  <2>1. Tables(file_handles_v2) /\ p \in Pids
    BY DEF TablesInv
  <2>2. file_handles_v2' = Written(file_handles_v2, p, h, v)
    BY <1>2, <1>4 DEF Written
  <2> QED
    BY <1>5, <2>1, <2>2, EntryWritten
<1>7. /\ devfs_handles' \in [Idx -> [free : BOOLEAN]]
      /\ \A x \in Idx : devfs_handles'[x].free = (x # d /\ devfs_handles[x].free)
  BY <1>2, <1>3 DEF TablesInv
<1>8. ASSUME NEW q \in Pids, NEW k \in Entries(q), Open(q, k)'
      PROVE  \/ q = p /\ k = h /\ Fs(q, k)' = "devfs" /\ Internal(q, k)' = d
             \/ /\ ~(q = p /\ k = h) /\ Open(q, k) /\ Internal(q, k) \in Idx
                /\ Fs(q, k)' = Fs(q, k) /\ Internal(q, k)' = Internal(q, k)
                /\ ~(Fs(q, k) = "devfs" /\ Internal(q, k) = d)
  <2>1. CASE q = p /\ k = h
    BY <1>5, <1>6, <2>1 DEF Fs, Internal
  <2>2. CASE ~(q = p /\ k = h)
    <3>1. file_handles_v2'[q][k] = file_handles_v2[q][k]
      BY <1>6, <2>2
    <3>2. Open(q, k) /\ Fs(q, k)' = Fs(q, k) /\ Internal(q, k)' = Internal(q, k)
      BY <1>8, <3>1 DEF Open, Fs, Internal
    <3>3. Internal(q, k) \in Idx /\ ~(Fs(q, k) = "devfs" /\ Internal(q, k) = d)
      BY <1>3, <3>2 DEF TablesInv, HandlesPrivate, NamesOpen
    <3> QED
      BY <2>2, <3>2, <3>3
  <2> QED
    BY <2>1, <2>2
<1>9. \A q \in Pids : \A k \in Entries(q) : Open(q, k)' => Internal(q, k)' \in Idx
  BY <1>3, <1>8
<1>10. NamesOpen'
  <2> SUFFICES ASSUME NEW q \in Pids, NEW k \in Entries(q), Open(q, k)'
               PROVE  IF Fs(q, k)' = "devfs" THEN ~devfs_handles'[Internal(q, k)'].free
                                             ELSE ~echfs_handles'[Internal(q, k)'].free
    BY DEF NamesOpen
  <2>1. Open(q, k) => IF Fs(q, k) = "devfs" THEN ~devfs_handles[Internal(q, k)].free
                                            ELSE ~echfs_handles[Internal(q, k)].free
    BY DEF TablesInv, HandlesPrivate, NamesOpen
  <2> QED
    BY <1>2, <1>3, <1>7, <1>8, <2>1
<1>11. NamesDistinct'
  <2> SUFFICES ASSUME NEW q \in Pids, NEW r \in Pids, NEW g \in Entries(q), NEW k \in Entries(r),
                      Open(q, g)', Open(r, k)', Fs(q, g)' = Fs(r, k)',
                      Internal(q, g)' = Internal(r, k)'
               PROVE  q = r /\ g = k
    BY DEF NamesDistinct
  <2>1. /\ Open(q, g) /\ Open(r, k) /\ Fs(q, g) = Fs(r, k) /\ Internal(q, g) = Internal(r, k)
        => q = r /\ g = k
    BY DEF TablesInv, HandlesPrivate, NamesDistinct
  <2> QED
    BY <1>8, <2>1
<1>12. DevicesOwned'
  <2>1. \A k \in Idx : file_handles_v2'[KERNEL][k] = file_handles_v2[KERNEL][k]
    BY <1>6, KernelFacts
  <2>2. \A k \in Idx : Open(KERNEL, k)' = Open(KERNEL, k) /\ Fs(KERNEL, k)' = Fs(KERNEL, k)
    BY <2>1 DEF Open, Fs
  <2>3. \A e \in Idx : echfs_handles[e].dev_handle \in Idx
    BY DEF TablesInv
  <2> QED
    BY <1>2, <2>2, <2>3 DEF TablesInv, HandlesPrivate, DevicesOwned
<1> QED
  BY <1>2, <1>6, <1>7, <1>9, <1>10, <1>11, <1>12 DEF TablesInv, HandlesPrivate

LEMMA UseFileKeeps ==
    ASSUME TablesInv, NEW p \in Pids \ {KERNEL}, NEW h \in Entries(p), UseFile(p, h)
    PROVE  TablesInv'
<1>1. PICK d, k, e : /\ d = FreeHandle(devfs_handles) /\ e = FreeHandle(echfs_handles)
                     /\ k = FreeHandle(file_handles_v2[KERNEL])
  OBVIOUS
<1>2. PICK v, w : v = Entry("echfs", e) /\ w = Entry("devfs", d)
  OBVIOUS
<1>3. /\ HasFree(devfs_handles) /\ HasFree(echfs_handles) /\ HasFree(file_handles_v2[KERNEL])
      /\ devfs_handles' = [devfs_handles EXCEPT ![d].free = FALSE]
      /\ echfs_handles' = [echfs_handles EXCEPT ![e] = EchfsHandle(k)]
      /\ file_handles_v2' = [file_handles_v2 EXCEPT ![KERNEL][k] = w, ![p][h] = v]
  BY <1>1, <1>2 DEF UseFile
<1>4. /\ d \in Idx /\ devfs_handles[d].free /\ e \in Idx /\ echfs_handles[e].free
      /\ k \in Idx /\ file_handles_v2[KERNEL][k].free
  BY <1>1, <1>3, FreeHandleIsFree, HandleFacts
<1>5. /\ v \in EntryRecs /\ ~v.free /\ v.fs = "echfs" /\ v.internal_handle = e
      /\ w \in EntryRecs /\ ~w.free /\ w.fs = "devfs" /\ w.internal_handle = d
  BY <1>2, <1>4, EntryIsRec DEF FileSystems
<1>6. /\ Tables(file_handles_v2')
      /\ \A q \in Pids : \A x \in Entries(q) :
            file_handles_v2'[q][x] = IF q = p /\ x = h THEN v
                                     ELSE IF q = KERNEL /\ x = k THEN w
                                     ELSE file_handles_v2[q][x]
  <2>1. PICK f : f = Written(file_handles_v2, KERNEL, k, w)
    OBVIOUS
  <2>2. Tables(file_handles_v2) /\ p \in Pids /\ KERNEL \in Pids /\ k \in Entries(KERNEL)
    BY <1>4, KernelFacts DEF TablesInv
  <2>3. /\ Tables(f)
        /\ \A q \in Pids : \A x \in Entries(q) :
              f[q][x] = IF q = KERNEL /\ x = k THEN w ELSE file_handles_v2[q][x]
    BY <1>5, <2>1, <2>2, EntryWritten
  <2>4. file_handles_v2' = Written(f, p, h, v)
    BY <1>3, <2>1 DEF Written
  <2>5. /\ Tables(file_handles_v2')
        /\ \A q \in Pids : \A x \in Entries(q) :
              file_handles_v2'[q][x] = IF q = p /\ x = h THEN v ELSE f[q][x]
    BY <1>5, <2>2, <2>3, <2>4, EntryWritten
  <2> QED
    BY <2>3, <2>5
<1>7. /\ devfs_handles' \in [Idx -> [free : BOOLEAN]]
      /\ \A x \in Idx : devfs_handles'[x].free = (x # d /\ devfs_handles[x].free)
  BY <1>3, <1>4 DEF TablesInv
<1>8. /\ echfs_handles' \in [Idx -> [free : BOOLEAN, dev_handle : Idx]]
      /\ ~echfs_handles'[e].free /\ echfs_handles'[e].dev_handle = k
      /\ \A x \in Idx \ {e} : echfs_handles'[x] = echfs_handles[x]
  BY <1>3, <1>4 DEF TablesInv, EchfsHandle
<1>9. ASSUME NEW q \in Pids, NEW x \in Entries(q), Open(q, x)'
      PROVE  \/ q = p /\ x = h /\ Fs(q, x)' = "echfs" /\ Internal(q, x)' = e
             \/ q = KERNEL /\ x = k /\ Fs(q, x)' = "devfs" /\ Internal(q, x)' = d
             \/ /\ ~(q = p /\ x = h) /\ ~(q = KERNEL /\ x = k)
                /\ Open(q, x) /\ Internal(q, x) \in Idx
                /\ Fs(q, x)' = Fs(q, x) /\ Internal(q, x)' = Internal(q, x)
                /\ ~(Fs(q, x) = "devfs" /\ Internal(q, x) = d)
                /\ ~(Fs(q, x) # "devfs" /\ Internal(q, x) = e)
  <2>1. CASE q = p /\ x = h
    BY <1>5, <1>6, <2>1 DEF Fs, Internal
  <2>2. CASE q = KERNEL /\ x = k
    BY <1>5, <1>6, <2>2 DEF Fs, Internal
  <2>3. CASE ~(q = p /\ x = h) /\ ~(q = KERNEL /\ x = k)
    <3>1. file_handles_v2'[q][x] = file_handles_v2[q][x]
      BY <1>6, <2>3
    <3>2. Open(q, x) /\ Fs(q, x)' = Fs(q, x) /\ Internal(q, x)' = Internal(q, x)
      BY <1>9, <3>1 DEF Open, Fs, Internal
    <3>3. Internal(q, x) \in Idx /\ ~(Fs(q, x) = "devfs" /\ Internal(q, x) = d)
          /\ ~(Fs(q, x) # "devfs" /\ Internal(q, x) = e)
      BY <1>4, <3>2 DEF TablesInv, HandlesPrivate, NamesOpen
    <3> QED
      BY <2>3, <3>2, <3>3
  <2> QED
    BY <2>1, <2>2, <2>3
<1>10. \A q \in Pids : \A x \in Entries(q) : Open(q, x)' => Internal(q, x)' \in Idx
  BY <1>4, <1>9
<1>11. NamesOpen'
  <2> SUFFICES ASSUME NEW q \in Pids, NEW x \in Entries(q), Open(q, x)'
               PROVE  IF Fs(q, x)' = "devfs" THEN ~devfs_handles'[Internal(q, x)'].free
                                             ELSE ~echfs_handles'[Internal(q, x)'].free
    BY DEF NamesOpen
  <2>1. Open(q, x) => IF Fs(q, x) = "devfs" THEN ~devfs_handles[Internal(q, x)].free
                                            ELSE ~echfs_handles[Internal(q, x)].free
    BY DEF TablesInv, HandlesPrivate, NamesOpen
  <2> QED
    BY <1>4, <1>7, <1>8, <1>9, <2>1
<1>12. NamesDistinct'
  <2> SUFFICES ASSUME NEW q \in Pids, NEW r \in Pids, NEW g \in Entries(q), NEW x \in Entries(r),
                      Open(q, g)', Open(r, x)', Fs(q, g)' = Fs(r, x)',
                      Internal(q, g)' = Internal(r, x)'
               PROVE  q = r /\ g = x
    BY DEF NamesDistinct
  <2>1. /\ Open(q, g) /\ Open(r, x) /\ Fs(q, g) = Fs(r, x) /\ Internal(q, g) = Internal(r, x)
        => q = r /\ g = x
    BY DEF TablesInv, HandlesPrivate, NamesDistinct
  <2> QED
    BY <1>9, <2>1
<1>13. DevicesOwned'
  <2>1. ~Open(KERNEL, k)
    BY <1>4 DEF Open
  <2>3. ASSUME NEW f \in Idx \ {e}, ~echfs_handles'[f].free
        PROVE  /\ echfs_handles'[f].dev_handle = echfs_handles[f].dev_handle
               /\ ~echfs_handles[f].free /\ echfs_handles[f].dev_handle \in Idx \ {k}
               /\ Open(KERNEL, echfs_handles[f].dev_handle)
               /\ Fs(KERNEL, echfs_handles[f].dev_handle) = "devfs"
    <3>1. echfs_handles'[f] = echfs_handles[f] /\ echfs_handles[f].dev_handle \in Idx
      BY <1>8 DEF TablesInv
    <3>2. Open(KERNEL, echfs_handles[f].dev_handle)
          /\ Fs(KERNEL, echfs_handles[f].dev_handle) = "devfs"
      BY <2>3, <3>1 DEF TablesInv, HandlesPrivate, DevicesOwned
    <3> QED
      BY <2>1, <2>3, <3>1, <3>2
  <2>4. ASSUME NEW f \in Idx, NEW g \in Idx \ {f}, ~echfs_handles'[f].free, ~echfs_handles'[g].free
        PROVE  echfs_handles'[g].dev_handle # echfs_handles'[f].dev_handle
    <3>1. CASE f = e
      BY <1>8, <2>3, <2>4, <3>1
    <3>2. CASE g = e
      BY <1>8, <2>3, <2>4, <3>2
    <3>3. CASE f # e /\ g # e
      BY <2>3, <2>4, <3>3 DEF TablesInv, HandlesPrivate, DevicesOwned
    <3> QED
      BY <3>1, <3>2, <3>3
  <2>5. ASSUME NEW f \in Idx, ~echfs_handles'[f].free
        PROVE  (/\ Open(KERNEL, echfs_handles[f].dev_handle)
                /\ Fs(KERNEL, echfs_handles[f].dev_handle) = "devfs")'
    <3>1. CASE f = e
      <4>1. file_handles_v2'[KERNEL][k] = w
        BY <1>4, <1>6, KernelFacts
      <4> QED
        BY <1>5, <1>8, <3>1, <4>1 DEF Open, Fs
    <3>2. CASE f # e
      <4>1. PICK x : x = echfs_handles[f].dev_handle
        OBVIOUS
      <4>2. x \in Idx \ {k} /\ echfs_handles'[f].dev_handle = x /\ Open(KERNEL, x)
            /\ Fs(KERNEL, x) = "devfs"
        BY <2>3, <2>5, <3>2, <4>1
      <4>3. file_handles_v2'[KERNEL][x] = file_handles_v2[KERNEL][x]
        BY <1>6, <4>2, KernelFacts
      <4> QED
        BY <4>2, <4>3 DEF Open, Fs
    <3> QED
      BY <3>1, <3>2
  <2> QED
    BY <2>4, <2>5 DEF DevicesOwned
<1> QED
  BY <1>6, <1>7, <1>8, <1>10, <1>11, <1>12, <1>13 DEF TablesInv, HandlesPrivate

(***************************************************************************)
(* Closing.  No other descriptor names the handle that becomes free.       *)
(***************************************************************************)

\* Steps that open nothing: some descriptors become free, and with them all
\* that name the handles that do.
LEMMA ClosingKeeps ==
    ASSUME TablesInv, Tables(file_handles_v2'),
           devfs_handles' \in [Idx -> [free : BOOLEAN]],
           echfs_handles' \in [Idx -> [free : BOOLEAN, dev_handle : Idx]],
           \A q \in Pids : \A x \in Entries(q) : Open(q, x)' =>
              /\ Open(q, x) /\ file_handles_v2'[q][x] = file_handles_v2[q][x]
              /\ Fs(q, x) = "devfs" => devfs_handles'[Internal(q, x)] = devfs_handles[Internal(q, x)]
              /\ Fs(q, x) # "devfs" => echfs_handles'[Internal(q, x)] = echfs_handles[Internal(q, x)],
           \A f \in Idx : ~echfs_handles'[f].free =>
              /\ echfs_handles'[f] = echfs_handles[f]
              /\ file_handles_v2'[KERNEL][echfs_handles[f].dev_handle]
                    = file_handles_v2[KERNEL][echfs_handles[f].dev_handle]
    PROVE  TablesInv'
<1>1. ASSUME NEW q \in Pids, NEW x \in Entries(q), Open(q, x)'
      PROVE  /\ Open(q, x) /\ Fs(q, x)' = Fs(q, x) /\ Internal(q, x)' = Internal(q, x)
             /\ Internal(q, x) \in Idx
  BY <1>1 DEF Fs, Internal, TablesInv
<1>2. \A q \in Pids : \A x \in Entries(q) : Open(q, x)' => Internal(q, x)' \in Idx
  BY <1>1
<1>3. NamesOpen'
  <2> SUFFICES ASSUME NEW q \in Pids, NEW x \in Entries(q), Open(q, x)'
               PROVE  IF Fs(q, x)' = "devfs" THEN ~devfs_handles'[Internal(q, x)'].free
                                             ELSE ~echfs_handles'[Internal(q, x)'].free
    BY DEF NamesOpen
  <2>1. IF Fs(q, x) = "devfs" THEN ~devfs_handles[Internal(q, x)].free
                              ELSE ~echfs_handles[Internal(q, x)].free
    BY <1>1 DEF TablesInv, HandlesPrivate, NamesOpen
  <2> QED
    BY <1>1, <2>1
<1>4. NamesDistinct'
  <2> SUFFICES ASSUME NEW q \in Pids, NEW r \in Pids, NEW g \in Entries(q), NEW x \in Entries(r),
                      Open(q, g)', Open(r, x)', Fs(q, g)' = Fs(r, x)',
                      Internal(q, g)' = Internal(r, x)'
               PROVE  q = r /\ g = x
    BY DEF NamesDistinct
  <2> QED
    BY <1>1 DEF TablesInv, HandlesPrivate, NamesDistinct
<1>5. DevicesOwned'
  <2>1. ASSUME NEW f \in Idx, ~echfs_handles'[f].free
        PROVE  (/\ Open(KERNEL, echfs_handles[f].dev_handle)
                /\ Fs(KERNEL, echfs_handles[f].dev_handle) = "devfs")'
    <3>1. Open(KERNEL, echfs_handles[f].dev_handle)
          /\ Fs(KERNEL, echfs_handles[f].dev_handle) = "devfs"
      BY <2>1 DEF TablesInv, HandlesPrivate, DevicesOwned
    <3>2. echfs_handles'[f] = echfs_handles[f]
          /\ file_handles_v2'[KERNEL][echfs_handles[f].dev_handle]
                = file_handles_v2[KERNEL][echfs_handles[f].dev_handle]
      BY <2>1
    <3> QED
      BY <3>1, <3>2 DEF Open, Fs
  <2>2. ASSUME NEW f \in Idx, NEW g \in Idx \ {f}, ~echfs_handles'[f].free, ~echfs_handles'[g].free
        PROVE  echfs_handles'[g].dev_handle # echfs_handles'[f].dev_handle
    BY <2>2 DEF TablesInv, HandlesPrivate, DevicesOwned
  <2> QED
    BY <2>1, <2>2 DEF DevicesOwned
<1> QED
  BY <1>2, <1>3, <1>4, <1>5 DEF TablesInv, HandlesPrivate

\* An entry is marked as free.
LEMMA FreedIsRec ==
    ASSUME NEW r \in EntryRecs, NEW b \in BOOLEAN
    PROVE  [r EXCEPT !.free = b] \in EntryRecs /\ [r EXCEPT !.free = b].free = b
  BY DEF EntryRecs

LEMMA CloseDeviceKeeps ==
    ASSUME TablesInv, NEW p \in Pids \ {KERNEL}, NEW h \in Entries(p), Open(p, h),
           Fs(p, h) = "devfs", CloseDevice(p, h)
    PROVE  TablesInv'
<1>1. PICK d, v : d = Internal(p, h) /\ v = [file_handles_v2[p][h] EXCEPT !.free = TRUE]
  OBVIOUS
<1>2. d \in Idx /\ Tables(file_handles_v2) /\ p \in Pids /\ file_handles_v2[p][h] \in EntryRecs
  BY <1>1 DEF TablesInv, Tables
<1>3. /\ devfs_handles' = [devfs_handles EXCEPT ![d].free = TRUE]
      /\ file_handles_v2' = Written(file_handles_v2, p, h, v)
      /\ echfs_handles' = echfs_handles
  BY <1>1 DEF CloseDevice, Internal, Written
<1>4. v \in EntryRecs /\ v.free
  BY <1>1, <1>2, FreedIsRec
<1>5. /\ Tables(file_handles_v2')
      /\ \A q \in Pids : \A x \in Entries(q) :
            file_handles_v2'[q][x] = IF q = p /\ x = h THEN v ELSE file_handles_v2[q][x]
  BY <1>2, <1>3, <1>4, EntryWritten
<1>6. devfs_handles' \in [Idx -> [free : BOOLEAN]]
      /\ \A x \in Idx \ {d} : devfs_handles'[x] = devfs_handles[x]
  BY <1>2, <1>3 DEF TablesInv
<1>7. ASSUME NEW q \in Pids, NEW x \in Entries(q), Open(q, x)'
      PROVE  /\ Open(q, x) /\ file_handles_v2'[q][x] = file_handles_v2[q][x]
             /\ Fs(q, x) = "devfs" => devfs_handles'[Internal(q, x)] = devfs_handles[Internal(q, x)]
  <2>1. ~(q = p /\ x = h)
    BY <1>4, <1>5, <1>7 DEF Open
  <2>2. file_handles_v2'[q][x] = file_handles_v2[q][x]
    BY <1>5, <2>1
  <2>3. Open(q, x)
    BY <1>7, <2>2 DEF Open
  <2>4. Internal(q, x) \in Idx /\ (Fs(q, x) = "devfs" => Internal(q, x) # d)
    BY <1>1, <2>1, <2>3 DEF TablesInv, HandlesPrivate, NamesDistinct
  <2> QED
    BY <1>6, <2>2, <2>3, <2>4
<1>8. \A x \in Idx : file_handles_v2'[KERNEL][x] = file_handles_v2[KERNEL][x]
  BY <1>5, KernelFacts
<1>9. echfs_handles \in [Idx -> [free : BOOLEAN, dev_handle : Idx]]
  BY DEF TablesInv
<1>10. \A f \in Idx : echfs_handles[f].dev_handle \in Idx
  BY <1>9
<1>11. \A q \in Pids : \A x \in Entries(q) : Open(q, x)' =>
          /\ Open(q, x) /\ file_handles_v2'[q][x] = file_handles_v2[q][x]
          /\ Fs(q, x) = "devfs" => devfs_handles'[Internal(q, x)] = devfs_handles[Internal(q, x)]
          /\ Fs(q, x) # "devfs" => echfs_handles'[Internal(q, x)] = echfs_handles[Internal(q, x)]
  BY <1>3, <1>7
<1>12. \A f \in Idx : ~echfs_handles'[f].free =>
          /\ echfs_handles'[f] = echfs_handles[f]
          /\ file_handles_v2'[KERNEL][echfs_handles[f].dev_handle]
                = file_handles_v2[KERNEL][echfs_handles[f].dev_handle]
  BY <1>3, <1>8, <1>10
<1>13. echfs_handles' \in [Idx -> [free : BOOLEAN, dev_handle : Idx]]
  BY <1>3, <1>9
<1> QED
  BY <1>5, <1>6, <1>11, <1>12, <1>13, ClosingKeeps

LEMMA CloseFileKeeps ==
    ASSUME TablesInv, NEW p \in Pids \ {KERNEL}, NEW h \in Entries(p), Open(p, h),
           Fs(p, h) # "devfs", CloseFile(p, h)
    PROVE  TablesInv'
<1>1. PICK e, k, d : /\ e = Internal(p, h) /\ k = echfs_handles[e].dev_handle
                     /\ d = Internal(KERNEL, k)
  OBVIOUS
<1>2. /\ e \in Idx /\ Tables(file_handles_v2) /\ p \in Pids /\ KERNEL \in Pids
      /\ file_handles_v2[p][h] \in EntryRecs
  BY <1>1, KernelFacts DEF TablesInv, Tables
<1>3. ~echfs_handles[e].free /\ k \in Idx
  BY <1>1, <1>2 DEF CloseFile, Internal, TablesInv
<1>4. Open(KERNEL, k) /\ Fs(KERNEL, k) = "devfs" /\ k \in Entries(KERNEL)
      /\ \A f \in Idx \ {e} : ~echfs_handles[f].free => echfs_handles[f].dev_handle # k
  BY <1>1, <1>2, <1>3, KernelFacts DEF TablesInv, HandlesPrivate, DevicesOwned
<1>5. d \in Idx /\ ~devfs_handles[d].free /\ file_handles_v2[KERNEL][k] \in EntryRecs
  BY <1>1, <1>2, <1>4 DEF TablesInv, Tables, HandlesPrivate, NamesOpen
<1>6. PICK v, w : /\ v = [file_handles_v2[p][h] EXCEPT !.free = TRUE]
                  /\ w = [file_handles_v2[KERNEL][k] EXCEPT !.free = TRUE]
  OBVIOUS
<1>7. v \in EntryRecs /\ v.free /\ w \in EntryRecs /\ w.free
  BY <1>2, <1>5, <1>6, FreedIsRec
<1>8. /\ echfs_handles' = [echfs_handles EXCEPT ![e].free = TRUE]
      /\ devfs_handles' = [devfs_handles EXCEPT ![d].free = TRUE]
      /\ file_handles_v2' = [file_handles_v2 EXCEPT
             ![KERNEL][k].free = @ \/ ~devfs_handles[d].free, ![p][h].free = TRUE]
  BY <1>1 DEF CloseFile, Internal
<1>9. PICK f : f = Written(file_handles_v2, KERNEL, k, w)
  OBVIOUS
<1>10. /\ Tables(f)
       /\ \A q \in Pids : \A x \in Entries(q) :
             f[q][x] = IF q = KERNEL /\ x = k THEN w ELSE file_handles_v2[q][x]
  BY <1>2, <1>4, <1>7, <1>9, EntryWritten
<1>11. file_handles_v2' = Written(f, p, h, v)
  <2>1. f[p][h] = file_handles_v2[p][h]
    BY <1>2, <1>10
  <2>2. file_handles_v2[KERNEL][k].free \/ ~devfs_handles[d].free
    BY <1>5
  <2>3. w = [file_handles_v2[KERNEL][k] EXCEPT !.free = @ \/ ~devfs_handles[d].free]
    BY <1>5, <1>6
  <2>4. v = [f[p][h] EXCEPT !.free = TRUE]
    BY <1>6, <2>1
  <2> QED
    BY <1>8, <1>9, <2>3, <2>4 DEF Written
<1>12. /\ Tables(file_handles_v2')
       /\ \A q \in Pids : \A x \in Entries(q) :
             file_handles_v2'[q][x] = IF q = p /\ x = h THEN v ELSE f[q][x]
  BY <1>2, <1>7, <1>10, <1>11, EntryWritten
<1>13. /\ devfs_handles' \in [Idx -> [free : BOOLEAN]]
       /\ \A x \in Idx \ {d} : devfs_handles'[x] = devfs_handles[x]
  BY <1>5, <1>8 DEF TablesInv
<1>14. /\ echfs_handles' \in [Idx -> [free : BOOLEAN, dev_handle : Idx]] /\ echfs_handles'[e].free
       /\ \A x \in Idx \ {e} : echfs_handles'[x] = echfs_handles[x]
  <2>1. echfs_handles \in [Idx -> [free : BOOLEAN, dev_handle : Idx]]
    BY DEF TablesInv
  <2>2. PICK r : r = [echfs_handles[e] EXCEPT !.free = TRUE]
    OBVIOUS
  <2>3. r \in [free : BOOLEAN, dev_handle : Idx] /\ r.free
    <3>1. ASSUME NEW o \in [free : BOOLEAN, dev_handle : Idx]
          PROVE  /\ [o EXCEPT !.free = TRUE] \in [free : BOOLEAN, dev_handle : Idx]
                 /\ [o EXCEPT !.free = TRUE].free
      OBVIOUS
    <3>2. echfs_handles[e] \in [free : BOOLEAN, dev_handle : Idx]
      BY <1>2, <2>1
    <3> QED
      BY <2>2, <3>1, <3>2
  <2>4. echfs_handles' = [echfs_handles EXCEPT ![e] = r]
    BY <1>8, <2>2
  <2> QED
    BY <1>2, <2>1, <2>3, <2>4
<1>15. ASSUME NEW q \in Pids, NEW x \in Entries(q), Open(q, x)'
       PROVE  /\ Open(q, x) /\ file_handles_v2'[q][x] = file_handles_v2[q][x]
              /\ Fs(q, x) = "devfs" => devfs_handles'[Internal(q, x)] = devfs_handles[Internal(q, x)]
              /\ Fs(q, x) # "devfs" => echfs_handles'[Internal(q, x)] = echfs_handles[Internal(q, x)]
  <2>1. ~(q = p /\ x = h) /\ ~(q = KERNEL /\ x = k)
    BY <1>7, <1>10, <1>12, <1>15 DEF Open
  <2>2. file_handles_v2'[q][x] = file_handles_v2[q][x]
    BY <1>10, <1>12, <2>1
  <2>3. Open(q, x)
    BY <1>15, <2>2 DEF Open
  <2>4. Internal(q, x) \in Idx
    BY <2>3 DEF TablesInv
  <2>5. Fs(q, x) = "devfs" => Internal(q, x) # d
    BY <1>1, <1>2, <1>4, <2>1, <2>3 DEF TablesInv, HandlesPrivate, NamesDistinct
  <2>6. Fs(q, x) # "devfs" => Internal(q, x) # e
    <3>1. Fs(q, x) \in FileSystems /\ Fs(p, h) \in FileSystems
      <4>1. file_handles_v2[q][x] \in EntryRecs
        BY <1>2 DEF Tables
      <4> QED
        BY <1>2, <4>1 DEF EntryRecs, Fs
    <3>2. Fs(q, x) # "devfs" => Fs(q, x) = Fs(p, h)
      BY <3>1 DEF FileSystems
    <3> QED
      BY <1>1, <1>2, <2>1, <2>3, <3>2 DEF TablesInv, HandlesPrivate, NamesDistinct
  <2> QED
    BY <1>13, <1>14, <2>2, <2>3, <2>4, <2>5, <2>6
<1>16. ASSUME NEW g \in Idx, ~echfs_handles'[g].free
       PROVE  /\ echfs_handles'[g] = echfs_handles[g]
              /\ file_handles_v2'[KERNEL][echfs_handles[g].dev_handle]
                    = file_handles_v2[KERNEL][echfs_handles[g].dev_handle]
  <2>1. g # e
    BY <1>14, <1>16
  <2>2. echfs_handles'[g] = echfs_handles[g] /\ echfs_handles[g].dev_handle \in Idx
        /\ echfs_handles[g].dev_handle # k
    BY <1>4, <1>14, <1>16, <2>1 DEF TablesInv
  <2> QED
    BY <1>10, <1>12, <2>2, KernelFacts
<1> QED
  BY <1>12, <1>13, <1>14, <1>15, <1>16, ClosingKeeps

\* task_quit and a fork that fails drop a table.
LEMMA DropKeeps ==
    ASSUME TablesInv, NEW p \in Pids \ {KERNEL},
           file_handles_v2' = [file_handles_v2 EXCEPT ![p] = NoTable(p)],
           UNCHANGED <<devfs_handles, echfs_handles>>
    PROVE  TablesInv'
<1>1. PICK t : t = NoTable(p)
  OBVIOUS
<1>2. t \in [Entries(p) -> EntryRecs] /\ \A x \in Entries(p) : t[x].free
  BY <1>1 DEF NoTable, NoEntry, EntryRecs, FileSystems
<1>3. Tables(file_handles_v2) /\ file_handles_v2' = [file_handles_v2 EXCEPT ![p] = t]
  BY <1>1 DEF TablesInv
<1>4. file_handles_v2' = [q \in Pids |-> IF q = p THEN t ELSE file_handles_v2[q]]
  BY <1>3 DEF Tables
<1>5. \A q \in Pids : file_handles_v2'[q] = IF q = p THEN t ELSE file_handles_v2[q]
  BY <1>4
<1>6. Tables(file_handles_v2')
  <2>1. \A q \in Pids : file_handles_v2'[q] \in [Entries(q) -> EntryRecs]
    BY <1>2, <1>3, <1>5 DEF Tables
  <2>2. file_handles_v2' = [q \in Pids |-> file_handles_v2'[q]]
    BY <1>4
  <2> QED
    BY <2>1, <2>2 DEF Tables
<1>7. \A q \in Pids : \A x \in Entries(q) : Open(q, x)' =>
         /\ Open(q, x) /\ file_handles_v2'[q][x] = file_handles_v2[q][x]
         /\ Fs(q, x) = "devfs" => devfs_handles'[Internal(q, x)] = devfs_handles[Internal(q, x)]
         /\ Fs(q, x) # "devfs" => echfs_handles'[Internal(q, x)] = echfs_handles[Internal(q, x)]
  BY <1>2, <1>5 DEF Open
<1>8. \A f \in Idx : ~echfs_handles'[f].free =>
         /\ echfs_handles'[f] = echfs_handles[f]
         /\ file_handles_v2'[KERNEL][echfs_handles[f].dev_handle]
               = file_handles_v2[KERNEL][echfs_handles[f].dev_handle]
  BY <1>5, KernelFacts
<1>9. /\ devfs_handles' \in [Idx -> [free : BOOLEAN]]
      /\ echfs_handles' \in [Idx -> [free : BOOLEAN, dev_handle : Idx]]
  BY DEF TablesInv
<1> QED
  BY <1>6, <1>7, <1>8, <1>9, ClosingKeeps

(***************************************************************************)
(* The system.                                                             *)
(***************************************************************************)

LEMMA UseKeeps ==
    ASSUME TablesInv, NEW p \in Pids \ {KERNEL}, NEW h \in Entries(p), NEW fs, Use(p, h, fs)
    PROVE  TablesInv'
  BY UseDeviceKeeps, UseFileKeeps DEF Use

\* The entry a table offers.
LEMMA OfferedEntry ==
    ASSUME TablesInv, NEW p \in Pids, HasFree(file_handles_v2[p])
    PROVE  FreeHandle(file_handles_v2[p]) \in Entries(p)
<1>1. DOMAIN file_handles_v2[p] = Entries(p) /\ Entries(p) \subseteq Nat
  BY HandleFacts
<1> QED
  BY <1>1, FreeHandleIsFree

LEMMA HandlesInit == Init => TablesInv /\ LoopInv
<1> SUFFICES ASSUME Init PROVE TablesInv /\ LoopInv
  OBVIOUS
<1>1. NoEntry \in EntryRecs /\ NoEntry.free
  BY DEF NoEntry, EntryRecs, FileSystems
<1>2. file_handles_v2 = [p \in Pids |-> NoTable(p)]
  BY DEF Init
<1>3. \A p \in Pids : file_handles_v2[p] \in [Entries(p) -> EntryRecs]
                    /\ \A h \in Entries(p) : file_handles_v2[p][h] = NoEntry
  BY <1>1, <1>2 DEF NoTable
<1>4. Tables(file_handles_v2)
  BY <1>2, <1>3 DEF Tables
<1>5. \A p \in Pids : \A h \in Entries(p) : ~Open(p, h)
  BY <1>1, <1>3 DEF Open
<1>6. /\ devfs_handles \in [Idx -> [free : BOOLEAN]]
      /\ echfs_handles \in [Idx -> [free : BOOLEAN, dev_handle : Idx]]
      /\ \A e \in Idx : echfs_handles[e].free
  <2>1. ASSUME NEW e \in Idx PROVE 0 \in Idx
    <3>1. MaxInternal \in Nat
      BY HandlesAssumption, Zenon
    <3> QED
      BY <2>1, <3>1 DEF Idx
  <2> QED
    BY <2>1 DEF Init
<1>7. HandlesPrivate
  BY <1>5, <1>6 DEF HandlesPrivate, NamesOpen, NamesDistinct, DevicesOwned
<1>8. LoopInv
  BY DEF Init, LoopInv
<1> QED
  BY <1>4, <1>5, <1>6, <1>7, <1>8 DEF TablesInv

LEMMA LoopStep == LoopInv /\ [Next]_vars => LoopInv'
<1> SUFFICES ASSUME LoopInv, [Next]_vars PROVE LoopInv'
  OBVIOUS
<1> USE DEF LoopInv
<1>1. CASE CloneHandle \/ \E fs \in FileSystems : OpenStream(fs)
  BY <1>1 DEF CloneHandle, OpenStream
<1>2. CASE ForkDone \/ ForkFails \/ Executed
  BY <1>2 DEF ForkDone, ForkFails, Executed
<1>3. ASSUME NEW p \in Pids, Execute(p) \/ Quit(p) PROVE LoopInv'
  BY <1>3 DEF Execute, Quit
<1>4. ASSUME NEW p \in Pids, \/ \E fs \in FileSystems : VfsOpen(p, fs)
                             \/ \E h \in Entries(p) : VfsClose(p, h)
      PROVE  LoopInv'
  BY <1>4 DEF VfsOpen, VfsClose
<1>5. ASSUME NEW p \in Pids, NEW c \in Pids, Fork(p, c) PROVE LoopInv'
  BY <1>5 DEF Fork
<1>6. CASE UNCHANGED vars
  BY <1>6 DEF vars
<1> QED
  BY <1>1, <1>2, <1>3, <1>4, <1>5, <1>6 DEF Next

LEMMA TablesStep ==
    ASSUME ~StaleCloses, TablesInv, LoopInv, [Next]_vars
    PROVE  TablesInv'
<1>1. ASSUME UNCHANGED tables PROVE TablesInv'
  <2>1. file_handles_v2' = file_handles_v2 /\ devfs_handles' = devfs_handles
        /\ echfs_handles' = echfs_handles
    BY <1>1 DEF tables
  <2> QED
    <3>1. \A q \in Pids : \A x \in Entries(q) : Open(q, x)' =>
            /\ Open(q, x) /\ file_handles_v2'[q][x] = file_handles_v2[q][x]
            /\ Fs(q, x) = "devfs" => devfs_handles'[Internal(q, x)] = devfs_handles[Internal(q, x)]
            /\ Fs(q, x) # "devfs" => echfs_handles'[Internal(q, x)] = echfs_handles[Internal(q, x)]
      BY <2>1 DEF Open
    <3>2. /\ Tables(file_handles_v2') /\ devfs_handles' \in [Idx -> [free : BOOLEAN]]
          /\ echfs_handles' \in [Idx -> [free : BOOLEAN, dev_handle : Idx]]
      BY <2>1 DEF TablesInv
    <3> QED
      BY <2>1, <3>1, <3>2, ClosingKeeps
<1>2. CASE CloneHandle
  <2>1. new \in Pids \ {KERNEL} /\ i \in Nat /\ i < MaxHandles
    BY <1>2 DEF CloneHandle, LoopInv
  <2>2. i \in Entries(new)
    <3>1. MaxHandles \in Nat
      <4>1. MaxHandles \in Nat \ {0}
        BY HandlesAssumption, Zenon
      <4> QED
        BY <4>1
    <3> QED
      BY <2>1, <3>1, KernelFacts
  <2> QED
    BY <1>1, <1>2, <2>1, <2>2, UseKeeps DEF CloneHandle
<1>3. ASSUME NEW fs \in FileSystems, OpenStream(fs) PROVE TablesInv'
  <2>1. new \in Pids \ {KERNEL} /\ HasFree(file_handles_v2[new])
        /\ Use(new, FreeHandle(file_handles_v2[new]), fs)
    BY <1>3 DEF OpenStream, LoopInv
  <2>2. FreeHandle(file_handles_v2[new]) \in Entries(new)
    BY <2>1, OfferedEntry
  <2> QED
    BY <2>1, <2>2, UseKeeps
<1>4. ASSUME NEW p \in Pids, NEW fs \in FileSystems, VfsOpen(p, fs) PROVE TablesInv'
  <2>1. p \in Pids \ {KERNEL} /\ HasFree(file_handles_v2[p])
        /\ Use(p, FreeHandle(file_handles_v2[p]), fs)
    BY <1>4 DEF VfsOpen, LoopInv
  <2>2. FreeHandle(file_handles_v2[p]) \in Entries(p)
    BY <2>1, OfferedEntry
  <2> QED
    BY <2>1, <2>2, UseKeeps
<1>5. ASSUME NEW p \in Pids, NEW h \in Entries(p), VfsClose(p, h) PROVE TablesInv'
  <2>1. p \in Pids \ {KERNEL} /\ Open(p, h)
        /\ IF Fs(p, h) = "devfs" THEN CloseDevice(p, h) ELSE CloseFile(p, h)
    BY <1>5 DEF VfsClose, LoopInv, Open, Fs
  <2> QED
    BY <2>1, CloseDeviceKeeps, CloseFileKeeps
<1>6. CASE ForkFails
  <2>1. new \in Pids \ {KERNEL}
    BY <1>6 DEF ForkFails, LoopInv
  <2> QED
    BY <1>6, <2>1, DropKeeps DEF ForkFails
<1>7. ASSUME NEW p \in Pids, Quit(p) PROVE TablesInv'
  <2>1. p \in Pids \ {KERNEL}
    BY <1>7 DEF Quit, LoopInv
  <2> QED
    BY <1>7, <2>1, DropKeeps DEF Quit
<1>8. CASE UNCHANGED vars
  BY <1>1, <1>8 DEF vars, tables
<1>9. CASE ForkDone \/ Executed
  BY <1>1, <1>9 DEF ForkDone, Executed
<1>10. ASSUME NEW p \in Pids, Execute(p) \/ \E c \in Pids : Fork(p, c) PROVE TablesInv'
  BY <1>1, <1>10 DEF Execute, Fork
<1> QED
  BY <1>2, <1>3, <1>4, <1>5, <1>6, <1>7, <1>8, <1>9, <1>10 DEF Next

(***************************************************************************)
(* For every number of tasks and descriptors: an open descriptor names an  *)
(* open handle that no other descriptor names, and an open file of echfs   *)
(* has a device descriptor of its own in the kernel's table, through opens,*)
(* closes, forks that copy a table entry by entry, forks that fail, new    *)
(* programs and tasks that end (vfs_open, vfs_close, vfs_kfork, task_fork, *)
(* general_execute, task_quit).  Programs that close a descriptor twice    *)
(* are left out: vfs_close passes the old handle on without a look at      *)
(* whether the entry is free, and can so close another's.                  *)
(***************************************************************************)
THEOREM DescriptorsPrivate ==
    ASSUME ~StaleCloses
    PROVE  Spec => []HandlesPrivate
<1>1. TablesInv /\ LoopInv /\ [Next]_vars => (TablesInv /\ LoopInv)'
  BY TablesStep, LoopStep
<1>2. TablesInv => HandlesPrivate
  BY DEF TablesInv
<1> QED
  BY <1>1, <1>2, HandlesInit, PTL DEF Spec

(***************************************************************************)
(*                                  PATHS                                  *)
(***************************************************************************)

(***************************************************************************)
(* Induction and recursion.                                                *)
(***************************************************************************)

\* Induction, for a set in place of a predicate.
LEMMA Induction ==
    ASSUME NEW n \in Nat, NEW S, 0 \in S, \A k \in 0 .. n - 1 : k \in S => k + 1 \in S
    PROVE  0 .. n \subseteq S
<1> DEFINE R == OpToRel(<, Nat)
           T == {k \in 0 .. n : k \notin S}
<1>1. IsWellFoundedOn(R, Nat)
  BY NatLessThanWellFounded, Zenon
<1> SUFFICES ASSUME T # {} PROVE FALSE
  OBVIOUS
<1>2. T \subseteq Nat
  OBVIOUS
<1>3. \E e \in T : \A y \in T : <<y, e>> \notin R
  <2> HIDE DEF R, T
  <2> QED
    BY <1>1, <1>2, WFMin
<1>4. PICK e \in T : \A y \in T : <<y, e>> \notin R
  BY <1>3
<1>5. \A y \in T : ~(y < e)
  BY <1>2, <1>4 DEF OpToRel
<1>6. e # 0 /\ e - 1 \in 0 .. n - 1 /\ e - 1 \notin T
  BY <1>5
<1> QED
  BY <1>6

\* The same for sequences.
LEMMA SeqInduction ==
    ASSUME NEW S, NEW X, <<>> \in X,
           \A s \in Seq(S), e \in S : s \in X => Append(s, e) \in X
    PROVE  Seq(S) \subseteq X
<1> SUFFICES ASSUME NEW t \in Seq(S) PROVE t \in X
  OBVIOUS
<1> DEFINE Y == {n \in Nat : \A s \in Seq(S) : Len(s) = n => s \in X}
<1>1. 0 \in Y
  <2>1. \A s \in Seq(S) : Len(s) = 0 => s = <<>>
    BY EmptySeq
  <2> QED
    BY <2>1
<1>2. ASSUME NEW n \in Nat, n \in Y PROVE n + 1 \in Y
  <2>1. ASSUME NEW s \in Seq(S), Len(s) = n + 1 PROVE s \in X
    <3>1. s # <<>>
      BY <2>1, EmptySeq
    <3>2. PICK r \in Seq(S), e \in S : s = Append(r, e)
      BY <3>1, SequenceEmptyOrAppend
    <3>3. Len(r) \in Nat /\ Len(s) = Len(r) + 1
      BY <3>2, AppendProperties, LenProperties
    <3>4. r \in X
      BY <1>2, <2>1, <3>3
    <3> QED
      BY <3>2, <3>4
  <2> QED
    BY <2>1
<1>3. Len(t) \in Nat
  BY LenProperties
<1>4. 0 .. Len(t) \subseteq Y
  <2>1. \A k \in 0 .. Len(t) - 1 : k \in Y => k + 1 \in Y
    BY <1>2, <1>3
  <2> HIDE DEF Y
  <2> QED
    BY <1>1, <1>3, <2>1, Induction
<1> QED
  BY <1>3, <1>4

\* A function given by its first value and each next one exists.
Steps(n, T, G) == G \in [1 .. n -> [T -> T]]
Follows(f, n, a, G) == f[0] = a /\ \A k \in 1 .. n : f[k] = G[k][f[k - 1]]

LEMMA Recursion ==
    ASSUME NEW n \in Nat, NEW T, NEW a \in T, NEW G, Steps(n, T, G)
    PROVE  \E f \in [0 .. n -> T] : Follows(f, n, a, G)
<1> USE DEF Steps, Follows
<1> DEFINE Upto(m, f) == f[0] = a /\ \A k \in 1 .. m : f[k] = G[k][f[k - 1]]
           Some(m) == \E f \in [0 .. m -> T] : Upto(m, f)
           M == {m \in 0 .. n : Some(m)}
<1>1. Some(0)
  <2>1. [k \in 0 .. 0 |-> a] \in [0 .. 0 -> T] /\ Upto(0, [k \in 0 .. 0 |-> a])
    OBVIOUS
  <2> QED
    BY <2>1
<1>2. ASSUME NEW m \in 0 .. n - 1, Some(m) PROVE Some(m + 1)
  <2>1. PICK f \in [0 .. m -> T] : Upto(m, f)
    BY <1>2
  <2> DEFINE x == G[m + 1][f[m]]
             g == [k \in 0 .. m + 1 |-> IF k = m + 1 THEN x ELSE f[k]]
  <2>3. x \in T
    OBVIOUS
  <2>4. g \in [0 .. m + 1 -> T]
    BY <2>3
  <2>5. g[0] = a
    BY <2>1
  <2>6. ASSUME NEW k \in 1 .. m + 1 PROVE g[k] = G[k][g[k - 1]]
    <3>1. g[k - 1] = f[k - 1]
      OBVIOUS
    <3>2. CASE k = m + 1
      BY <3>1, <3>2
    <3>3. CASE k \in 1 .. m
      BY <2>1, <3>1, <3>3
    <3> QED
      BY <3>2, <3>3
  <2> QED
    BY <2>4, <2>5, <2>6
<1>3. 0 .. n \subseteq M
  <2> HIDE DEF Some
  <2>1. 0 \in M /\ \A m \in 0 .. n - 1 : m \in M => m + 1 \in M
    BY <1>1, <1>2
  <2> HIDE DEF M
  <2> QED
    BY <2>1, Induction
<1>4. Some(n)
  <2> HIDE DEF Some
  <2> QED
    BY <1>3
<1> QED
  BY <1>4

\* Two functions that go on alike are the same.
LEMMA Agree ==
    ASSUME NEW n \in Nat, NEW f, NEW g, f[0] = g[0],
           \A k \in 1 .. n : f[k - 1] = g[k - 1] => f[k] = g[k]
    PROVE  f[n] = g[n]
<1> DEFINE S == {k \in 0 .. n : f[k] = g[k]}
<1>1. 0 \in S /\ \A k \in 0 .. n - 1 : k \in S => k + 1 \in S
  OBVIOUS
<1>2. 0 .. n \subseteq S
  <2> HIDE DEF S
  <2> QED
    BY <1>1, Induction
<1> QED
  BY <1>2

(***************************************************************************)
(* Characters and names.                                                   *)
(***************************************************************************)

Names == Seq(Letters)
Proper == Names \ {<<>>, <<".">>, <<".", ".">>}
Lists == Seq(Names) \ {<<>>}

LEMMA Alphabet ==
    /\ "/" \in Characters /\ "." \in Characters /\ "." \in Letters /\ "/" \notin Letters
    /\ Letters \subseteq Characters /\ NUL \notin Characters
    /\ \A c \in Characters : c # "/" => c \in Letters
  BY PathsAssumption DEF Characters, NUL

\* The names, after one character more.
Split(s, c) ==
    IF c = "/" THEN Append(s, <<>>) ELSE [s EXCEPT ![Len(s)] = Append(@, c)]

LEMMA SplitType ==
    ASSUME NEW s \in Lists, NEW c \in Characters
    PROVE  Split(s, c) \in Lists
<1>1. s \in Seq(Names) /\ s # <<>> /\ Len(s) \in Nat /\ Len(s) # 0
  BY EmptySeq, LenProperties DEF Lists
<1>2. CASE c = "/"
  <2>1. <<>> \in Names
    BY EmptySeq DEF Names
  <2>2. Append(s, <<>>) \in Seq(Names) /\ Append(s, <<>>) # <<>>
    BY <1>1, <2>1, AppendProperties
  <2> QED
    BY <1>2, <2>2 DEF Split, Lists
<1>3. CASE c # "/"
  <2>1. Len(s) \in 1 .. Len(s) /\ c \in Letters
    BY <1>1, <1>3, Alphabet
  <2>2. s[Len(s)] \in Seq(Letters)
    BY <1>1, <2>1, ElementOfSeq DEF Names
  <2>3. Append(s[Len(s)], c) \in Names
    BY <2>1, <2>2, AppendProperties DEF Names
  <2> DEFINE t == [s EXCEPT ![Len(s)] = Append(s[Len(s)], c)]
  <2>4. t \in Seq(Names) /\ Len(t) = Len(s)
    BY <1>1, <2>1, <2>3, ExceptSeq
  <2>5. t # <<>>
    <3> HIDE DEF t
    <3> QED
      BY <1>1, <2>4, EmptySeq
  <2> QED
    BY <1>3, <2>4, <2>5 DEF Split, Lists
<1> QED
  BY <1>2, <1>3

\* Words is the last value of a function that goes character by character.
LEMMA WordsBy ==
    ASSUME NEW p \in Seq(Characters)
    PROVE  \E w \in [0 .. Len(p) -> Lists] :
              /\ w[0] = << <<>> >>
              /\ \A k \in 1 .. Len(p) : w[k] = Split(w[k - 1], p[k])
              /\ Words(p) = w[Len(p)]
<1> DEFINE n == Len(p)
           P(w) == w = [k \in 0 .. Len(p) |-> IF k = 0 THEN << <<>> >>
                        ELSE IF p[k] = "/" THEN Append(w[k - 1], <<>>)
                        ELSE [w[k - 1] EXCEPT ![Len(w[k - 1])] = Append(@, p[k])]]
           G == [k \in 1 .. n |-> [s \in Lists |-> Split(s, p[k])]]
<1>1. n \in Nat /\ \A k \in 1 .. n : p[k] \in Characters
  BY LenProperties, ElementOfSeq
<1>2. << <<>> >> \in Lists
  <2>1. <<>> \in Names
    BY EmptySeq DEF Names
  <2>2. << <<>> >> \in Seq(Names) /\ << <<>> >> # <<>>
    BY <2>1
  <2> QED
    BY <2>2 DEF Lists
<1> HIDE DEF n
<1>3. G \in [1 .. n -> [Lists -> Lists]]
  BY <1>1, SplitType
<1>4. PICK w \in [0 .. n -> Lists] :
         w[0] = << <<>> >> /\ \A k \in 1 .. n : w[k] = G[k][w[k - 1]]
  <2> HIDE DEF G
  <2>1. PICK a \in Lists : a = << <<>> >>
    BY <1>2
  <2>2. \E w \in [0 .. n -> Lists] : w[0] = a /\ \A k \in 1 .. n : w[k] = G[k][w[k - 1]]
    <3>1. Steps(n, Lists, G)
      BY <1>3 DEF Steps
    <3>2. \E w \in [0 .. n -> Lists] : Follows(w, n, a, G)
      BY <1>1, <3>1, Recursion
    <3> QED
      BY <3>2 DEF Follows
  <2> QED
    BY <2>1, <2>2
<1>5. ASSUME NEW k \in 1 .. n PROVE w[k] = Split(w[k - 1], p[k])
  <2>1. w[k - 1] \in Lists /\ G[k] = [s \in Lists |-> Split(s, p[k])]
    BY <1>1
  <2>2. G[k][w[k - 1]] = Split(w[k - 1], p[k])
    BY <2>1
  <2> QED
    BY <1>4, <2>2
<1>6. P(w)
  <2> DEFINE Val(k) == IF k = 0 THEN << <<>> >>
                       ELSE IF p[k] = "/" THEN Append(w[k - 1], <<>>)
                       ELSE [w[k - 1] EXCEPT ![Len(w[k - 1])] = Append(@, p[k])]
  <2>1. ASSUME NEW k \in 0 .. n PROVE w[k] = Val(k)
    <3>1. CASE k = 0
      BY <1>4, <3>1
    <3>2. CASE k \in 1 .. n
      <4>1. k # 0
        BY <1>1, <3>2
      <4>2. Val(k) = Split(w[k - 1], p[k])
        BY <4>1, Zenon DEF Split
      <4> QED
        BY <1>5, <3>2, <4>2
    <3> QED
      BY <1>1, <3>1, <3>2
  <2> HIDE DEF Val
  <2>2. w = [k \in 0 .. n |-> Val(k)]
    BY <1>4, <2>1
  <2> QED
    BY <2>2 DEF n, Val
<1> DEFINE v == CHOOSE x : P(x)
<1>7. P(v)
  <2> HIDE DEF P
  <2> QED
    BY <1>6
<1>8. Words(p) = v[Len(p)]
  BY DEF Words
<1>9. /\ v[0] = << <<>> >>
      /\ \A k \in 1 .. n : v[k] = Split(v[k - 1], p[k])
  <2> HIDE DEF v
  <2> DEFINE Val(k) == IF k = 0 THEN << <<>> >>
                       ELSE IF p[k] = "/" THEN Append(v[k - 1], <<>>)
                       ELSE [v[k - 1] EXCEPT ![Len(v[k - 1])] = Append(@, p[k])]
  <2>1. v = [k \in 0 .. n |-> Val(k)]
    BY <1>7 DEF n
  <2>2. Val(0) = << <<>> >>
    OBVIOUS
  <2>3. ASSUME NEW k \in 1 .. n PROVE Val(k) = Split(v[k - 1], p[k])
    <3>1. k # 0
      BY <1>1
    <3> QED
      BY <3>1, Zenon DEF Split
  <2> HIDE DEF Val
  <2>4. \A k \in 0 .. n : v[k] = Val(k)
    BY <2>1
  <2> QED
    BY <1>1, <2>2, <2>3, <2>4
<1>10. v[n] = w[n]
  <2> HIDE DEF v, P, G
  <2>1. v[0] = w[0]
    BY <1>4, <1>9
  <2>2. \A k \in 1 .. n : v[k - 1] = w[k - 1] => v[k] = w[k]
    BY <1>5, <1>9
  <2> QED
    BY <1>1, <2>1, <2>2, Agree
<1> QED
  BY <1>4, <1>5, <1>8, <1>10 DEF n

LEMMA WordsEmpty == Words(<<>>) = << <<>> >>
<1>1. <<>> \in Seq(Characters) /\ Len(<<>>) = 0
  BY EmptySeq
<1> QED
  BY <1>1, WordsBy

LEMMA WordsType == ASSUME NEW p \in Seq(Characters) PROVE Words(p) \in Lists
<1>1. Len(p) \in Nat
  BY LenProperties
<1> QED
  BY <1>1, WordsBy

LEMMA WordsAppend ==
    ASSUME NEW p \in Seq(Characters), NEW c \in Characters
    PROVE  Words(Append(p, c)) = Split(Words(p), c)
<1>1. PICK n \in Nat : n = Len(p)
  BY LenProperties
<1>2. PICK q \in Seq(Characters) : q = Append(p, c)
  BY AppendProperties
<1>3. Len(q) = n + 1 /\ (\A k \in 1 .. n : q[k] = p[k]) /\ q[n + 1] = c
  BY <1>1, <1>2, AppendProperties
<1>4. PICK v : /\ v[0] = << <<>> >>
               /\ \A k \in 1 .. n : v[k] = Split(v[k - 1], p[k])
               /\ Words(p) = v[n]
  BY <1>1, WordsBy
<1>5. PICK w : /\ w[0] = << <<>> >>
               /\ \A k \in 1 .. n + 1 : w[k] = Split(w[k - 1], q[k])
               /\ Words(q) = w[n + 1]
  BY <1>3, WordsBy
<1>6. v[n] = w[n]
  <2>1. \A k \in 1 .. n : v[k - 1] = w[k - 1] => v[k] = w[k]
    BY <1>3, <1>4, <1>5
  <2>2. v[0] = w[0]
    BY <1>4, <1>5
  <2> QED
    BY <2>1, <2>2, Agree
<1>7. w[n + 1] = Split(w[n], c)
  BY <1>3, <1>5
<1> QED
  BY <1>2, <1>4, <1>5, <1>6, <1>7

LEMMA EnteredType ==
    ASSUME NEW d \in Seq(Proper), NEW w \in Names
    PROVE  Entered(d, w) \in Seq(Proper)
<1>1. CASE w \in {<<>>, <<".">>}
  BY <1>1 DEF Entered
<1>2. CASE w \notin {<<>>, <<".">>} /\ w = <<".", ".">>
  <2>1. CASE d = <<>>
    BY <1>2, <2>1, EmptySeq DEF Entered
  <2>2. CASE d # <<>>
    <3>1. Len(d) \in Nat
      BY LenProperties
    <3>2. \A k \in 1 .. Len(d) - 1 : d[k] \in Proper
      BY <3>1, ElementOfSeq
    <3>3. SubSeq(d, 1, Len(d) - 1) \in Seq(Proper)
      BY <3>1, <3>2, SubSeqProperties
    <3> QED
      BY <1>2, <2>2, <3>3 DEF Entered, Front
  <2> QED
    BY <2>1, <2>2
<1>3. CASE w \notin {<<>>, <<".">>} /\ w # <<".", ".">>
  <2>1. w \in Proper
    BY <1>3 DEF Proper
  <2>2. Append(d, w) \in Seq(Proper)
    BY <2>1, AppendProperties
  <2> QED
    BY <1>3, <2>2 DEF Entered
<1> QED
  BY <1>1, <1>2, <1>3

\* Walked is the last value of a function that goes name by name.
LEMMA WalkedBy ==
    ASSUME NEW p \in Seq(Names)
    PROVE  \E w \in [0 .. Len(p) -> Seq(Proper)] :
              /\ w[0] = <<>>
              /\ \A k \in 1 .. Len(p) : w[k] = Entered(w[k - 1], p[k])
              /\ Walked(p) = w[Len(p)]
<1> DEFINE n == Len(p)
           T == Seq(Proper)
           P(w) == w = [k \in 0 .. Len(p) |-> IF k = 0 THEN <<>> ELSE Entered(w[k - 1], p[k])]
           G == [k \in 1 .. n |-> [s \in T |-> Entered(s, p[k])]]
<1>1. n \in Nat /\ \A k \in 1 .. n : p[k] \in Names
  BY LenProperties, ElementOfSeq
<1>2. <<>> \in T
  BY EmptySeq
<1> HIDE DEF n
<1>3. G \in [1 .. n -> [T -> T]]
  BY <1>1, EnteredType
<1>4. PICK w \in [0 .. n -> T] : w[0] = <<>> /\ \A k \in 1 .. n : w[k] = G[k][w[k - 1]]
  <2> HIDE DEF G, T
  <2>1. PICK a \in T : a = <<>>
    BY <1>2
  <2>2. Steps(n, T, G)
    BY <1>3 DEF Steps
  <2>3. \E w \in [0 .. n -> T] : Follows(w, n, a, G)
    BY <1>1, <2>2, Recursion
  <2> QED
    BY <2>1, <2>3 DEF Follows
<1>5. ASSUME NEW k \in 1 .. n PROVE w[k] = Entered(w[k - 1], p[k])
  <2>1. w[k - 1] \in T /\ G[k] = [s \in T |-> Entered(s, p[k])]
    BY <1>1
  <2>2. G[k][w[k - 1]] = Entered(w[k - 1], p[k])
    BY <2>1
  <2> QED
    BY <1>4, <2>2
<1>6. P(w)
  <2> DEFINE Val(k) == IF k = 0 THEN <<>> ELSE Entered(w[k - 1], p[k])
  <2>1. ASSUME NEW k \in 0 .. n PROVE w[k] = Val(k)
    BY <1>1, <1>4, <1>5
  <2> HIDE DEF Val
  <2>2. w = [k \in 0 .. n |-> Val(k)]
    BY <1>4, <2>1
  <2> QED
    BY <2>2 DEF n, Val
<1> DEFINE v == CHOOSE x : P(x)
<1>7. P(v)
  <2> HIDE DEF P
  <2> QED
    BY <1>6
<1>8. Walked(p) = v[Len(p)]
  BY DEF Walked
<1>9. /\ v[0] = <<>>
      /\ \A k \in 1 .. n : v[k] = Entered(v[k - 1], p[k])
  <2> HIDE DEF v
  <2> QED
    BY <1>1, <1>7 DEF n
<1>10. v[n] = w[n]
  <2> HIDE DEF v, P, G
  <2>1. v[0] = w[0]
    BY <1>4, <1>9
  <2>2. \A k \in 1 .. n : v[k - 1] = w[k - 1] => v[k] = w[k]
    BY <1>5, <1>9
  <2> QED
    BY <1>1, <2>1, <2>2, Agree
<1> QED
  BY <1>4, <1>5, <1>8, <1>10 DEF n

LEMMA WalkedEmpty == Walked(<<>>) = <<>>
<1>1. <<>> \in Seq(Names) /\ Len(<<>>) = 0
  BY EmptySeq
<1> QED
  BY <1>1, WalkedBy

LEMMA WalkedType == ASSUME NEW s \in Seq(Names) PROVE Walked(s) \in Seq(Proper)
<1>1. Len(s) \in Nat
  BY LenProperties
<1> QED
  BY <1>1, WalkedBy

LEMMA WalkedAppend ==
    ASSUME NEW p \in Seq(Names), NEW c \in Names
    PROVE  Walked(Append(p, c)) = Entered(Walked(p), c)
<1>1. PICK n \in Nat : n = Len(p)
  BY LenProperties
<1>2. PICK q \in Seq(Names) : q = Append(p, c)
  BY AppendProperties
<1>3. Len(q) = n + 1 /\ (\A k \in 1 .. n : q[k] = p[k]) /\ q[n + 1] = c
  BY <1>1, <1>2, AppendProperties
<1>4. PICK v : /\ v[0] = <<>>
               /\ \A k \in 1 .. n : v[k] = Entered(v[k - 1], p[k])
               /\ Walked(p) = v[n]
  BY <1>1, WalkedBy
<1>5. PICK w : /\ w[0] = <<>>
               /\ \A k \in 1 .. n + 1 : w[k] = Entered(w[k - 1], q[k])
               /\ Walked(q) = w[n + 1]
  BY <1>3, WalkedBy
<1>6. v[n] = w[n]
  <2>1. \A k \in 1 .. n : v[k - 1] = w[k - 1] => v[k] = w[k]
    BY <1>3, <1>4, <1>5
  <2>2. v[0] = w[0]
    BY <1>4, <1>5
  <2> QED
    BY <2>1, <2>2, Agree
<1>7. w[n + 1] = Entered(w[n], c)
  BY <1>3, <1>5
<1> QED
  BY <1>2, <1>4, <1>5, <1>6, <1>7

\* A name more at the end of a path.
Join(s, w) == s \o <<"/">> \o w

LEMMA JoinType ==
    ASSUME NEW s \in Seq(Characters), NEW w \in Names
    PROVE  /\ Join(s, w) \in Seq(Characters)
           /\ Len(Join(s, w)) = Len(s) + 1 + Len(w)
           /\ \A k \in 1 .. Len(s) : Join(s, w)[k] = s[k]
           /\ Join(s, w)[Len(s) + 1] = "/"
           /\ \A k \in 1 .. Len(w) : Join(s, w)[Len(s) + 1 + k] = w[k]
<1>1. w \in Seq(Characters)
  BY SeqMonotonic, Alphabet DEF Names
<1>2. <<"/">> \in Seq(Characters) /\ Len(<<"/">>) = 1 /\ <<"/">>[1] = "/"
  BY Alphabet
<1>3. Len(s) \in Nat /\ Len(w) \in Nat
  BY <1>1, LenProperties
<1>4. PICK one \in Seq(Characters) : one = <<"/">>
  BY <1>2
<1>5. PICK t \in Seq(Characters) : t = s \o one
  BY ConcatProperties
<1>6. Len(t) = Len(s) + 1 /\ (\A k \in 1 .. Len(s) : t[k] = s[k]) /\ t[Len(s) + 1] = "/"
  BY <1>2, <1>3, <1>4, <1>5, ConcatProperties
<1>7. /\ t \o w \in Seq(Characters) /\ Len(t \o w) = Len(t) + Len(w)
      /\ \A k \in 1 .. Len(t) + Len(w) : (t \o w)[k] = IF k <= Len(t) THEN t[k] ELSE w[k - Len(t)]
  BY <1>1, ConcatProperties
<1>8. Join(s, w) = t \o w
  BY <1>4, <1>5 DEF Join
<1>9. PICK u : u = t \o w
  OBVIOUS
<1>10. /\ \A k \in 1 .. Len(s) : u[k] = s[k]
       /\ u[Len(s) + 1] = "/"
       /\ \A k \in 1 .. Len(w) : u[Len(s) + 1 + k] = w[k]
  BY <1>3, <1>6, <1>7, <1>9
<1> QED
  BY <1>3, <1>6, <1>7, <1>8, <1>9, <1>10

\* Joined is the last value of a function that goes name by name.
LEMMA JoinedBy ==
    ASSUME NEW p \in Seq(Names)
    PROVE  \E w \in [0 .. Len(p) -> Seq(Characters)] :
              /\ w[0] = <<>>
              /\ \A k \in 1 .. Len(p) : w[k] = Join(w[k - 1], p[k])
              /\ Joined(p) = w[Len(p)]
<1> DEFINE n == Len(p)
           T == Seq(Characters)
           P(w) == w = [k \in 0 .. Len(p) |-> IF k = 0 THEN <<>>
                                              ELSE w[k - 1] \o <<"/">> \o p[k]]
           G == [k \in 1 .. n |-> [s \in T |-> Join(s, p[k])]]
<1>1. n \in Nat /\ \A k \in 1 .. n : p[k] \in Names
  BY LenProperties, ElementOfSeq
<1>2. <<>> \in T
  BY EmptySeq
<1> HIDE DEF n
<1>3. G \in [1 .. n -> [T -> T]]
  BY <1>1, JoinType
<1>4. PICK w \in [0 .. n -> T] : w[0] = <<>> /\ \A k \in 1 .. n : w[k] = G[k][w[k - 1]]
  <2> HIDE DEF G, T
  <2>1. PICK a \in T : a = <<>>
    BY <1>2
  <2>2. Steps(n, T, G)
    BY <1>3 DEF Steps
  <2>3. \E w \in [0 .. n -> T] : Follows(w, n, a, G)
    BY <1>1, <2>2, Recursion
  <2> QED
    BY <2>1, <2>3 DEF Follows
<1>5. ASSUME NEW k \in 1 .. n PROVE w[k] = Join(w[k - 1], p[k])
  <2>1. w[k - 1] \in T /\ G[k] = [s \in T |-> Join(s, p[k])]
    BY <1>1
  <2>2. G[k][w[k - 1]] = Join(w[k - 1], p[k])
    BY <2>1
  <2> QED
    BY <1>4, <2>2
<1>6. P(w)
  <2> DEFINE Val(k) == IF k = 0 THEN <<>> ELSE Join(w[k - 1], p[k])
  <2>1. ASSUME NEW k \in 0 .. n PROVE w[k] = Val(k)
    BY <1>1, <1>4, <1>5
  <2> HIDE DEF Val
  <2>2. w = [k \in 0 .. n |-> Val(k)]
    BY <1>4, <2>1
  <2> QED
    BY <2>2, Zenon DEF n, Val, Join
<1> DEFINE v == CHOOSE x : P(x)
<1>7. P(v)
  <2> HIDE DEF P
  <2> QED
    BY <1>6
<1>8. Joined(p) = v[Len(p)]
  BY DEF Joined
<1>9. /\ v[0] = <<>>
      /\ \A k \in 1 .. n : v[k] = Join(v[k - 1], p[k])
  <2> HIDE DEF v
  <2> DEFINE Val(k) == IF k = 0 THEN <<>> ELSE Join(v[k - 1], p[k])
  <2>1. v = [k \in 0 .. n |-> Val(k)]
    BY <1>7, Zenon DEF Join, n
  <2>2. \A k \in 0 .. n : v[k] = Val(k)
    <3> HIDE DEF Val
    <3> QED
      BY <2>1
  <2> QED
    BY <1>1, <2>2
<1>10. v[n] = w[n]
  <2> HIDE DEF v, P, G
  <2>1. v[0] = w[0]
    BY <1>4, <1>9
  <2>2. \A k \in 1 .. n : v[k - 1] = w[k - 1] => v[k] = w[k]
    BY <1>5, <1>9
  <2> QED
    BY <1>1, <2>1, <2>2, Agree
<1> QED
  BY <1>4, <1>5, <1>8, <1>10 DEF n

LEMMA JoinedEmpty == Joined(<<>>) = <<>>
<1>1. <<>> \in Seq(Names) /\ Len(<<>>) = 0
  BY EmptySeq
<1> QED
  BY <1>1, JoinedBy

LEMMA JoinedType == ASSUME NEW s \in Seq(Names) PROVE Joined(s) \in Seq(Characters)
<1>1. Len(s) \in Nat
  BY LenProperties
<1> QED
  BY <1>1, JoinedBy

LEMMA JoinedAppend ==
    ASSUME NEW p \in Seq(Names), NEW c \in Names
    PROVE  Joined(Append(p, c)) = Join(Joined(p), c)
<1>1. PICK n \in Nat : n = Len(p)
  BY LenProperties
<1>2. PICK q \in Seq(Names) : q = Append(p, c)
  BY AppendProperties
<1>3. Len(q) = n + 1 /\ (\A k \in 1 .. n : q[k] = p[k]) /\ q[n + 1] = c
  BY <1>1, <1>2, AppendProperties
<1>4. PICK v : /\ v[0] = <<>>
               /\ \A k \in 1 .. n : v[k] = Join(v[k - 1], p[k])
               /\ Joined(p) = v[n]
  BY <1>1, JoinedBy
<1>5. PICK w : /\ w[0] = <<>>
               /\ \A k \in 1 .. n + 1 : w[k] = Join(w[k - 1], q[k])
               /\ Joined(q) = w[n + 1]
  BY <1>3, JoinedBy
<1>6. v[n] = w[n]
  <2>1. \A k \in 1 .. n : v[k - 1] = w[k - 1] => v[k] = w[k]
    BY <1>3, <1>4, <1>5
  <2>2. v[0] = w[0]
    BY <1>4, <1>5
  <2> QED
    BY <2>1, <2>2, Agree
<1>7. w[n + 1] = Join(w[n], c)
  BY <1>3, <1>5
<1> QED
  BY <1>2, <1>4, <1>5, <1>6, <1>7

(***************************************************************************)
(* Names and paths.                                                        *)
(***************************************************************************)

LEMMA ListParts ==
    ASSUME NEW s \in Lists
    PROVE  Front(s) \in Seq(Names) /\ Last(s) \in Names /\ s = Append(Front(s), Last(s))
<1>1. s \in Seq(Names) /\ s # <<>>
  BY DEF Lists
<1>2. PICK f \in Seq(Names), x \in Names : s = Append(f, x)
  BY <1>1, SequenceEmptyOrAppend
<1>3. Len(f) \in Nat /\ Len(s) = Len(f) + 1 /\ s[Len(f) + 1] = x
  BY <1>2, AppendProperties, LenProperties
<1>4. Last(s) = x
  BY <1>3 DEF Last
<1>5. \A k \in 1 .. Len(f) : s[k] = f[k] /\ s[k] \in Names
  BY <1>2, AppendProperties, ElementOfSeq
<1>6. /\ SubSeq(s, 1, Len(f)) \in Seq(Names)
      /\ Len(SubSeq(s, 1, Len(f))) = Len(f)
      /\ \A k \in 1 .. Len(f) : SubSeq(s, 1, Len(f))[k] = s[k]
  BY <1>3, <1>5, SubSeqProperties
<1>7. SubSeq(s, 1, Len(f)) = f
  <2>1. PICK g \in Seq(Names) : g = SubSeq(s, 1, Len(f))
    BY <1>6
  <2>2. Len(g) = Len(f) /\ \A k \in 1 .. Len(g) : g[k] = f[k]
    BY <1>3, <1>5, <1>6, <2>1
  <2> QED
    BY <2>1, <2>2, SeqEqual
<1>8. Front(s) = f
  BY <1>3, <1>7 DEF Front
<1> QED
  BY <1>2, <1>4, <1>8

LEMMA AppendParts ==
    ASSUME NEW f \in Seq(Names), NEW x \in Names
    PROVE  Append(f, x) \in Lists /\ Front(Append(f, x)) = f /\ Last(Append(f, x)) = x
<1>1. Append(f, x) \in Lists
  BY AppendProperties DEF Lists
<1>2. PICK s \in Lists : s = Append(f, x)
  BY <1>1
<1>3. Front(s) \in Seq(Names) /\ Last(s) \in Names /\ s = Append(Front(s), Last(s))
  BY ListParts
<1>4. Front(s) = f /\ Last(s) = x
  BY <1>2, <1>3, AppendInjective
<1> QED
  BY <1>1, <1>2, <1>4

LEMMA SplitParts ==
    ASSUME NEW s \in Lists, NEW c \in Characters
    PROVE  /\ c = "/" => Front(Split(s, c)) = s /\ Last(Split(s, c)) = <<>>
           /\ c # "/" => Front(Split(s, c)) = Front(s) /\ Last(Split(s, c)) = Append(Last(s), c)
<1>1. s \in Seq(Names) /\ s # <<>> /\ Len(s) \in Nat /\ Len(s) # 0
  BY EmptySeq, LenProperties DEF Lists
<1>2. CASE c = "/"
  <2>1. <<>> \in Names
    BY EmptySeq DEF Names
  <2> QED
    BY <1>1, <1>2, <2>1, AppendParts DEF Split
<1>3. CASE c # "/"
  <2>1. PICK f \in Seq(Names), x \in Names : s = Append(f, x) /\ f = Front(s) /\ x = Last(s)
    BY ListParts
  <2>2. Len(f) \in Nat /\ Len(s) = Len(f) + 1
    BY <2>1, AppendProperties, LenProperties
  <2>3. c \in Letters
    BY <1>3, Alphabet
  <2>4. PICK y \in Names : y = Append(x, c)
    BY <2>3, AppendProperties DEF Names
  <2>5. Len(s) \in 1 .. Len(s) /\ s[Len(s)] = x
    BY <1>1, <2>1 DEF Last
  <2> DEFINE t == [s EXCEPT ![Len(s)] = y]
  <2>6. /\ t \in Seq(Names) /\ Len(t) = Len(s)
        /\ \A j \in 1 .. Len(s) : t[j] = IF j = Len(s) THEN y ELSE s[j]
    BY <1>1, <2>5, ExceptSeq
  <2>7. t = Split(s, c)
    BY <1>3, <2>4, <2>5 DEF Split
  <2>8. /\ Append(f, y) \in Seq(Names) /\ Len(Append(f, y)) = Len(f) + 1
        /\ \A j \in 1 .. Len(f) : Append(f, y)[j] = f[j]
        /\ Append(f, y)[Len(f) + 1] = y
    BY AppendProperties
  <2>9. \A j \in 1 .. Len(f) : s[j] = f[j]
    BY <2>1, AppendProperties
  <2> HIDE DEF t
  <2>10. PICK u \in Seq(Names) : u = Append(f, y)
    BY <2>8
  <2>11. Len(t) = Len(u) /\ \A j \in 1 .. Len(t) : t[j] = u[j]
    BY <2>2, <2>6, <2>8, <2>9, <2>10
  <2>12. t = u
    BY <2>6, <2>11, SeqEqual
  <2>13. Front(u) = f /\ Last(u) = y
    BY <2>10, AppendParts
  <2> QED
    BY <1>3, <2>1, <2>4, <2>7, <2>12, <2>13
<1> QED
  BY <1>2, <1>3

LEMMA ConcatAppend ==
    ASSUME NEW S, NEW b \in Seq(S), NEW f \in Seq(S), NEW x \in S
    PROVE  b \o Append(f, x) = Append(b \o f, x)
<1>0. <<x>> \in Seq(S)
  OBVIOUS
<1>1. PICK one \in Seq(S) : one = <<x>>
  BY <1>0
<1>2. Append(f, x) = f \o one
  BY <1>1, AppendIsConcat
<1>3. b \o f \in Seq(S)
  BY ConcatProperties
<1>4. Append(b \o f, x) = (b \o f) \o one
  BY <1>1, <1>3, AppendIsConcat
<1> QED
  BY <1>2, <1>4, ConcatAssociative

(***************************************************************************)
(* What the first n characters of p are: directories walked through, after *)
(* the names b, and the beginning of a name.                               *)
(***************************************************************************)
DirsAt(b, p, n) == Walked(b \o Front(Words(SubSeq(p, 1, n))))
Cur(p, n) == Last(Words(SubSeq(p, 1, n)))

LEMMA PrefixType ==
    ASSUME NEW S, NEW p \in Seq(S), NEW n \in 0 .. Len(p)
    PROVE  SubSeq(p, 1, n) \in Seq(S)
<1>1. Len(p) \in Nat
  BY LenProperties
<1>2. \A k \in 1 .. n : p[k] \in S
  BY <1>1, ElementOfSeq
<1> QED
  BY <1>1, <1>2, SubSeqProperties

LEMMA PrefixNext ==
    ASSUME NEW p \in Seq(Characters), NEW n \in 0 .. Len(p) - 1
    PROVE  /\ p[n + 1] \in Characters
           /\ Words(SubSeq(p, 1, n + 1)) = Split(Words(SubSeq(p, 1, n)), p[n + 1])
<1>1. Len(p) \in Nat /\ n \in Nat
  BY LenProperties
<1>2. p[n + 1] \in Characters
  BY <1>1, ElementOfSeq
<1>3. 1 \in 1 .. Len(p) /\ n + 1 \in 1 .. Len(p) /\ (n + 1) - 1 = n
  BY <1>1
<1>4. SubSeq(p, 1, n + 1) = SubSeq(p, 1, n) \o <<p[n + 1]>>
  BY <1>3, SubSeqRecursiveSecond
<1>5. PICK q \in Seq(Characters) : q = SubSeq(p, 1, n)
  <2>1. n \in 0 .. Len(p)
    BY <1>1
  <2>2. SubSeq(p, 1, n) \in Seq(Characters)
    BY <2>1, PrefixType
  <2> QED
    BY <2>2
<1>6. SubSeq(p, 1, n + 1) = Append(q, p[n + 1])
  BY <1>2, <1>4, <1>5, AppendIsConcat
<1> QED
  BY <1>2, <1>5, <1>6, WordsAppend

LEMMA AtTypes ==
    ASSUME NEW p \in Seq(Characters), NEW b \in Seq(Names), NEW n \in 0 .. Len(p)
    PROVE  DirsAt(b, p, n) \in Seq(Proper) /\ Cur(p, n) \in Names
<1>1. PICK s \in Lists : s = Words(SubSeq(p, 1, n))
  BY PrefixType, WordsType
<1>2. Front(s) \in Seq(Names) /\ Last(s) \in Names
  BY ListParts
<1>3. b \o Front(s) \in Seq(Names)
  BY <1>2, ConcatProperties
<1> QED
  BY <1>1, <1>2, <1>3, WalkedType DEF DirsAt, Cur

LEMMA Progress ==
    ASSUME NEW p \in Seq(Characters), NEW b \in Seq(Names), NEW n \in 0 .. Len(p) - 1
    PROVE  /\ p[n + 1] = "/" => /\ Cur(p, n + 1) = <<>>
                                /\ DirsAt(b, p, n + 1) = Entered(DirsAt(b, p, n), Cur(p, n))
           /\ p[n + 1] # "/" => /\ Cur(p, n + 1) = Append(Cur(p, n), p[n + 1])
                                /\ DirsAt(b, p, n + 1) = DirsAt(b, p, n)
<1>1. Len(p) \in Nat
  BY LenProperties
<1>2. PICK s \in Lists : s = Words(SubSeq(p, 1, n))
  <2>1. n \in 0 .. Len(p)
    BY <1>1
  <2>2. SubSeq(p, 1, n) \in Seq(Characters)
    BY <2>1, PrefixType
  <2> QED
    BY <2>2, WordsType
<1>3. PICK c \in Characters : c = p[n + 1] /\ Words(SubSeq(p, 1, n + 1)) = Split(s, c)
  BY <1>2, PrefixNext
<1>4. PICK f \in Seq(Names), x \in Names : f = Front(s) /\ x = Last(s) /\ s = Append(f, x)
  BY ListParts
<1>5. CASE c = "/"
  <2>1. Cur(p, n + 1) = <<>> /\ DirsAt(b, p, n + 1) = Walked(b \o s)
    BY <1>3, <1>5, SplitParts DEF Cur, DirsAt
  <2>2. b \o s = Append(b \o f, x) /\ b \o f \in Seq(Names)
    <3>1. b \o f \in Seq(Names)
      BY ConcatProperties
    <3>2. b \o Append(f, x) = Append(b \o f, x)
      BY ConcatAppend
    <3> QED
      BY <1>4, <3>1, <3>2
  <2>3. Walked(b \o s) = Entered(Walked(b \o f), x)
    BY <2>2, WalkedAppend
  <2> QED
    BY <1>2, <1>3, <1>4, <1>5, <2>1, <2>3 DEF Cur, DirsAt
<1>6. CASE c # "/"
  BY <1>2, <1>3, <1>4, <1>6, SplitParts DEF Cur, DirsAt
<1> QED
  BY <1>3, <1>5, <1>6

LEMMA AtStart ==
    ASSUME NEW p \in Seq(Characters), NEW b \in Seq(Names)
    PROVE  DirsAt(b, p, 0) = Walked(b) /\ Cur(p, 0) = <<>>
<1>1. SubSeq(p, 1, 0) = <<>>
  BY SubSeqEmpty
<1>2. <<>> \in Seq(Names) /\ <<>> \in Names
  BY EmptySeq DEF Names
<1>3. << <<>> >> = Append(<<>>, <<>>)
  OBVIOUS
<1>4. Front(<< <<>> >>) = <<>> /\ Last(<< <<>> >>) = <<>>
  BY <1>2, <1>3, AppendParts
<1>5. b \o <<>> = b
  BY ConcatEmptySeq
<1> QED
  BY <1>1, <1>4, <1>5, WordsEmpty DEF DirsAt, Cur

LEMMA AtEnd ==
    ASSUME NEW p \in Seq(Characters), NEW b \in Seq(Names)
    PROVE  Walked(b \o Words(p)) = Entered(DirsAt(b, p, Len(p)), Cur(p, Len(p)))
<1>1. SubSeq(p, 1, Len(p)) = p
  BY SubSeqFull
<1>2. PICK s \in Lists : s = Words(p)
  BY WordsType
<1>3. PICK f \in Seq(Names), x \in Names : f = Front(s) /\ x = Last(s) /\ s = Append(f, x)
  BY ListParts
<1>4. b \o s = Append(b \o f, x) /\ b \o f \in Seq(Names)
  <2>1. b \o f \in Seq(Names)
    BY ConcatProperties
  <2>2. b \o Append(f, x) = Append(b \o f, x)
    BY ConcatAppend
  <2> QED
    BY <1>3, <2>1, <2>2
<1>5. Walked(b \o s) = Entered(Walked(b \o f), x)
  BY <1>4, WalkedAppend
<1>6. DirsAt(b, p, Len(p)) = Walked(b \o f) /\ Cur(p, Len(p)) = x
  BY <1>1, <1>2, <1>3 DEF DirsAt, Cur
<1> QED
  BY <1>2, <1>5, <1>6

LEMMA ProperNames ==
    /\ Proper \subseteq Names
    /\ \A d \in Seq(Proper) : d \in Seq(Names)
    /\ \A w \in Proper : Len(w) \in Nat /\ Len(w) >= 1
    /\ \A w \in Names : Len(w) \in Nat /\ \A k \in 1 .. Len(w) : w[k] \in Letters
<1>1. Proper \subseteq Names
  BY DEF Proper
<1>2. \A d \in Seq(Proper) : d \in Seq(Names)
  BY <1>1, SeqMonotonic
<1>3. ASSUME NEW w \in Proper PROVE Len(w) \in Nat /\ Len(w) >= 1
  <2>1. w \in Seq(Letters) /\ w # <<>>
    BY DEF Proper, Names
  <2>2. Len(w) \in Nat \ {0}
    BY <2>1, EmptySeq
  <2> QED
    BY <2>2
<1>4. ASSUME NEW w \in Names PROVE Len(w) \in Nat /\ \A k \in 1 .. Len(w) : w[k] \in Letters
  BY LenProperties, ElementOfSeq DEF Names
<1> QED
  BY <1>1, <1>2, <1>3, <1>4

\* Joined names begin with a slash.
LEMMA JoinedSlash ==
    ASSUME NEW d \in Seq(Proper), d # <<>>
    PROVE  Len(Joined(d)) \in Nat /\ Len(Joined(d)) >= 2 /\ Joined(d)[1] = "/"
<1> DEFINE Fine(s) == /\ Len(Joined(s)) \in Nat
                      /\ s # <<>> => Len(Joined(s)) >= 2 /\ Joined(s)[1] = "/"
           X == {s \in Seq(Proper) : Fine(s)}
<1>1. <<>> \in X
  <2>1. Len(Joined(<<>>)) = 0
    BY JoinedEmpty, EmptySeq
  <2> QED
    BY <2>1, EmptySeq
<1>2. ASSUME NEW s \in Seq(Proper), NEW w \in Proper, s \in X PROVE Append(s, w) \in X
  <2>1. PICK j \in Seq(Characters) : j = Joined(s)
    BY JoinedType, ProperNames
  <2>2. w \in Names /\ Len(w) \in Nat /\ Len(w) >= 1
    BY ProperNames
  <2>3. Joined(Append(s, w)) = Join(j, w)
    BY <2>1, <2>2, JoinedAppend, ProperNames
  <2>4. /\ Len(Join(j, w)) = Len(j) + 1 + Len(w)
        /\ \A k \in 1 .. Len(j) : Join(j, w)[k] = j[k]
        /\ Join(j, w)[Len(j) + 1] = "/"
    BY <2>2, JoinType
  <2>5. Len(j) \in Nat
    BY LenProperties
  <2>6. Join(j, w)[1] = "/"
    <3>1. CASE s = <<>>
      <4>1. Len(j) = 0
        BY <2>1, <3>1, JoinedEmpty, EmptySeq
      <4> QED
        BY <2>4, <4>1
    <3>2. CASE s # <<>>
      <4>1. Len(j) >= 2 /\ j[1] = "/"
        BY <1>2, <2>1, <3>2
      <4> QED
        BY <2>4, <2>5, <4>1
    <3> QED
      BY <3>1, <3>2
  <2>7. Fine(Append(s, w))
    <3>1. PICK u : u = Join(j, w)
      OBVIOUS
    <3>2. Len(u) \in Nat /\ Len(u) >= 2 /\ u[1] = "/"
      BY <2>2, <2>4, <2>5, <2>6, <3>1
    <3> QED
      BY <2>3, <3>1, <3>2
  <2>8. Append(s, w) \in Seq(Proper)
    BY AppendProperties
  <2> HIDE DEF Fine
  <2> QED
    BY <2>7, <2>8
<1>3. Seq(Proper) \subseteq X
  <2> HIDE DEF X
  <2> QED
    BY <1>1, <1>2, SeqInduction
<1> QED
  BY <1>3

\* A normal path that is not that of the root ends in a name.
LEMMA ProperParts ==
    ASSUME NEW d \in Seq(Proper), d # <<>>
    PROVE  \E f \in Seq(Proper), w \in Proper :
              /\ d = Append(f, w) /\ Front(d) = f
              /\ PathOf(d) = Join(Joined(f), w)
<1>1. PICK f \in Seq(Proper), w \in Proper : d = Append(f, w)
  BY SequenceEmptyOrAppend
<1>2. f \in Seq(Names) /\ w \in Names
  BY ProperNames
<1>3. Front(d) = f
  BY <1>1, <1>2, AppendParts
<1>4. PathOf(d) = Join(Joined(f), w)
  BY <1>1, <1>2, JoinedAppend DEF PathOf
<1> QED
  BY <1>1, <1>3, <1>4

LEMMA PathOfFacts ==
    ASSUME NEW d \in Seq(Proper)
    PROVE  /\ PathOf(d) \in Seq(Characters)
           /\ Len(PathOf(d)) \in Nat /\ Len(PathOf(d)) >= 1
           /\ PathOf(d)[1] = "/"
           /\ d = <<>> => PathOf(d) = <<"/">>
           /\ d # <<>> => Len(PathOf(d)) >= 2 /\ PathOf(d)[Len(PathOf(d))] # "/"
<1>1. CASE d = <<>>
  <2>1. <<"/">> \in Seq(Characters) /\ Len(<<"/">>) = 1 /\ <<"/">>[1] = "/"
    BY Alphabet
  <2> QED
    BY <1>1, <2>1 DEF PathOf
<1>2. CASE d # <<>>
  <2>1. PathOf(d) = Joined(d)
    BY <1>2 DEF PathOf
  <2>2. Len(Joined(d)) \in Nat /\ Len(Joined(d)) >= 2 /\ Joined(d)[1] = "/"
    BY <1>2, JoinedSlash
  <2>3. Joined(d) \in Seq(Characters)
    BY ProperNames, JoinedType
  <2>4. PICK f \in Seq(Proper), w \in Proper : PathOf(d) = Join(Joined(f), w)
    BY <1>2, ProperParts
  <2>5. PICK j \in Seq(Characters) : j = Joined(f)
    BY ProperNames, JoinedType
  <2>6. /\ w \in Names /\ Len(w) \in Nat /\ Len(w) >= 1
        /\ \A k \in 1 .. Len(w) : w[k] \in Letters
    BY ProperNames
  <2>7. /\ Len(Join(j, w)) = Len(j) + 1 + Len(w)
        /\ \A k \in 1 .. Len(w) : Join(j, w)[Len(j) + 1 + k] = w[k]
    BY <2>6, JoinType
  <2>8. Len(j) \in Nat
    BY LenProperties
  <2>9. Join(j, w)[Len(Join(j, w))] = w[Len(w)]
    BY <2>6, <2>7, <2>8
  <2>10. w[Len(w)] # "/"
    BY <2>6, Alphabet
  <2> QED
    BY <1>2, <2>1, <2>2, <2>3, <2>4, <2>5, <2>9, <2>10
<1> QED
  BY <1>1, <1>2

(***************************************************************************)
(* The buffer.                                                             *)
(***************************************************************************)

\* The cells below n hold s.
HoldsIn(f, n, s) == n = Len(s) /\ \A k \in 1 .. Len(s) : f[k - 1] = s[k]

\* The search for a slash, which begins at n, does not stop there or above.
NoSlashFrom(f, n) == \A k \in Cells : k >= n => f[k] # "/"

DotDotName == <<".", ".">>

LEMMA EnterDotDot ==
    ASSUME NEW d
    PROVE  Entered(d, DotDotName) = IF d = <<>> THEN <<>> ELSE Front(d)
<1>1. DotDotName \notin {<<>>, <<".">>}
  BY DEF DotDotName
<1> QED
  BY <1>1 DEF Entered, DotDotName

LEMMA LastSlashIs ==
    ASSUME NEW m \in Slashes, path_ptr \in Nat, \A j \in Slashes : j <= m
    PROVE  LastSlash = m
<1>1. \A j \in Slashes : j \in Int
  BY DEF Slashes, Cells
<1>2. LastSlash \in Slashes /\ \A j \in Slashes : j <= LastSlash
  <2> HIDE DEF Slashes
  <2> QED
    BY DEF LastSlash
<1>3. LastSlash \in Int /\ m \in Int /\ LastSlash <= m /\ m <= LastSlash
  BY <1>1, <1>2
<1> HIDE DEF LastSlash
<1> QED
  BY <1>3

\* Going up: the pointer is put behind the parent of the directory in the
\* buffer, and once its cell is cleared it may go up again.
LEMMA GoUp ==
    ASSUME NEW d \in Seq(Proper), path_ptr \in 1 .. BufSize - 1, DOMAIN buf = Cells,
           HoldsIn(buf, path_ptr, PathOf(d)), NoSlashFrom(buf, path_ptr)
    PROVE  /\ Up \in 1 .. path_ptr
           /\ HoldsIn(buf, Up, PathOf(Entered(d, DotDotName)))
           /\ HoldsIn([buf EXCEPT ![Up] = NUL], Up, PathOf(Entered(d, DotDotName)))
           /\ NoSlashFrom([buf EXCEPT ![Up] = NUL], Up)
<1>0. BufSize \in Nat /\ path_ptr \in Nat /\ path_ptr \in Cells
  BY PathsAssumption DEF Cells
<1>1. CASE d = <<>>
  <2>1. Len(PathOf(d)) = 1 /\ PathOf(d)[1] = "/"
    BY <1>1 DEF PathOf
  <2>2. path_ptr = 1 /\ buf[0] = "/" /\ buf[1] # "/"
    BY <1>0, <2>1 DEF HoldsIn, NoSlashFrom
  <2>3. 0 \in Slashes /\ \A j \in Slashes : j <= 0
    <3>1. 0 \in Cells /\ \A j \in Cells : j >= 1 => buf[j] # "/"
      BY <1>0, <1>1, <2>1, <2>2 DEF Cells, HoldsIn, NoSlashFrom
    <3>2. \A j \in Cells : j \in Int /\ (j <= 0 \/ j >= 1)
      BY <1>0 DEF Cells
    <3> QED
      BY <2>2, <3>1, <3>2 DEF Slashes
  <2>4. Up = 1
    BY <1>0, <2>3, LastSlashIs DEF Up
  <2>5. Entered(d, DotDotName) = d
    BY <1>1, EnterDotDot
  <2>6. \A k \in Cells : k >= 1 => [buf EXCEPT ![1] = NUL][k] # "/"
    BY <2>2 DEF NoSlashFrom, NUL, Cells
  <2>7. \A k \in 1 .. 1 : [buf EXCEPT ![1] = NUL][k - 1] = buf[k - 1]
    BY <1>0 DEF Cells
  <2>8. HoldsIn([buf EXCEPT ![1] = NUL], 1, PathOf(d))
    BY <2>1, <2>2, <2>7 DEF HoldsIn
  <2>9. NoSlashFrom([buf EXCEPT ![1] = NUL], 1)
    BY <2>6 DEF NoSlashFrom
  <2> QED
    BY <2>2, <2>4, <2>5, <2>8, <2>9
<1>2. CASE d # <<>>
  <2>1. PICK f \in Seq(Proper), w \in Proper :
           d = Append(f, w) /\ Front(d) = f /\ PathOf(d) = Join(Joined(f), w)
    BY <1>2, ProperParts
  <2>2. PICK j \in Seq(Characters) : j = Joined(f)
    BY ProperNames, JoinedType
  <2>3. PICK L \in Nat : L = Len(j)
    BY LenProperties
  <2>4. /\ w \in Names /\ Len(w) \in Nat /\ Len(w) >= 1
        /\ \A k \in 1 .. Len(w) : w[k] # "/"
    BY ProperNames, Alphabet
  <2>5. PICK s : s = Join(j, w)
    OBVIOUS
  <2>6. /\ Len(s) = L + 1 + Len(w)
        /\ \A k \in 1 .. L : s[k] = j[k]
        /\ s[L + 1] = "/"
        /\ \A k \in 1 .. Len(w) : s[L + 1 + k] = w[k]
    BY <2>3, <2>4, <2>5, JoinType
  <2>7. path_ptr = L + 1 + Len(w) /\ \A k \in 1 .. path_ptr : buf[k - 1] = s[k]
    BY <2>1, <2>2, <2>5, <2>6 DEF HoldsIn
  <2>8. buf[L] = "/"
    <3>1. L + 1 \in 1 .. path_ptr /\ (L + 1) - 1 = L
      BY <2>4, <2>7
    <3> QED
      BY <2>6, <2>7, <3>1
  <2>9. ASSUME NEW k \in Cells, k > L PROVE buf[k] # "/"
    <3>1. CASE k < path_ptr
      <4>1. k - L \in 1 .. Len(w) /\ k + 1 = L + 1 + (k - L) /\ k + 1 \in 1 .. path_ptr /\ (k + 1) - 1 = k
        BY <2>4, <2>7, <2>9, <3>1 DEF Cells
      <4>2. buf[k] = w[k - L]
        BY <2>6, <2>7, <4>1
      <4> QED
        BY <2>4, <4>1, <4>2
    <3>2. CASE k >= path_ptr
      BY <3>2 DEF NoSlashFrom
    <3> QED
      BY <1>0, <3>1, <3>2 DEF Cells
  <2>10. LastSlash = L
    <3>1. L \in Slashes
      BY <1>0, <2>3, <2>4, <2>7, <2>8 DEF Slashes, Cells
    <3>2. \A k \in Slashes : k <= L
      BY <1>0, <2>9 DEF Slashes, Cells
    <3> QED
      BY <1>0, <3>1, <3>2, LastSlashIs
  <2>11. Up = IF L = 0 THEN 1 ELSE L
    BY <2>10 DEF Up
  <2>12. Entered(d, DotDotName) = f
    BY <1>2, <2>1, EnterDotDot
  <2>13. CASE f = <<>>
    <3>1. L = 0
      BY <2>2, <2>3, <2>13, JoinedEmpty, EmptySeq
    <3>2. Len(PathOf(f)) = 1 /\ PathOf(f)[1] = "/"
      BY <2>13 DEF PathOf
    <3>3. Up = 1 /\ buf[0] = "/" /\ 1 \in 1 .. path_ptr
      BY <2>4, <2>7, <2>8, <2>11, <3>1
    <3>4. \A k \in Cells : k >= 1 => [buf EXCEPT ![1] = NUL][k] # "/"
      BY <2>9, <3>1 DEF NUL, Cells
    <3>5. \A k \in 1 .. 1 : [buf EXCEPT ![1] = NUL][k - 1] = buf[k - 1]
      BY <1>0 DEF Cells
    <3> QED
      BY <2>12, <3>2, <3>3, <3>4, <3>5 DEF HoldsIn, NoSlashFrom
  <2>14. CASE f # <<>>
    <3>1. L >= 2
      BY <2>2, <2>3, <2>14, JoinedSlash
    <3>2. PathOf(f) = j
      BY <2>2, <2>14 DEF PathOf
    <3>3. Up = L /\ L \in 1 .. path_ptr /\ L \in Cells
      BY <1>0, <2>4, <2>7, <2>11, <3>1 DEF Cells
    <3>4. \A k \in 1 .. L : buf[k - 1] = j[k]
      BY <2>6, <2>7, <3>3
    <3>5. \A k \in 1 .. L : [buf EXCEPT ![L] = NUL][k - 1] = buf[k - 1]
      BY <1>0, <3>3 DEF Cells
    <3>6. \A k \in Cells : k >= L => [buf EXCEPT ![L] = NUL][k] # "/"
      BY <2>9, <3>3 DEF NUL, Cells
    <3> QED
      BY <2>3, <2>12, <3>2, <3>3, <3>4, <3>5, <3>6 DEF HoldsIn, NoSlashFrom
  <2> QED
    BY <2>13, <2>14
<1> QED
  BY <1>1, <1>2

(***************************************************************************)
(* The pointers.  path_ptr is never further from where it started than pos *)
(* is, but for the separator that was written last.                        *)
(***************************************************************************)

\* The buffer is long enough for a working directory and a path.
Roomy == \A d \in Pwds, p \in Inputs : Len(d) + Len(p) + 2 <= BufSize

PointersInv ==
    /\ PathsTypeOK
    /\ path \in Inputs \cup {<<>>}
    /\ at \in {"first_run", "loop"} => path # <<>>
    /\ mountpoints \in Seq(MountNames)
    /\ at = "first_run" => path_ptr <= Len(pwd) + pos
    /\ at = "loop" => path_ptr <= Len(pwd) + pos + 1

\* What is known of the working directory and of the path.
LEMMA TextFacts ==
    ASSUME PointersInv
    PROVE  /\ path \in Seq(Characters) /\ Len(path) \in Nat
           /\ pwd \in Seq(Characters) /\ Len(pwd) \in Nat
           /\ Words(pwd) \in Seq(Names)
           /\ BufSize \in Nat /\ pos \in Nat
<1>1. Inputs \subseteq Seq(Characters) /\ BufSize \in Nat
  BY PathsAssumption
<1>2. path \in Seq(Characters) /\ pwd \in Pwds
  BY <1>1, EmptySeq DEF PointersInv, PathsTypeOK
<1>3. pwd \in Seq(Characters) /\ Len(pwd) \in Nat /\ Len(path) \in Nat
  BY <1>2, PathsAssumption, LenProperties
<1>4. Words(pwd) \in Seq(Names)
  BY <1>3, WordsType DEF Lists
<1>5. pos \in Nat
  BY <1>3 DEF PointersInv, PathsTypeOK
<1> QED
  BY <1>1, <1>2, <1>3, <1>4, <1>5

\* A working directory in normal form begins with a slash.
LEMMA NormalFacts ==
    ASSUME PointersInv, Normal(pwd)
    PROVE  /\ pwd = PathOf(Walked(Words(pwd))) /\ Walked(Words(pwd)) \in Seq(Proper)
           /\ Len(pwd) >= 1 /\ pwd # <<>> /\ pwd[1] = "/"
<1>1. pwd = PathOf(Walked(Words(pwd)))
  BY DEF Normal
<1>2. Walked(Words(pwd)) \in Seq(Proper)
  BY TextFacts, WalkedType
<1>3. PICK d \in Seq(Proper) : d = Walked(Words(pwd)) /\ pwd = PathOf(d)
  BY <1>1, <1>2
<1>4. Len(pwd) >= 1 /\ pwd[1] = "/"
  BY <1>3, PathOfFacts
<1>5. pwd # <<>>
  BY <1>4, EmptySeq
<1> QED
  BY <1>1, <1>2, <1>4, <1>5

LEMMA MeaningfulRooted ==
    ASSUME PointersInv, Meaningful
    PROVE  Rooted
  BY NormalFacts DEF Meaningful, Rooted

\* In the loop the pointer is in the buffer, past its first slash if it has it.
LEMMA RootedPointer ==
    ASSUME PointersInv, Rooted, at \in {"first_run", "loop", "term", "done"}
    PROVE  path_ptr \in 1 .. BufSize - 1 /\ buf[0] = "/"
<1>1. path_ptr \in Cells /\ path_ptr >= 1 /\ buf[0] = "/" /\ BufSize \in Nat
  BY PathsAssumption DEF PointersInv, PathsTypeOK
<1> QED
  BY <1>1 DEF Cells

LEMMA CharIs ==
    ASSUME PointersInv, NEW k \in Nat
    PROVE  /\ Char(k) # NUL <=> pos + k < Len(path)
           /\ Char(k) # NUL => Char(k) = path[pos + k + 1] /\ Char(k) \in Characters
<1>1. path \in Seq(Characters) /\ Len(path) \in Nat /\ pos \in Nat
  BY TextFacts
<1>2. CASE pos + k < Len(path)
  <2>1. pos + k + 1 \in 1 .. Len(path)
    BY <1>1, <1>2
  <2>2. path[pos + k + 1] \in Characters
    BY <1>1, <2>1, ElementOfSeq
  <2>3. path[pos + k + 1] # NUL
    BY <2>2, Alphabet
  <2> QED
    BY <1>2, <2>2, <2>3 DEF Char
<1>3. CASE ~(pos + k < Len(path))
  BY <1>3 DEF Char
<1> QED
  BY <1>2, <1>3

LEMMA StartsIs ==
    ASSUME NEW a, NEW b, NEW c, NEW d
    PROVE  /\ Starts(<<a, b>>) <=> Char(0) = a /\ Char(1) = b
           /\ Starts(<<a, b, c>>) <=> Char(0) = a /\ Char(1) = b /\ Char(2) = c
           /\ Starts(<<a, b, c, d>>) <=> Char(0) = a /\ Char(1) = b /\ Char(2) = c /\ Char(3) = d
<1>1. Starts(<<a, b>>) <=> Char(0) = a /\ Char(1) = b
  <2>1. Len(<<a, b>>) = 2 /\ <<a, b>>[1] = a /\ <<a, b>>[2] = b
    OBVIOUS
  <2>2. PICK s : s = <<a, b>>
    OBVIOUS
  <2>3. Starts(s) <=> \A k \in 1 .. 2 : Char(k - 1) = s[k]
    BY <2>1, <2>2 DEF Starts
  <2> HIDE DEF Char
  <2>4. (\A k \in 1 .. 2 : Char(k - 1) = s[k]) <=> Char(1 - 1) = s[1] /\ Char(2 - 1) = s[2]
    OBVIOUS
  <2> QED
    BY <2>1, <2>2, <2>3, <2>4
<1>2. Starts(<<a, b, c>>) <=> Char(0) = a /\ Char(1) = b /\ Char(2) = c
  <2>1. Len(<<a, b, c>>) = 3 /\ <<a, b, c>>[1] = a /\ <<a, b, c>>[2] = b /\ <<a, b, c>>[3] = c
    OBVIOUS
  <2>2. PICK s : s = <<a, b, c>>
    OBVIOUS
  <2>3. Starts(s) <=> \A k \in 1 .. 3 : Char(k - 1) = s[k]
    BY <2>1, <2>2 DEF Starts
  <2> HIDE DEF Char
  <2>4. (\A k \in 1 .. 3 : Char(k - 1) = s[k])
        <=> Char(1 - 1) = s[1] /\ Char(2 - 1) = s[2] /\ Char(3 - 1) = s[3]
    OBVIOUS
  <2> QED
    BY <2>1, <2>2, <2>3, <2>4
<1>3. Starts(<<a, b, c, d>>) <=> Char(0) = a /\ Char(1) = b /\ Char(2) = c /\ Char(3) = d
  <2>1. /\ Len(<<a, b, c, d>>) = 4 /\ <<a, b, c, d>>[1] = a /\ <<a, b, c, d>>[2] = b
        /\ <<a, b, c, d>>[3] = c /\ <<a, b, c, d>>[4] = d
    OBVIOUS
  <2>2. PICK s : s = <<a, b, c, d>>
    OBVIOUS
  <2>3. Starts(s) <=> \A k \in 1 .. 4 : Char(k - 1) = s[k]
    BY <2>1, <2>2 DEF Starts
  <2> HIDE DEF Char
  <2>4. (\A k \in 1 .. 4 : Char(k - 1) = s[k])
        <=> Char(1 - 1) = s[1] /\ Char(2 - 1) = s[2] /\ Char(3 - 1) = s[3] /\ Char(4 - 1) = s[4]
    OBVIOUS
  <2> QED
    BY <2>1, <2>2, <2>3, <2>4
<1> QED
  BY <1>1, <1>2, <1>3

\* What the comparisons at first_run tell.
LEMMA DotsAre ==
    /\ DotEnds <=> Char(0) = "." /\ (Char(1) = NUL \/ (Char(1) = "/" /\ Char(2) = NUL))
    /\ DotDotEnds <=> /\ Char(0) = "." /\ Char(1) = "."
                      /\ Char(2) = NUL \/ (Char(2) = "/" /\ Char(3) = NUL)
    /\ DotDot => Char(0) = "." /\ Char(1) = "." /\ Char(2) = "/"
    /\ Dot => Char(0) = "." /\ Char(1) = "/"
    /\ ~DotDotEnds /\ ~DotDot => ~(Char(0) = "." /\ Char(1) = "." /\ Char(2) \in {"/", NUL})
    /\ ~DotEnds /\ ~Dot => ~(Char(0) = "." /\ Char(1) \in {"/", NUL})
<1> HIDE DEF Char
<1>1. DotEnds <=> Char(0) = "." /\ (Char(1) = NUL \/ (Char(1) = "/" /\ Char(2) = NUL))
  BY StartsIs DEF DotEnds
<1>2. DotDotEnds <=> /\ Char(0) = "." /\ Char(1) = "."
                     /\ Char(2) = NUL \/ (Char(2) = "/" /\ Char(3) = NUL)
  BY StartsIs DEF DotDotEnds
<1>3. DotDot <=> Char(0) = "." /\ Char(1) = "." /\ Char(2) = "/" /\ ~DotDotEnds
  BY StartsIs DEF DotDot
<1>4. Dot <=> Char(0) = "." /\ Char(1) = "/" /\ ~DotEnds
  BY StartsIs DEF Dot
<1> QED
  BY <1>1, <1>2, <1>3, <1>4

\* A set of numbers up to n that is not empty has a greatest.
LEMMA Greatest ==
    ASSUME NEW n \in Nat, NEW S, S \subseteq 0 .. n, S # {}
    PROVE  \E m \in S : \A j \in S : j <= m
<1> DEFINE Q(k) == (\A j \in S : j > k) \/ \E m \in S : \A j \in S : j <= k => j <= m
           X == {k \in 0 .. n : Q(k)}
<1>1. Q(0)
  <2>1. CASE 0 \in S
    BY <2>1
  <2>2. CASE 0 \notin S
    BY <2>2
  <2> QED
    BY <2>1, <2>2
<1>2. ASSUME NEW k \in 0 .. n - 1, Q(k) PROVE Q(k + 1)
  <2>1. CASE k + 1 \in S
    BY <2>1
  <2>2. CASE k + 1 \notin S
    BY <1>2, <2>2
  <2> QED
    BY <2>1, <2>2
<1>3. 0 .. n \subseteq X
  <2> HIDE DEF Q
  <2>1. 0 \in X /\ \A k \in 0 .. n - 1 : k \in X => k + 1 \in X
    BY <1>1, <1>2
  <2> HIDE DEF X
  <2> QED
    BY <2>1, Induction
<1>4. Q(n)
  <2> HIDE DEF Q
  <2> QED
    BY <1>3
<1>5. PICK j \in S : j \in 0 .. n
  OBVIOUS
<1>6. PICK m \in S : \A x \in S : x <= n => x <= m
  BY <1>4, <1>5
<1> QED
  BY <1>6

\* "while (*path_ptr != '/')", where there is a slash: it is found at the
\* pointer or before it.
LEMMA UpStops ==
    ASSUME path_ptr \in Cells, Slashes # {}
    PROVE  Up \in Nat /\ Up >= 1 /\ (Up <= path_ptr \/ Up = 1)
<1>1. path_ptr \in Nat
  BY DEF Cells
<1>2. Slashes \subseteq 0 .. path_ptr
  BY <1>1 DEF Slashes, Cells
<1>3. PICK m \in Slashes : \A j \in Slashes : j <= m
  <2> HIDE DEF Slashes
  <2> QED
    BY <1>1, <1>2, Greatest
<1>4. LastSlash = m
  BY <1>1, <1>3, LastSlashIs
<1>5. m \in 0 .. path_ptr
  BY <1>2, <1>3
<1> HIDE DEF LastSlash
<1> QED
  BY <1>1, <1>4, <1>5 DEF Up

LEMMA PointersInit == PathsInit => PointersInv
<1> SUFFICES ASSUME PathsInit PROVE PointersInv
  OBVIOUS
<1>1. mountpoints \in Seq(MountNames) /\ Len(path) = 0
  BY EmptySeq DEF PathsInit
<1>2. DOMAIN buf = Cells
  BY DEF PathsInit, Clear
<1>3. pwd \in Pwds
  BY PathsAssumption DEF PathsInit
<1> QED
  BY <1>1, <1>2, <1>3 DEF PathsInit, PointersInv, PathsTypeOK

\* Each action keeps the pointers in bounds.
LEMMA PointersStep ==
    ASSUME Roomy, PointersInv, [PathsNext]_pathVars
    PROVE  PointersInv'
<1>0. /\ path \in Seq(Characters) /\ Len(path) \in Nat
      /\ pwd \in Pwds /\ pwd \in Seq(Characters) /\ Len(pwd) \in Nat
      /\ BufSize \in Nat /\ pos \in Nat /\ pos <= Len(path)
      /\ DOMAIN buf = Cells /\ Cells = 0 .. BufSize - 1
      /\ path = <<>> => Len(path) = 0
      /\ path # <<>> => path \in Inputs
      /\ at \in {"first_run", "loop", "term", "done"} =>
            path_ptr \in Cells /\ (Rooted => path_ptr >= 1 /\ buf[0] = "/")
  <2>1. path = <<>> => Len(path) = 0
    BY EmptySeq
  <2> QED
    BY <2>1, TextFacts DEF PointersInv, PathsTypeOK, Cells
<1>1. ASSUME NEW c \in Nat, Char(c) # NUL PROVE pos + c < Len(path) /\ path \in Inputs
  BY <1>0, <1>1, CharIs
<1>2. NUL # "/" /\ NUL # "."
  BY DEF NUL
<1>3. path \in Inputs => Len(pwd) + Len(path) + 2 <= BufSize
  BY <1>0 DEF Roomy
<1>4. ASSUME UNCHANGED <<path, pwd>> PROVE Rooted' <=> Rooted
  BY <1>4 DEF Rooted, Absolute
<1> USE DEF PointersInv, PathsTypeOK
<1>5. CASE UNCHANGED pathVars \/ Booted
  BY <1>4, <1>5 DEF pathVars, Booted
<1>6. ASSUME NEW m \in MountNames, Mount(m) PROVE PointersInv'
  <2>1. Append(mountpoints, m) \in Seq(MountNames)
    BY AppendProperties
  <2> QED
    BY <1>6, <2>1 DEF Mount
<1>7. ASSUME NEW p \in Pwds, ExecPwd(p) PROVE PointersInv'
  BY <1>7 DEF ExecPwd
<1>8. ASSUME NEW p \in Inputs, Call(p) PROVE PointersInv'
  <2>1. p \in Seq(Characters)
    BY PathsAssumption
  <2>2. Len(p) \in Nat /\ (p # <<>> => Len(p) >= 1) /\ (pwd # <<>> => Len(pwd) >= 1)
    BY <1>0, <2>1, EmptySeq, LenProperties
  <2>3. Len(pwd) + Len(p) + 2 <= BufSize
    BY <1>0 DEF Roomy
  <2>4. 0 \in Cells /\ 1 \in Cells /\ Len(pwd) \in Cells
    BY <1>0, <2>2, <2>3
  <2>5. CASE p # <<>> /\ p[1] = "/"
    <3>1. buf' = [buf EXCEPT ![0] = "/"] /\ path_ptr' = 1 /\ pos' = 1 /\ path' = p
          /\ at' = "first_run" /\ UNCHANGED <<mountpoints, pwd>>
      BY <1>8, <2>5 DEF Call
    <3>2. DOMAIN buf' = Cells /\ buf'[0] = "/"
      BY <1>0, <2>4, <3>1
    <3> QED
      BY <1>0, <2>2, <2>4, <2>5, <3>1, <3>2
  <2>6. CASE ~(p # <<>> /\ p[1] = "/")
    <3>1. /\ buf' = Copied(pwd) /\ path_ptr' = Len(pwd) /\ pos' = 0 /\ path' = p
          /\ at' \in {"first_run", "done"} /\ (at' = "first_run" => p # <<>>)
          /\ UNCHANGED <<mountpoints, pwd>>
      BY <1>8, <2>6 DEF Call
    <3>2. Rooted' => pwd # <<>> /\ pwd[1] = "/"
      BY <2>6, <3>1 DEF Rooted, Absolute
    <3>3. DOMAIN buf' = Cells /\ (Rooted' => buf'[0] = "/" /\ Len(pwd) >= 1)
      BY <1>0, <2>2, <2>4, <3>1, <3>2 DEF Copied
    <3> QED
      BY <1>0, <2>2, <2>4, <3>1, <3>3
  <2> QED
    BY <2>5, <2>6
<1>9. CASE SkipSlash \/ EndInDot
  BY <1>0, <1>4, <1>9 DEF SkipSlash, EndInDot, AtFirstRun
<1>10. ASSUME at = "first_run", Slashes # {}
       PROVE  Up \in Cells /\ Up >= 1 /\ Up <= Len(pwd) + pos + 1
  <2>1. Up \in Nat /\ Up >= 1 /\ (Up <= path_ptr \/ Up = 1) /\ path_ptr \in Cells
    BY <1>0, <1>10, UpStops
  <2>2. 2 <= BufSize
    BY <1>0, <1>3, <1>10
  <2> HIDE DEF Up
  <2> QED
    BY <1>0, <1>10, <2>1, <2>2
<1>11. CASE EndInDotDot
  <2>1. Up \in Cells /\ Up >= 1
    BY <1>10, <1>11 DEF EndInDotDot, AtFirstRun
  <2> HIDE DEF Up
  <2> QED
    BY <1>0, <1>4, <1>11, <2>1 DEF EndInDotDot, AtFirstRun
<1>12. CASE Ascend
  <2>1. Up \in Cells /\ Up >= 1 /\ Up <= Len(pwd) + pos + 1
    BY <1>10, <1>12 DEF Ascend, AtFirstRun
  <2>2. Char(1) # NUL
    BY <1>2, <1>12, DotsAre DEF Ascend
  <2>3. pos + 1 < Len(path)
    BY <1>1, <2>2
  <2> HIDE DEF Up
  <2>4. DOMAIN buf' = Cells /\ (Rooted => buf'[0] = "/")
    BY <1>0, <1>12, <2>1 DEF Ascend, AtFirstRun
  <2>5. Up \in Nat
    BY <1>0, <2>1
  <2> QED
    BY <1>0, <1>4, <1>12, <2>1, <2>3, <2>4, <2>5 DEF Ascend, AtFirstRun
<1>13. CASE WalkOff
  <2>1. ~Rooted
    <3> SUFFICES ASSUME Rooted PROVE FALSE
      OBVIOUS
    <3>1. 0 \in Slashes
      BY <1>0, <1>13 DEF WalkOff, AtFirstRun, Slashes
    <3> QED
      BY <1>13, <3>1 DEF WalkOff
  <2> QED
    BY <1>0, <1>4, <1>13, <2>1 DEF WalkOff, AtFirstRun
<1>14. CASE Stay
  <2>1. Char(0) # NUL
    BY <1>2, <1>14, DotsAre DEF Stay
  <2>2. pos < Len(path)
    BY <1>0, <1>1, <2>1
  <2>3. at = "first_run" /\ at' = "loop" /\ pos' = pos + 1
        /\ UNCHANGED <<mountpoints, pwd, path, buf, path_ptr>>
    BY <1>14 DEF Stay, AtFirstRun
  <2>4. path_ptr \in Int
    BY <1>0, <2>3
  <2> QED
    BY <1>0, <1>4, <2>2, <2>3, <2>4
<1>15. CASE Separate
  <2>1. at = "first_run" /\ at' = "loop" /\ UNCHANGED <<pos, mountpoints, pwd, path>>
    BY <1>15 DEF Separate, AtFirstRun
  <2>2. path_ptr + 1 \in Cells /\ path_ptr \in Cells
    BY <1>0, <1>3, <2>1
  <2>3. \/ buf' = [buf EXCEPT ![path_ptr] = "/"] /\ path_ptr' = path_ptr + 1
        \/ UNCHANGED <<buf, path_ptr>>
    BY <1>15 DEF Separate
  <2>4. CASE buf' = [buf EXCEPT ![path_ptr] = "/"] /\ path_ptr' = path_ptr + 1
    <3>1. DOMAIN buf' = Cells /\ (Rooted => buf'[0] = "/")
      BY <1>0, <2>1, <2>2, <2>4
    <3> QED
      BY <1>0, <1>4, <2>1, <2>2, <2>4, <3>1
  <2>5. CASE UNCHANGED <<buf, path_ptr>>
    BY <1>0, <1>4, <2>1, <2>2, <2>5
  <2> QED
    BY <2>3, <2>4, <2>5
<1>16. CASE Slash
  <2>1. pos < Len(path)
    BY <1>0, <1>1, <1>2, <1>16 DEF Slash
  <2>2. at = "loop" /\ at' = "first_run" /\ pos' = pos + 1
        /\ UNCHANGED <<mountpoints, pwd, path, buf, path_ptr>>
    BY <1>16 DEF Slash
  <2>3. path_ptr \in Int
    BY <1>0, <2>2
  <2> QED
    BY <1>0, <1>4, <2>1, <2>2, <2>3
<1>17. CASE Letter
  <2>1. pos < Len(path) /\ path \in Inputs
    BY <1>0, <1>1, <1>17 DEF Letter
  <2>2. path_ptr + 1 \in Cells /\ path_ptr \in Cells
    BY <1>0, <1>3, <1>17, <2>1 DEF Letter
  <2>3. DOMAIN buf' = Cells /\ (Rooted => buf'[0] = "/")
    BY <1>0, <1>17, <2>2 DEF Letter
  <2> QED
    BY <1>0, <1>4, <1>17, <2>1, <2>2, <2>3 DEF Letter
<1>18. CASE Term
  <2>1. at \in {"term", "loop"} /\ UNCHANGED <<mountpoints, pwd, path, pos>>
    BY <1>18 DEF Term, EndsAt
  <2>2. path_ptr \in Cells /\ (Rooted => path_ptr >= 1 /\ buf[0] = "/")
    BY <1>0, <2>1
  <2>3. PICK end : /\ end = path_ptr \/ (end = path_ptr - 1 /\ path_ptr - 1 # 0)
                   /\ EndsAt(end)
    BY <1>18 DEF Term
  <2>4. end \in Int /\ (end >= 0 => end \in Cells) /\ (Rooted => end >= 1)
    BY <1>0, <2>2, <2>3
  <2>5. CASE end >= 0
    <3>1. path_ptr' = end /\ buf' = [buf EXCEPT ![end] = NUL] /\ at' = "done"
      BY <2>3, <2>5 DEF EndsAt
    <3>2. DOMAIN buf' = Cells /\ (Rooted => buf'[0] = "/")
      BY <1>0, <2>2, <2>4, <2>5, <3>1
    <3> QED
      BY <1>0, <1>4, <2>1, <2>4, <2>5, <3>1, <3>2
  <2>6. CASE ~(end >= 0)
    <3>1. at' = "outside" /\ UNCHANGED <<buf, path_ptr>>
      BY <2>3, <2>6 DEF EndsAt
    <3>2. ~Rooted
      BY <2>4, <2>6
    <3> QED
      BY <1>0, <1>4, <2>1, <3>1, <3>2
  <2> QED
    BY <2>5, <2>6
<1>19. CASE VfsCd
  <2>1. pwd' \in Pwds
    BY <1>0, <1>19 DEF VfsCd
  <2>2. DOMAIN buf' = Cells
    BY <1>0, <1>19 DEF VfsCd, Clear
  <2>3. Len(<<>>) = 0
    BY EmptySeq
  <2> QED
    BY <1>19, <2>1, <2>2, <2>3 DEF VfsCd
<1> QED
  BY <1>5, <1>6, <1>7, <1>8, <1>9, <1>11, <1>12, <1>13, <1>14, <1>15, <1>16, <1>17, <1>18, <1>19
  DEF PathsNext, Loop

(***************************************************************************)
(* The directory in the buffer.                                            *)
(***************************************************************************)

\* The names the loop starts from, the directories and the beginning of a name
\* that the characters before n lead to, and the directory all of them do.
Base == IF Absolute THEN <<>> ELSE Words(pwd)
D(n) == DirsAt(Base, path, n)
C(n) == Cur(path, n)
Goal == Entered(D(Len(path)), C(Len(path)))

\* Before a slash: what comes before it has been dealt with.
Between ==
    /\ Char(0) = "/"
    /\ HoldsIn(buf, path_ptr, PathOf(Entered(D(pos), C(pos))))

\* In a name: it is neither a dot nor two.
InName ==
    /\ HoldsIn(buf, path_ptr, Join(Joined(D(pos)), C(pos)))
    /\ C(pos) = <<>> => /\ Char(0) # "/"
                        /\ ~(Char(0) = "." /\ Char(1) \in {"/", NUL})
                        /\ ~(Char(0) = "." /\ Char(1) = "." /\ Char(2) \in {"/", NUL})
    /\ C(pos) = <<".">> => /\ Char(0) \notin {"/", NUL}
                           /\ ~(Char(0) = "." /\ Char(1) \in {"/", NUL})
    /\ C(pos) = <<".", ".">> => Char(0) \notin {"/", NUL}

BufferInv ==
    /\ at \in {"boot", "idle"} => buf = Clear
    /\ at \in {"first_run", "loop"} => NoSlashFrom(buf, path_ptr)
    /\ at = "first_run" => C(pos) = <<>> /\ HoldsIn(buf, path_ptr, PathOf(D(pos)))
    /\ at = "loop" => Between \/ InName
    /\ at \in {"term", "done"} => HoldsIn(buf, path_ptr, PathOf(Goal))
    /\ at = "done" => buf[path_ptr] = NUL

LEMMA HereTypes ==
    ASSUME PointersInv
    PROVE  /\ Base \in Seq(Names)
           /\ \A n \in 0 .. Len(path) : D(n) \in Seq(Proper) /\ C(n) \in Names
           /\ Goal \in Seq(Proper)
<1>1. Base \in Seq(Names)
  BY TextFacts, EmptySeq DEF Base
<1>2. path \in Seq(Characters) /\ Len(path) \in Nat
  BY TextFacts
<1>3. ASSUME NEW n \in 0 .. Len(path) PROVE D(n) \in Seq(Proper) /\ C(n) \in Names
  BY <1>1, <1>2, AtTypes DEF D, C
<1>4. D(Len(path)) \in Seq(Proper) /\ C(Len(path)) \in Names
  BY <1>2, <1>3
<1>5. Goal \in Seq(Proper)
  BY <1>4, EnteredType DEF Goal
<1> QED
  BY <1>1, <1>3, <1>5

\* The next character.
LEMMA GoOn ==
    ASSUME PointersInv, NEW n \in Nat, n < Len(path)
    PROVE  /\ path[n + 1] = "/" => C(n + 1) = <<>> /\ D(n + 1) = Entered(D(n), C(n))
           /\ path[n + 1] # "/" => C(n + 1) = Append(C(n), path[n + 1]) /\ D(n + 1) = D(n)
<1>1. Base \in Seq(Names) /\ path \in Seq(Characters) /\ Len(path) \in Nat
  BY HereTypes, TextFacts
<1>2. n \in 0 .. Len(path) - 1
  BY <1>1
<1> QED
  BY <1>1, <1>2, Progress DEF C, D

LEMMA EnterNothing ==
    ASSUME NEW d
    PROVE  Entered(d, <<>>) = d /\ Entered(d, <<".">>) = d
  BY DEF Entered

LEMMA EnterName ==
    ASSUME NEW d, NEW w \in Proper
    PROVE  Entered(d, w) = Append(d, w)
<1>1. w \notin {<<>>, <<".">>} /\ w # <<".", ".">>
  BY DEF Proper
<1> QED
  BY <1>1 DEF Entered

\* Nothing but a slash is left.
LEMMA GoalNear ==
    ASSUME PointersInv, NEW n \in Nat,
           n = Len(path) \/ (n + 1 = Len(path) /\ path[n + 1] = "/")
    PROVE  Goal = Entered(D(n), C(n))
<1>1. CASE n = Len(path)
  BY <1>1 DEF Goal
<1>2. CASE n + 1 = Len(path) /\ path[n + 1] = "/"
  <2>1. Len(path) \in Nat
    BY TextFacts
  <2>3. n < Len(path)
    BY <1>2, <2>1
  <2>2. C(n + 1) = <<>> /\ D(n + 1) = Entered(D(n), C(n))
    BY <1>2, <2>3, GoOn
  <2> QED
    BY <1>2, <2>2, EnterNothing DEF Goal
<1> QED
  BY <1>1, <1>2

LEMMA TwoDots == Append(<<".">>, ".") = DotDotName
<1>1. <<".">> \in Seq(Letters) /\ Len(<<".">>) = 1 /\ <<".">>[1] = "."
  BY Alphabet
<1>2. DotDotName \in Seq(Letters) /\ Len(DotDotName) = 2 /\ DotDotName[1] = "." /\ DotDotName[2] = "."
  BY Alphabet DEF DotDotName
<1>3. PICK s \in Seq(Letters) : s = <<".">>
  BY <1>1
<1>4. /\ Append(s, ".") \in Seq(Letters) /\ Len(Append(s, ".")) = Len(s) + 1
      /\ \A k \in 1 .. Len(s) : Append(s, ".")[k] = s[k]
      /\ Append(s, ".")[Len(s) + 1] = "."
  BY Alphabet, AppendProperties
<1>5. PICK t \in Seq(Letters) : t = Append(s, ".")
  BY <1>4
<1>6. Len(t) = 2 /\ t[1] = "." /\ t[2] = "."
  BY <1>1, <1>3, <1>4, <1>5
<1>7. PICK u \in Seq(Letters) : u = DotDotName
  BY <1>2
<1>8. Len(t) = Len(u) /\ \A k \in 1 .. Len(t) : t[k] = u[k]
  BY <1>2, <1>6, <1>7
<1>9. t = u
  BY <1>8, SeqEqual
<1> QED
  BY <1>3, <1>5, <1>7, <1>9

\* A dot, and two, where a name may begin.
LEMMA PastDots ==
    ASSUME PointersInv, C(pos) = <<>>, Char(0) = "."
    PROVE  /\ C(pos + 1) = <<".">> /\ D(pos + 1) = D(pos)
           /\ Char(1) = "." => C(pos + 2) = DotDotName /\ D(pos + 2) = D(pos)
<1>0. pos \in Nat /\ Len(path) \in Nat /\ "." # NUL
  BY TextFacts DEF NUL
<1>1. pos < Len(path) /\ path[pos + 1] = "."
  <2>1. pos + 0 < Len(path) /\ Char(0) = path[pos + 0 + 1]
    BY <1>0, CharIs
  <2>2. pos + 0 = pos /\ pos + 0 + 1 = pos + 1
    BY <1>0
  <2> QED
    BY <2>1, <2>2
<1>2. C(pos + 1) = Append(C(pos), ".") /\ D(pos + 1) = D(pos)
  BY <1>0, <1>1, GoOn
<1>3. Append(<<>>, ".") = <<".">>
  OBVIOUS
<1>4. C(pos + 1) = <<".">>
  BY <1>2, <1>3
<1>5. ASSUME Char(1) = "." PROVE C(pos + 2) = DotDotName /\ D(pos + 2) = D(pos)
  <2>1. pos + 1 < Len(path) /\ path[pos + 1 + 1] = "."
    BY <1>0, <1>5, CharIs
  <2>2. C(pos + 1 + 1) = Append(C(pos + 1), ".") /\ D(pos + 1 + 1) = D(pos + 1)
    BY <1>0, <2>1, GoOn
  <2>3. Append(<<".">>, ".") = DotDotName
    BY TwoDots
  <2>4. pos + 1 + 1 = pos + 2
    BY <1>0
  <2> QED
    BY <1>2, <1>4, <2>2, <2>3, <2>4
<1> QED
  BY <1>2, <1>4, <1>5

\* What is ahead, as far as it is compared, is in the path or its end.
LEMMA AheadIs ==
    ASSUME PointersInv, NEW k \in Nat, k >= 1, Char(k - 1) # NUL,
           Char(k) = NUL \/ (Char(k) = "/" /\ Char(k + 1) = NUL)
    PROVE  pos + k = Len(path) \/ (pos + k + 1 = Len(path) /\ path[pos + k + 1] = "/")
<1>0. pos \in Nat /\ Len(path) \in Nat /\ "/" # NUL
  BY TextFacts DEF NUL
<1>1. pos + (k - 1) < Len(path)
  BY <1>0, CharIs
<1>2. CASE Char(k) = NUL
  BY <1>0, <1>1, <1>2, CharIs
<1>3. CASE Char(k) = "/" /\ Char(k + 1) = NUL
  <2>1. pos + k < Len(path) /\ Char(k) = path[pos + k + 1]
    BY <1>0, <1>3, CharIs
  <2>2. k + 1 \in Nat /\ ~(pos + (k + 1) < Len(path))
    BY <1>3, CharIs
  <2>3. pos + k + 1 = Len(path)
    BY <1>0, <2>1, <2>2
  <2> QED
    BY <1>3, <2>1, <2>3
<1> QED
  BY <1>2, <1>3

\* Where neither path nor working directory changes, what they lead to does not.
LEMMA SamePath ==
    ASSUME UNCHANGED <<path, pwd>>
    PROVE  Base' = Base /\ path' = path /\ Goal' = Goal
<1>1. Base' = Base
  BY DEF Base, Absolute
<1> QED
  BY <1>1 DEF Goal, D, C

LEMMA Then ==
    ASSUME UNCHANGED <<path, pwd>>, NEW n, pos' = n
    PROVE  D(pos)' = D(n) /\ C(pos)' = C(n)
  BY SamePath DEF D, C

LEMMA BufferSkipSlash ==
    ASSUME PointersInv, BufferInv, Rooted, SkipSlash
    PROVE  BufferInv'
<1>1. /\ at = "first_run" /\ at' = "loop" /\ Char(0) = "/"
      /\ UNCHANGED <<mountpoints, pwd, path, pos, buf, path_ptr>>
  BY DEF SkipSlash, AtFirstRun
<1>2. C(pos) = <<>> /\ HoldsIn(buf, path_ptr, PathOf(D(pos))) /\ NoSlashFrom(buf, path_ptr)
  BY <1>1 DEF BufferInv
<1>3. Entered(D(pos), C(pos)) = D(pos)
  BY <1>2, EnterNothing
<1>4. Between
  BY <1>1, <1>2, <1>3 DEF Between
<1>5. Between'
  <2>1. D(pos)' = D(pos) /\ C(pos)' = C(pos)
    BY <1>1, Then
  <2>2. Char(0)' = Char(0)
    BY <1>1 DEF Char
  <2> QED
    BY <1>1, <1>4, <2>1, <2>2 DEF Between
<1> QED
  BY <1>1, <1>2, <1>5 DEF BufferInv

LEMMA BufferEndInDot ==
    ASSUME PointersInv, BufferInv, Rooted, EndInDot
    PROVE  BufferInv'
<1>1. /\ at = "first_run" /\ at' = "term" /\ DotEnds
      /\ UNCHANGED <<mountpoints, pwd, path, pos, buf, path_ptr>>
  BY DEF EndInDot, AtFirstRun
<1>2. C(pos) = <<>> /\ HoldsIn(buf, path_ptr, PathOf(D(pos)))
  BY <1>1 DEF BufferInv
<1>3. Char(0) = "." /\ (Char(1) = NUL \/ (Char(1) = "/" /\ Char(2) = NUL)) /\ "." # NUL
  BY <1>1, DotsAre DEF NUL
<1>4. pos + 1 = Len(path) \/ (pos + 1 + 1 = Len(path) /\ path[pos + 1 + 1] = "/")
  BY <1>3, AheadIs
<1>5. pos \in Nat
  BY TextFacts
<1>6. Goal = Entered(D(pos + 1), C(pos + 1))
  BY <1>4, <1>5, GoalNear
<1>7. Goal = D(pos)
  BY <1>2, <1>3, <1>6, PastDots, EnterNothing
<1>8. Goal' = Goal
  BY <1>1, SamePath
<1> QED
  BY <1>1, <1>2, <1>7, <1>8 DEF BufferInv

LEMMA BufferEndInDotDot ==
    ASSUME PointersInv, BufferInv, Rooted, EndInDotDot
    PROVE  BufferInv'
<1>1. /\ at = "first_run" /\ at' = "term" /\ DotDotEnds /\ path_ptr' = Up
      /\ UNCHANGED <<mountpoints, pwd, path, pos, buf>>
  BY DEF EndInDotDot, AtFirstRun
<1>2. C(pos) = <<>> /\ HoldsIn(buf, path_ptr, PathOf(D(pos))) /\ NoSlashFrom(buf, path_ptr)
  BY <1>1 DEF BufferInv
<1>3. /\ Char(0) = "." /\ Char(1) = "." /\ "." # NUL
      /\ Char(2) = NUL \/ (Char(2) = "/" /\ Char(3) = NUL)
  BY <1>1, DotsAre DEF NUL
<1>4. pos + 2 = Len(path) \/ (pos + 2 + 1 = Len(path) /\ path[pos + 2 + 1] = "/")
  <2>1. Char(2 - 1) # NUL /\ (Char(2) = NUL \/ (Char(2) = "/" /\ Char(2 + 1) = NUL))
    BY <1>3
  <2> HIDE DEF Char
  <2> QED
    BY <2>1, AheadIs
<1>5. pos \in Nat /\ pos \in 0 .. Len(path)
  BY TextFacts DEF PointersInv, PathsTypeOK
<1>6. Goal = Entered(D(pos + 2), C(pos + 2))
  BY <1>4, <1>5, GoalNear
<1>7. Goal = Entered(D(pos), DotDotName)
  BY <1>2, <1>3, <1>6, PastDots
<1>8. HoldsIn(buf, Up, PathOf(Entered(D(pos), DotDotName)))
  <2>1. D(pos) \in Seq(Proper) /\ path_ptr \in 1 .. BufSize - 1 /\ DOMAIN buf = Cells
    BY <1>1, <1>5, HereTypes, RootedPointer DEF PointersInv, PathsTypeOK
  <2> QED
    BY <1>2, <2>1, GoUp
<1>9. Goal' = Goal
  BY <1>1, SamePath
<1> HIDE DEF Up
<1> QED
  BY <1>1, <1>7, <1>8, <1>9 DEF BufferInv

LEMMA BufferAscend ==
    ASSUME PointersInv, BufferInv, Rooted, Ascend
    PROVE  BufferInv'
<1>1. /\ at = "first_run" /\ at' = "loop" /\ DotDot /\ path_ptr' = Up /\ pos' = pos + 2
      /\ buf' = [buf EXCEPT ![Up] = NUL]
      /\ UNCHANGED <<mountpoints, pwd, path>>
  BY DEF Ascend, AtFirstRun
<1>2. C(pos) = <<>> /\ HoldsIn(buf, path_ptr, PathOf(D(pos))) /\ NoSlashFrom(buf, path_ptr)
  BY <1>1 DEF BufferInv
<1>3. Char(0) = "." /\ Char(1) = "." /\ Char(2) = "/"
  BY <1>1, DotsAre
<1>4. C(pos + 2) = DotDotName /\ D(pos + 2) = D(pos)
  BY <1>2, <1>3, PastDots
<1>5. pos \in Nat /\ pos \in 0 .. Len(path)
  BY TextFacts DEF PointersInv, PathsTypeOK
<1>6. /\ HoldsIn(buf', path_ptr', PathOf(Entered(D(pos), DotDotName)))
      /\ NoSlashFrom(buf', path_ptr')
  <2>1. D(pos) \in Seq(Proper) /\ path_ptr \in 1 .. BufSize - 1 /\ DOMAIN buf = Cells
    BY <1>1, <1>5, HereTypes, RootedPointer DEF PointersInv, PathsTypeOK
  <2>2. /\ HoldsIn([buf EXCEPT ![Up] = NUL], Up, PathOf(Entered(D(pos), DotDotName)))
        /\ NoSlashFrom([buf EXCEPT ![Up] = NUL], Up)
    BY <1>2, <2>1, GoUp
  <2> HIDE DEF Up
  <2> QED
    BY <1>1, <2>2
<1>7. D(pos)' = D(pos) /\ C(pos)' = DotDotName
  BY <1>1, <1>4, Then
<1>8. Char(0)' = "/"
  <2>1. pos' + 0 = pos + 2 /\ pos' + 0 + 1 = pos + 2 + 1
    BY <1>1, <1>5
  <2> QED
    BY <1>1, <1>3, <2>1 DEF Char
<1>9. Between'
  BY <1>6, <1>7, <1>8 DEF Between
<1> QED
  BY <1>1, <1>6, <1>9 DEF BufferInv

LEMMA BufferStay ==
    ASSUME PointersInv, BufferInv, Rooted, Stay
    PROVE  BufferInv'
<1>1. /\ at = "first_run" /\ at' = "loop" /\ Dot /\ pos' = pos + 1
      /\ UNCHANGED <<mountpoints, pwd, path, buf, path_ptr>>
  BY DEF Stay, AtFirstRun
<1>2. C(pos) = <<>> /\ HoldsIn(buf, path_ptr, PathOf(D(pos))) /\ NoSlashFrom(buf, path_ptr)
  BY <1>1 DEF BufferInv
<1>3. Char(0) = "." /\ Char(1) = "/"
  BY <1>1, DotsAre
<1>4. C(pos + 1) = <<".">> /\ D(pos + 1) = D(pos)
  BY <1>2, <1>3, PastDots
<1>5. Entered(D(pos + 1), C(pos + 1)) = D(pos)
  BY <1>4, EnterNothing
<1>6. D(pos)' = D(pos + 1) /\ C(pos)' = C(pos + 1)
  BY <1>1, Then
<1>7. Char(0)' = "/"
  <2>1. pos \in Nat
    BY TextFacts
  <2>2. pos' + 0 = pos + 1 /\ pos' + 0 + 1 = pos + 1 + 1
    BY <1>1, <2>1
  <2> QED
    BY <1>1, <1>3, <2>2 DEF Char
<1>8. Between'
  <2>1. Entered(D(pos)', C(pos)') = D(pos)
    BY <1>5, <1>6
  <2> QED
    BY <1>1, <1>2, <1>7, <2>1 DEF Between
<1> QED
  BY <1>1, <1>2, <1>8 DEF BufferInv

\* A slash behind a directory begins a name.
LEMMA BufferSeparate ==
    ASSUME PointersInv, BufferInv, Rooted, Separate
    PROVE  BufferInv'
<1>1. /\ at = "first_run" /\ at' = "loop" /\ UNCHANGED <<mountpoints, pwd, path, pos>>
      /\ Char(0) # "/" /\ ~DotEnds /\ ~DotDotEnds /\ ~DotDot /\ ~Dot
  BY DEF Separate, AtFirstRun
<1>2. C(pos) = <<>> /\ HoldsIn(buf, path_ptr, PathOf(D(pos))) /\ NoSlashFrom(buf, path_ptr)
  BY <1>1 DEF BufferInv
<1>3. PICK d \in Seq(Proper) : d = D(pos)
  BY HereTypes DEF PointersInv, PathsTypeOK
<1>4. PICK j \in Seq(Characters) : j = Joined(d)
  BY ProperNames, JoinedType
<1>5. PICK s : s = Join(j, <<>>)
  OBVIOUS
<1>6. Len(s) = Len(j) + 1 /\ (\A k \in 1 .. Len(j) : s[k] = j[k]) /\ s[Len(j) + 1] = "/"
  <2>1. <<>> \in Names /\ Len(<<>>) = 0 /\ Len(j) \in Nat
    BY EmptySeq, LenProperties DEF Names
  <2>2. Len(s) = Len(j) + 1 + Len(<<>>)
    BY <1>5, <2>1, JoinType
  <2>3. (\A k \in 1 .. Len(j) : s[k] = j[k]) /\ s[Len(j) + 1] = "/"
    BY <1>5, <2>1, JoinType
  <2> QED
    BY <2>1, <2>2, <2>3
<1>7. path_ptr \in 1 .. BufSize - 1 /\ DOMAIN buf = Cells /\ BufSize \in Nat
  BY <1>1, TextFacts, RootedPointer DEF PointersInv, PathsTypeOK
<1>8. HoldsIn(buf', path_ptr', s) /\ NoSlashFrom(buf', path_ptr')
  <2>1. CASE d = <<>>
    <3>1. Len(PathOf(d)) = 1 /\ PathOf(d)[1] = "/"
      BY <2>1 DEF PathOf
    <3>2. path_ptr = 1 /\ buf[0] = "/"
      BY <1>2, <1>3, <3>1 DEF HoldsIn
    <3>3. UNCHANGED <<buf, path_ptr>>
      BY <3>2 DEF Separate
    <3>4. Len(j) = 0
      BY <1>4, <2>1, JoinedEmpty, EmptySeq
    <3> QED
      BY <1>2, <1>6, <3>2, <3>3, <3>4 DEF HoldsIn
  <2>2. CASE d # <<>>
    <3>1. PathOf(d) = j /\ Len(j) \in Nat /\ Len(j) >= 2 /\ j[Len(j)] # "/"
      BY <1>4, <2>2, PathOfFacts DEF PathOf
    <3>2. path_ptr = Len(j) /\ \A k \in 1 .. Len(j) : buf[k - 1] = j[k]
      BY <1>2, <1>3, <3>1 DEF HoldsIn
    <3>3. path_ptr - 1 # 0 /\ buf[path_ptr - 1] # "/"
      BY <3>1, <3>2
    <3>4. buf' = [buf EXCEPT ![path_ptr] = "/"] /\ path_ptr' = path_ptr + 1
      BY <1>7, <3>3 DEF Separate, Before
    <3>5. \A k \in Cells : buf'[k] = IF k = path_ptr THEN "/" ELSE buf[k]
      BY <1>7, <3>4
    <3>6. ASSUME NEW k \in 1 .. Len(s) PROVE buf'[k - 1] = s[k]
      BY <1>6, <1>7, <3>1, <3>2, <3>5 DEF Cells
    <3>7. NoSlashFrom(buf', path_ptr')
      BY <1>2, <1>7, <3>4, <3>5 DEF NoSlashFrom, Cells
    <3> QED
      BY <1>6, <3>1, <3>2, <3>4, <3>6, <3>7 DEF HoldsIn
  <2> QED
    BY <2>1, <2>2
<1>9. D(pos)' = d /\ C(pos)' = <<>>
  BY <1>1, <1>2, <1>3, Then
<1>10. Char(0)' = Char(0) /\ Char(1)' = Char(1) /\ Char(2)' = Char(2)
  BY <1>1 DEF Char
<1>11. /\ ~(Char(0) = "." /\ Char(1) \in {"/", NUL})
       /\ ~(Char(0) = "." /\ Char(1) = "." /\ Char(2) \in {"/", NUL})
  BY <1>1, DotsAre
<1>12. InName'
  <2>1. HoldsIn(buf', path_ptr', Join(Joined(D(pos)'), C(pos)'))
    BY <1>4, <1>5, <1>8, <1>9
  <2>2. C(pos)' # <<".">> /\ C(pos)' # <<".", ".">>
    BY <1>9
  <2> HIDE DEF Char
  <2> QED
    BY <1>1, <1>10, <1>11, <2>1, <2>2 DEF InName
<1> QED
  BY <1>1, <1>8, <1>12 DEF BufferInv

\* A name that is none of the special ones is entered.
LEMMA NameEnds ==
    ASSUME NEW d \in Seq(Proper), NEW w \in Proper
    PROVE  Entered(d, w) \in Seq(Proper) /\ PathOf(Entered(d, w)) = Join(Joined(d), w)
<1>1. d \in Seq(Names) /\ w \in Names
  BY ProperNames
<1>2. Entered(d, w) = Append(d, w)
  BY EnterName
<1>3. Append(d, w) # <<>> /\ Append(d, w) \in Seq(Proper)
  BY AppendProperties
<1> QED
  BY <1>1, <1>2, <1>3, JoinedAppend DEF PathOf

LEMMA BufferSlash ==
    ASSUME PointersInv, BufferInv, Rooted, Slash
    PROVE  BufferInv'
<1>1. /\ at = "loop" /\ at' = "first_run" /\ Char(0) = "/" /\ pos' = pos + 1
      /\ UNCHANGED <<mountpoints, pwd, path, buf, path_ptr>>
  BY DEF Slash
<1>2. pos < Len(path) /\ path[pos + 1] = "/" /\ pos \in Nat
  <2>1. pos \in Nat /\ "/" # NUL
    BY TextFacts DEF NUL
  <2>2. pos + 0 < Len(path) /\ Char(0) = path[pos + 0 + 1]
    BY <1>1, <2>1, CharIs
  <2>3. pos + 0 = pos /\ pos + 0 + 1 = pos + 1
    BY <2>1
  <2> QED
    BY <1>1, <2>1, <2>2, <2>3
<1>3. C(pos + 1) = <<>> /\ D(pos + 1) = Entered(D(pos), C(pos))
  BY <1>2, GoOn
<1>4. HoldsIn(buf, path_ptr, PathOf(Entered(D(pos), C(pos)))) /\ NoSlashFrom(buf, path_ptr)
  <2>1. NoSlashFrom(buf, path_ptr) /\ (Between \/ InName)
    BY <1>1 DEF BufferInv
  <2>2. CASE Between
    BY <2>1, <2>2 DEF Between
  <2>3. CASE InName
    <3>1. D(pos) \in Seq(Proper) /\ C(pos) \in Names
      BY HereTypes DEF PointersInv, PathsTypeOK
    <3>2. C(pos) \in Proper
      BY <1>1, <2>3, <3>1 DEF InName, Proper
    <3> QED
      BY <2>1, <2>3, <3>1, <3>2, NameEnds DEF InName
  <2> QED
    BY <2>1, <2>2, <2>3
<1>5. D(pos)' = D(pos + 1) /\ C(pos)' = C(pos + 1)
  BY <1>1, Then
<1>6. HoldsIn(buf', path_ptr', PathOf(D(pos)')) /\ NoSlashFrom(buf', path_ptr')
  BY <1>1, <1>3, <1>4, <1>5
<1> QED
  BY <1>1, <1>3, <1>5, <1>6 DEF BufferInv

LEMMA BufferLetter ==
    ASSUME PointersInv, BufferInv, Rooted, Letter
    PROVE  BufferInv'
<1>1. /\ at = "loop" /\ at' = "loop" /\ Char(0) \notin {"/", NUL} /\ pos' = pos + 1
      /\ buf' = [buf EXCEPT ![path_ptr] = Char(0)] /\ path_ptr' = path_ptr + 1
      /\ UNCHANGED <<mountpoints, pwd, path>>
  BY DEF Letter
<1>2. InName /\ NoSlashFrom(buf, path_ptr)
  BY <1>1 DEF BufferInv, Between
<1>3. PICK c \in Letters : c = Char(0)
  <2>1. Char(0) \in Characters
    BY <1>1, CharIs
  <2> QED
    BY <1>1, <2>1, Alphabet
<1>4. pos < Len(path) /\ path[pos + 1] = c /\ pos \in Nat /\ c # "/" /\ c # NUL
  <2>1. pos \in Nat
    BY TextFacts
  <2>2. pos + 0 < Len(path) /\ Char(0) = path[pos + 0 + 1]
    BY <1>1, <2>1, CharIs
  <2>3. pos + 0 = pos /\ pos + 0 + 1 = pos + 1
    BY <2>1
  <2> QED
    BY <1>1, <1>3, <2>1, <2>2, <2>3
<1>5. C(pos + 1) = Append(C(pos), c) /\ D(pos + 1) = D(pos)
  BY <1>4, GoOn
<1>6. PICK d \in Seq(Proper), w \in Names : d = D(pos) /\ w = C(pos)
  BY HereTypes DEF PointersInv, PathsTypeOK
<1>7. D(pos)' = d /\ C(pos)' = Append(w, c)
  BY <1>1, <1>5, <1>6, Then
<1>8. PICK v \in Names : v = Append(w, c)
  BY AppendProperties DEF Names
<1>9. Len(v) = Len(w) + 1 /\ (\A k \in 1 .. Len(w) : v[k] = w[k]) /\ v[Len(w) + 1] = c
  BY <1>8, AppendProperties DEF Names
<1>10. path_ptr \in 1 .. BufSize - 1 /\ DOMAIN buf = Cells /\ BufSize \in Nat
  BY <1>1, TextFacts, RootedPointer DEF PointersInv, PathsTypeOK
<1>11. \A k \in Cells : buf'[k] = IF k = path_ptr THEN c ELSE buf[k]
  BY <1>1, <1>3, <1>10
<1>12. HoldsIn(buf', path_ptr', Join(Joined(d), v)) /\ NoSlashFrom(buf', path_ptr')
  <2>1. PICK j \in Seq(Characters) : j = Joined(d)
    BY ProperNames, JoinedType
  <2>2. Len(j) \in Nat /\ Len(w) \in Nat
    BY LenProperties, ProperNames
  <2>3. PICK s : s = Join(j, w)
    OBVIOUS
  <2>4. PICK t : t = Join(j, v)
    OBVIOUS
  <2>5. /\ Len(s) = Len(j) + 1 + Len(w)
        /\ \A k \in 1 .. Len(j) : s[k] = j[k]
        /\ s[Len(j) + 1] = "/"
        /\ \A k \in 1 .. Len(w) : s[Len(j) + 1 + k] = w[k]
    BY <2>3, JoinType
  <2>6. /\ Len(t) = Len(j) + 1 + Len(v)
        /\ \A k \in 1 .. Len(j) : t[k] = j[k]
        /\ t[Len(j) + 1] = "/"
        /\ \A k \in 1 .. Len(v) : t[Len(j) + 1 + k] = v[k]
    BY <2>4, JoinType
  <2>7. path_ptr = Len(s) /\ \A k \in 1 .. Len(s) : buf[k - 1] = s[k]
    BY <1>2, <1>6, <2>1, <2>3 DEF InName, HoldsIn
  <2>8. Len(t) = Len(s) + 1 /\ t[Len(s) + 1] = c
    <3>1. Len(v) \in 1 .. Len(v) /\ Len(s) + 1 = Len(j) + 1 + Len(v)
      BY <1>9, <2>2, <2>5
    <3> QED
      BY <1>9, <2>2, <2>5, <2>6, <3>1
  <2>9. ASSUME NEW k \in 1 .. Len(s) PROVE t[k] = s[k]
    <3>1. CASE k <= Len(j) + 1
      BY <2>2, <2>5, <2>6, <3>1
    <3>2. CASE k > Len(j) + 1
      <4>1. k - (Len(j) + 1) \in 1 .. Len(w) /\ Len(j) + 1 + (k - (Len(j) + 1)) = k
        BY <2>2, <2>5, <3>2
      <4>2. PICK m \in 1 .. Len(w) : Len(j) + 1 + m = k
        BY <4>1
      <4>3. m \in 1 .. Len(v)
        BY <1>9, <2>2
      <4>4. s[Len(j) + 1 + m] = w[m] /\ t[Len(j) + 1 + m] = v[m] /\ v[m] = w[m]
        BY <1>9, <2>5, <2>6, <4>3
      <4> QED
        BY <4>2, <4>4
    <3> QED
      BY <2>2, <2>5, <3>1, <3>2
  <2>10. ASSUME NEW k \in 1 .. Len(t) PROVE buf'[k - 1] = t[k]
    <3>1. k - 1 \in Cells /\ Len(s) \in Nat
      BY <1>10, <2>2, <2>5, <2>7, <2>8 DEF Cells
    <3>2. CASE k = Len(s) + 1
      BY <1>11, <2>7, <2>8, <3>1, <3>2
    <3>3. CASE k \in 1 .. Len(s)
      BY <1>11, <2>7, <2>9, <3>1, <3>3
    <3> QED
      BY <2>8, <3>1, <3>2, <3>3
  <2>11. NoSlashFrom(buf', path_ptr')
    BY <1>1, <1>2, <1>4, <1>10, <1>11 DEF NoSlashFrom, Cells
  <2> QED
    BY <1>1, <2>1, <2>4, <2>7, <2>8, <2>10, <2>11 DEF HoldsIn
<1>13. Char(0)' = Char(1) /\ Char(1)' = Char(2)
  <2>1. pos' + 0 = pos + 1 /\ pos' + 1 = pos + 2 /\ pos' + 0 + 1 = pos + 1 + 1 /\ pos' + 1 + 1 = pos + 2 + 1
    BY <1>1, <1>4
  <2> QED
    BY <1>1, <2>1 DEF Char
<1>14. v # <<>>
  BY <1>8, AppendProperties DEF Names
<1>15. v = <<".">> => w = <<>> /\ c = "."
  <2>1. <<".">> = Append(<<>>, ".") /\ <<>> \in Seq(Letters) /\ "." \in Letters
    BY EmptySeq, Alphabet
  <2>2. PICK e \in Seq(Letters) : e = <<>>
    BY <2>1
  <2>3. w \in Seq(Letters)
    BY DEF Names
  <2>4. Append(w, c) = Append(e, ".") <=> w = e /\ c = "."
    BY <2>1, <2>3, AppendInjective
  <2> QED
    BY <1>8, <2>1, <2>2, <2>4
<1>16. v = <<".", ".">> => w = <<".">> /\ c = "."
  <2>1. <<".", ".">> = Append(<<".">>, ".")
    BY TwoDots DEF DotDotName
  <2>2. <<".">> \in Seq(Letters) /\ "." \in Letters
    BY Alphabet
  <2>3. PICK e \in Seq(Letters) : e = <<".">>
    BY <2>2
  <2>4. w \in Seq(Letters)
    BY DEF Names
  <2>5. Append(w, c) = Append(e, ".") <=> w = e /\ c = "."
    BY <2>2, <2>4, AppendInjective
  <2> QED
    BY <1>8, <2>1, <2>3, <2>5
<1>17. InName'
  <2>1. HoldsIn(buf', path_ptr', Join(Joined(D(pos)'), C(pos)')) /\ C(pos)' = v
    BY <1>7, <1>8, <1>12
  <2>2. /\ C(pos)' = <<".">> => Char(1) \notin {"/", NUL} /\ ~(Char(1) = "." /\ Char(2) \in {"/", NUL})
        /\ C(pos)' = <<".", ".">> => Char(1) \notin {"/", NUL}
    <3> HIDE DEF Char
    <3> QED
      BY <1>2, <1>3, <1>6, <1>15, <1>16, <2>1 DEF InName
  <2> HIDE DEF Char
  <2> QED
    BY <1>13, <1>14, <2>1, <2>2 DEF InName
<1> QED
  BY <1>1, <1>12, <1>17 DEF BufferInv

\* A NUL behind a path: it is not cut, for it does not end in a slash.
LEMMA Ended ==
    ASSUME NEW d \in Seq(Proper), HoldsIn(buf, path_ptr, PathOf(d)),
           path_ptr \in 1 .. BufSize - 1, DOMAIN buf = Cells, BufSize \in Nat
    PROVE  /\ ~(buf[path_ptr - 1] = "/" /\ path_ptr - 1 # 0)
           /\ HoldsIn([buf EXCEPT ![path_ptr] = NUL], path_ptr, PathOf(d))
           /\ [buf EXCEPT ![path_ptr] = NUL][path_ptr] = NUL
<1>1. PICK s : s = PathOf(d)
  OBVIOUS
<1>2. Len(s) \in Nat /\ Len(s) >= 1 /\ (d = <<>> => Len(s) = 1) /\ (d # <<>> => s[Len(s)] # "/")
  <2>1. d = <<>> => Len(PathOf(d)) = 1
    BY DEF PathOf
  <2> QED
    BY <1>1, <2>1, PathOfFacts
<1>3. path_ptr = Len(s) /\ \A k \in 1 .. Len(s) : buf[k - 1] = s[k]
  BY <1>1 DEF HoldsIn
<1>4. ~(buf[path_ptr - 1] = "/" /\ path_ptr - 1 # 0)
  BY <1>2, <1>3
<1>5. \A k \in Cells : [buf EXCEPT ![path_ptr] = NUL][k] = IF k = path_ptr THEN NUL ELSE buf[k]
  OBVIOUS
<1>6. path_ptr \in Cells /\ \A k \in 1 .. Len(s) : k - 1 \in Cells /\ k - 1 # path_ptr
  BY <1>2, <1>3 DEF Cells
<1> QED
  BY <1>1, <1>3, <1>4, <1>5, <1>6 DEF HoldsIn

LEMMA BufferTerm ==
    ASSUME PointersInv, BufferInv, Rooted, Term
    PROVE  BufferInv'
<1>1. /\ at = "term" \/ (at = "loop" /\ Char(0) = NUL)
      /\ UNCHANGED <<mountpoints, pwd, path, pos>>
  BY DEF Term, EndsAt
<1>2. path_ptr \in 1 .. BufSize - 1 /\ DOMAIN buf = Cells /\ BufSize \in Nat
  BY <1>1, TextFacts, RootedPointer DEF PointersInv, PathsTypeOK
<1>3. PICK end : /\ end = IF buf[path_ptr - 1] = "/" /\ path_ptr - 1 # 0
                          THEN path_ptr - 1 ELSE path_ptr
                 /\ path_ptr' = end /\ buf' = [buf EXCEPT ![end] = NUL] /\ at' = "done"
  <2>1. Before = {buf[path_ptr - 1]}
    BY <1>2 DEF Before
  <2>2. PICK end : /\ end = IF buf[path_ptr - 1] = "/" /\ path_ptr - 1 # 0
                            THEN path_ptr - 1 ELSE path_ptr
                   /\ EndsAt(end)
    BY <2>1 DEF Term
  <2>3. end >= 0
    BY <1>2, <2>2
  <2> QED
    BY <2>2, <2>3 DEF EndsAt
<1>4. Goal \in Seq(Proper)
  BY HereTypes
<1>5. CASE HoldsIn(buf, path_ptr, PathOf(Goal))
  <2>1. PICK d \in Seq(Proper) : d = Goal
    BY <1>4
  <2>2. /\ ~(buf[path_ptr - 1] = "/" /\ path_ptr - 1 # 0)
        /\ HoldsIn([buf EXCEPT ![path_ptr] = NUL], path_ptr, PathOf(d))
        /\ [buf EXCEPT ![path_ptr] = NUL][path_ptr] = NUL
    BY <1>2, <1>5, <2>1, Ended
  <2>3. path_ptr' = path_ptr /\ buf' = [buf EXCEPT ![path_ptr] = NUL]
    BY <1>3, <2>2
  <2>4. Goal' = d
    BY <1>1, <2>1, SamePath
  <2> QED
    BY <1>1, <1>3, <2>2, <2>3, <2>4 DEF BufferInv
<1>6. CASE ~HoldsIn(buf, path_ptr, PathOf(Goal))
  <2>1. at = "loop" /\ Char(0) = NUL
    BY <1>1, <1>6 DEF BufferInv
  <2>2. InName
    BY <2>1 DEF BufferInv, Between, NUL
  <2>3. pos \in Nat /\ Len(path) \in Nat /\ pos \in 0 .. Len(path)
    BY TextFacts DEF PointersInv, PathsTypeOK
  <2>4. pos = Len(path)
    <3>1. ~(pos + 0 < Len(path))
      BY <2>1, <2>3, CharIs
    <3> QED
      BY <2>3, <3>1
  <2>5. PICK d \in Seq(Proper), w \in Names : d = D(pos) /\ w = C(pos)
    BY <2>3, HereTypes
  <2>6. Goal = Entered(d, w)
    BY <2>4, <2>5 DEF Goal
  <2>7. w \notin Proper
    BY <1>6, <2>2, <2>5, <2>6, NameEnds DEF InName
  <2>8. w = <<>>
    <3> HIDE DEF Char
    <3> QED
      BY <2>1, <2>2, <2>5, <2>7 DEF InName, Proper
  <2>9. Goal = d
    BY <2>6, <2>8, EnterNothing
  <2>10. PICK j \in Seq(Characters) : j = Joined(d)
    BY ProperNames, JoinedType
  <2>11. PICK s : s = Join(j, <<>>)
    OBVIOUS
  <2>12. Len(s) = Len(j) + 1 /\ (\A k \in 1 .. Len(j) : s[k] = j[k]) /\ s[Len(j) + 1] = "/"
    <3>1. <<>> \in Names /\ Len(<<>>) = 0 /\ Len(j) \in Nat
      BY EmptySeq, LenProperties DEF Names
    <3>2. Len(s) = Len(j) + 1 + Len(<<>>)
      BY <2>11, <3>1, JoinType
    <3>3. (\A k \in 1 .. Len(j) : s[k] = j[k]) /\ s[Len(j) + 1] = "/"
      BY <2>11, <3>1, JoinType
    <3> QED
      BY <3>1, <3>2, <3>3
  <2>13. path_ptr = Len(s) /\ \A k \in 1 .. Len(s) : buf[k - 1] = s[k]
    BY <2>2, <2>5, <2>8, <2>10, <2>11 DEF InName, HoldsIn
  <2>14. d # <<>>
    <3> SUFFICES ASSUME d = <<>> PROVE FALSE
      OBVIOUS
    <3>1. Len(j) = 0
      BY <2>10, JoinedEmpty, EmptySeq
    <3>2. Len(PathOf(d)) = 1 /\ PathOf(d)[1] = "/"
      BY DEF PathOf
    <3>3. HoldsIn(buf, path_ptr, PathOf(d))
      BY <2>12, <2>13, <3>1, <3>2 DEF HoldsIn
    <3> QED
      BY <1>6, <2>9, <3>3
  <2>15. PathOf(d) = j /\ Len(j) \in Nat /\ Len(j) >= 2
    BY <2>10, <2>14, PathOfFacts DEF PathOf
  <2>16. path_ptr - 1 = Len(j) /\ buf[path_ptr - 1] = "/"
    BY <2>12, <2>13, <2>15
  <2>17. path_ptr' = Len(j) /\ buf' = [buf EXCEPT ![Len(j)] = NUL]
    <3>1. path_ptr - 1 # 0
      BY <2>15, <2>16
    <3>2. end = path_ptr - 1
      BY <1>3, <2>16, <3>1
    <3>3. end = Len(j)
      BY <2>16, <3>2
    <3> QED
      BY <1>3, <3>3
  <2>18. \A k \in Cells : buf'[k] = IF k = Len(j) THEN NUL ELSE buf[k]
    BY <1>2, <2>17
  <2>19. Len(j) \in Cells /\ \A k \in 1 .. Len(j) : k - 1 \in Cells /\ k - 1 # Len(j)
    BY <1>2, <2>15, <2>16 DEF Cells
  <2>20. HoldsIn(buf', path_ptr', PathOf(d)) /\ buf'[path_ptr'] = NUL
    BY <2>12, <2>13, <2>15, <2>17, <2>18, <2>19 DEF HoldsIn
  <2>21. Goal' = d
    BY <1>1, <2>9, SamePath
  <2> QED
    BY <1>1, <1>3, <2>20, <2>21 DEF BufferInv
<1> QED
  BY <1>5, <1>6

LEMMA BufferCall ==
    ASSUME PointersInv, BufferInv, NEW p \in Inputs, Call(p), PointersInv', Meaningful'
    PROVE  BufferInv'
<1>1. /\ at = "idle" /\ path' = p /\ UNCHANGED <<mountpoints, pwd>>
      /\ at' = IF p = <<>> THEN "done" ELSE "first_run"
  BY DEF Call
<1>2. buf = Clear
  BY <1>1 DEF BufferInv
<1>3. p \in Seq(Characters) /\ Len(p) \in Nat /\ BufSize \in Nat
  BY PathsAssumption, LenProperties
<1>4. path_ptr' \in 1 .. BufSize - 1
  <2>1. Normal(pwd)' => Normal(pwd) /\ pwd' = pwd
    BY <1>1 DEF Normal
  <2>2. Rooted'
    BY <1>1, <2>1, NormalFacts DEF Meaningful, Rooted
  <2>3. path_ptr' \in Cells /\ path_ptr' >= 1
    BY <1>1, <2>2 DEF PointersInv, PathsTypeOK
  <2> QED
    BY <1>3, <2>3 DEF Cells
<1>5. CASE p # <<>> /\ p[1] = "/"
  <2>1. buf' = [buf EXCEPT ![0] = "/"] /\ path_ptr' = 1 /\ pos' = 1 /\ at' = "first_run"
    BY <1>1, <1>5 DEF Call
  <2>2. Base' = <<>>
    BY <1>1, <1>5 DEF Base, Absolute
  <2>3. <<>> \in Seq(Names) /\ 0 \in 0 .. Len(p) - 1
    BY <1>3, <1>5, EmptySeq
  <2>4. DirsAt(<<>>, p, 0) = <<>> /\ Cur(p, 0) = <<>>
    BY <1>3, <2>3, AtStart, WalkedEmpty
  <2>5. Cur(p, 0 + 1) = <<>> /\ DirsAt(<<>>, p, 0 + 1) = Entered(DirsAt(<<>>, p, 0), Cur(p, 0))
    <3>1. p[0 + 1] = "/"
      BY <1>5
    <3> QED
      BY <1>3, <2>3, <3>1, Progress
  <2>6. C(pos)' = <<>> /\ D(pos)' = <<>>
    BY <1>1, <2>1, <2>2, <2>4, <2>5, EnterNothing DEF C, D
  <2>7. Len(PathOf(<<>>)) = 1 /\ PathOf(<<>>)[1] = "/"
    BY DEF PathOf
  <2>8. buf'[0] = "/" /\ \A k \in Cells : k >= 1 => buf'[k] = NUL
    <3>1. 0 \in Cells /\ DOMAIN buf = Cells /\ \A k \in Cells : buf[k] = NUL
      BY <1>2, <1>3, <1>4, <2>1 DEF Clear, Cells
    <3>2. \A k \in Cells : buf'[k] = IF k = 0 THEN "/" ELSE buf[k]
      BY <2>1, <3>1
    <3> QED
      BY <3>1, <3>2
  <2>9. HoldsIn(buf', path_ptr', PathOf(<<>>)) /\ NoSlashFrom(buf', path_ptr')
    <3>1. HoldsIn(buf', path_ptr', PathOf(<<>>))
      BY <2>1, <2>7, <2>8 DEF HoldsIn
    <3>2. NUL # "/"
      BY DEF NUL
    <3>3. NoSlashFrom(buf', path_ptr')
      BY <2>1, <2>8, <3>2 DEF NoSlashFrom
    <3> QED
      BY <3>1, <3>3
  <2> QED
    BY <2>1, <2>6, <2>9 DEF BufferInv
<1>6. CASE ~(p # <<>> /\ p[1] = "/")
  <2>1. buf' = Copied(pwd) /\ path_ptr' = Len(pwd) /\ pos' = 0
    BY <1>6 DEF Call
  <2>2. Base' = Words(pwd) /\ ~Absolute'
    BY <1>1, <1>6 DEF Base, Absolute
  <2>3. /\ pwd \in Seq(Characters) /\ Len(pwd) \in Nat /\ Len(pwd) >= 1
        /\ Words(pwd) \in Seq(Names) /\ pwd = PathOf(Walked(Words(pwd)))
    <3>1. Normal(pwd)
      BY <1>1, <2>2 DEF Meaningful, Normal
    <3> QED
      BY <3>1, TextFacts, NormalFacts
  <2>4. C(pos)' = <<>> /\ D(pos)' = Walked(Words(pwd))
    BY <1>1, <1>3, <2>1, <2>2, <2>3, AtStart DEF C, D
  <2>5. \A k \in Cells : /\ k < Len(pwd) => buf'[k] = pwd[k + 1]
                         /\ k >= Len(pwd) => buf'[k] = NUL
    BY <1>2, <2>1, <2>3 DEF Copied, Clear, Cells
  <2>6. HoldsIn(buf', path_ptr', pwd) /\ NoSlashFrom(buf', path_ptr') /\ buf'[path_ptr'] = NUL
    <3>1. ASSUME NEW k \in 1 .. Len(pwd) PROVE buf'[k - 1] = pwd[k]
      <4>1. k - 1 \in Cells /\ k - 1 < Len(pwd) /\ (k - 1) + 1 = k
        BY <1>3, <1>4, <2>1, <2>3 DEF Cells
      <4> QED
        BY <2>5, <4>1
    <3>2. Len(pwd) \in Cells
      BY <1>3, <1>4, <2>1, <2>3 DEF Cells
    <3>3. NUL # "/"
      BY DEF NUL
    <3>4. HoldsIn(buf', path_ptr', pwd)
      BY <2>1, <3>1 DEF HoldsIn
    <3>5. NoSlashFrom(buf', path_ptr')
      BY <2>1, <2>5, <3>3 DEF NoSlashFrom
    <3> QED
      BY <2>1, <2>3, <2>5, <3>2, <3>4, <3>5
  <2>7. HoldsIn(buf', path_ptr', PathOf(Walked(Words(pwd))))
    BY <2>3, <2>6
  <2>8. CASE p # <<>>
    <3>1. at' = "first_run"
      BY <1>1, <2>8
    <3> QED
      BY <2>4, <2>6, <2>7, <3>1 DEF BufferInv
  <2>9. CASE p = <<>>
    <3>1. at' = "done" /\ Len(path)' = pos'
      BY <1>1, <2>1, <2>9, EmptySeq
    <3>2. Goal' = Entered(D(pos)', C(pos)')
      BY <3>1 DEF Goal, D, C
    <3>3. Goal' = Walked(Words(pwd))
      BY <2>4, <3>2, EnterNothing
    <3> QED
      BY <2>6, <2>7, <3>1, <3>3 DEF BufferInv
  <2> QED
    BY <2>8, <2>9
<1> QED
  BY <1>5, <1>6

LEMMA BufferSame ==
    ASSUME BufferInv, UNCHANGED <<pwd, path, pos, buf, path_ptr, at>>
    PROVE  BufferInv'
<1>1. Goal' = Goal /\ D(pos)' = D(pos) /\ C(pos)' = C(pos)
  BY SamePath, Then
<1>2. Char(0)' = Char(0) /\ Char(1)' = Char(1) /\ Char(2)' = Char(2)
  BY DEF Char
<1>3. Between' <=> Between
  BY <1>1, <1>2 DEF Between
<1>4. InName' <=> InName
  <2> HIDE DEF Char
  <2> QED
    BY <1>1, <1>2 DEF InName
<1> QED
  BY <1>1, <1>3, <1>4 DEF BufferInv

\* Between calls the buffer is clean, and what a call leaves in it is what
\* the characters so far say, if its path or the working directory says where.
TextInv ==
    /\ at \in {"boot", "idle"} => buf = Clear
    /\ Meaningful => BufferInv

LEMMA BufferStep ==
    ASSUME ~Stale, PointersInv, TextInv, [PathsNext]_pathVars, PointersInv'
    PROVE  TextInv'
<1>1. ASSUME at \in {"boot", "idle"} PROVE BufferInv
  BY <1>1 DEF TextInv, BufferInv
<1>2. ASSUME UNCHANGED <<path, pwd>>, Meaningful' PROVE Meaningful /\ BufferInv
  BY <1>2 DEF TextInv, Meaningful, Absolute, Normal
<1>3. CASE UNCHANGED pathVars
  <2>1. UNCHANGED <<path, pwd, pos, buf, path_ptr, at>>
    BY <1>3 DEF pathVars
  <2>2. Meaningful' => BufferInv'
    BY <1>2, <2>1, BufferSame
  <2> QED
    BY <2>1, <2>2 DEF TextInv, Clear
<1>4. CASE Booted \/ VfsCd \/ \E p \in Pwds : ExecPwd(p)
  <2>1. at' = "idle" /\ buf' = Clear
    BY <1>4 DEF TextInv, Booted, VfsCd, ExecPwd
  <2>2. BufferInv'
    BY <2>1 DEF BufferInv, Clear
  <2> QED
    BY <2>1, <2>2 DEF TextInv, Clear
<1>5. CASE \E m \in MountNames : Mount(m)
  <2>1. at = "boot" /\ UNCHANGED <<path, pwd, pos, buf, path_ptr, at>>
    BY <1>5 DEF Mount
  <2>2. BufferInv'
    BY <1>1, <2>1, BufferSame
  <2> QED
    BY <2>1, <2>2 DEF TextInv, Clear
<1>6. ASSUME NEW p \in Inputs, Call(p) PROVE TextInv'
  <2>1. at = "idle" /\ at' \in {"first_run", "done"}
    BY <1>6 DEF Call
  <2>2. Meaningful' => BufferInv'
    BY <1>1, <1>6, <2>1, BufferCall
  <2> QED
    BY <2>1, <2>2 DEF TextInv
<1>7. CASE Loop
  <2>1. UNCHANGED <<path, pwd>> /\ at \notin {"boot", "idle"} /\ at' \notin {"boot", "idle"}
    BY <1>7 DEF Loop, AtFirstRun, SkipSlash, EndInDot, EndInDotDot, Ascend, WalkOff, Stay,
       Separate, Slash, Letter, Term, EndsAt
  <2>2. ASSUME Meaningful' PROVE BufferInv'
    <3>1. BufferInv /\ Rooted
      BY <1>2, <2>1, <2>2, MeaningfulRooted
    <3>2. ~WalkOff
      <4> SUFFICES ASSUME WalkOff PROVE FALSE
        OBVIOUS
      <4>1. at = "first_run" /\ Slashes = {}
        BY DEF WalkOff, AtFirstRun
      <4>2. path_ptr \in 1 .. BufSize - 1 /\ buf[0] = "/" /\ BufSize \in Nat
        BY <3>1, <4>1, RootedPointer, TextFacts
      <4>3. 0 \in Slashes
        BY <4>2 DEF Slashes, Cells
      <4> QED
        BY <4>1, <4>3
    <3> QED
      BY <1>7, <3>1, <3>2, BufferSkipSlash, BufferEndInDot, BufferEndInDotDot, BufferAscend,
         BufferStay, BufferSeparate, BufferSlash, BufferLetter, BufferTerm DEF Loop
  <2> QED
    BY <2>1, <2>2 DEF TextInv
<1> QED
  BY <1>3, <1>4, <1>5, <1>6, <1>7 DEF PathsNext

\* The string in the buffer, once it is complete.
LEMMA ResultIs ==
    ASSUME PointersInv, BufferInv, Rooted, at = "done"
    PROVE  Result = PathOf(Goal) /\ Goal \in Seq(Proper)
<1>1. Goal \in Seq(Proper)
  BY HereTypes
<1>2. PICK s \in Seq(Characters) : s = PathOf(Goal)
  BY <1>1, PathOfFacts
<1>3. /\ path_ptr = Len(s) /\ (\A k \in 1 .. Len(s) : buf[k - 1] = s[k])
      /\ buf[path_ptr] = NUL
  BY <1>2 DEF BufferInv, HoldsIn
<1>4. path_ptr \in 1 .. BufSize - 1 /\ BufSize \in Nat /\ path_ptr \in Cells
  BY TextFacts, RootedPointer DEF PointersInv, PathsTypeOK
<1> DEFINE IsEnd(k) == buf[k] = NUL /\ \A j \in 0 .. k - 1 : buf[j] # NUL
<1>5. ASSUME NEW k \in 0 .. path_ptr - 1 PROVE buf[k] # NUL
  <2>1. k + 1 \in 1 .. Len(s) /\ (k + 1) - 1 = k
    BY <1>3, <1>4
  <2>2. s[k + 1] \in Characters
    BY <2>1, ElementOfSeq
  <2> QED
    BY <1>3, <2>1, <2>2, Alphabet
<1>6. IsEnd(path_ptr)
  BY <1>3, <1>5
<1>7. ASSUME NEW k \in Cells, IsEnd(k) PROVE k = path_ptr
  <2>1. k \in Int /\ path_ptr \in Int /\ k >= 0
    BY <1>4 DEF Cells
  <2>2. ~(k < path_ptr)
    BY <1>5, <1>7, <2>1
  <2>3. ~(path_ptr < k)
    BY <1>3, <1>4, <1>7, <2>1
  <2> QED
    BY <2>1, <2>2, <2>3
<1>8. (CHOOSE k \in Cells : IsEnd(k)) = path_ptr
  <2> HIDE DEF IsEnd
  <2>1. (CHOOSE k \in Cells : IsEnd(k)) \in Cells /\ IsEnd(CHOOSE k \in Cells : IsEnd(k))
    BY <1>4, <1>6
  <2> QED
    BY <1>7, <2>1
<1>9. Result = [k \in 1 .. path_ptr |-> buf[k - 1]]
  BY <1>8 DEF Result
<1>10. s = [k \in 1 .. Len(s) |-> s[k]]
  OBVIOUS
<1>11. [k \in 1 .. path_ptr |-> buf[k - 1]] = [k \in 1 .. Len(s) |-> s[k]]
  BY <1>3
<1> QED
  BY <1>1, <1>2, <1>9, <1>10, <1>11

\* The directory all the characters lead to is the one the property names.
LEMMA GoalIs ==
    ASSUME PointersInv
    PROVE  Goal = Walked(IF Absolute THEN Words(path)
                         ELSE Words(pwd) \o Words(path))
<1>1. Base \in Seq(Names) /\ path \in Seq(Characters)
  BY HereTypes, TextFacts
<1>2. Goal = Walked(Base \o Words(path))
  BY <1>1, AtEnd DEF Goal, D, C
<1>3. <<>> \o Words(path) = Words(path)
  BY <1>1, WordsType, ConcatEmptySeq DEF Lists
<1> QED
  BY <1>2, <1>3 DEF Base

LEMMA PathsInvariant ==
    ASSUME Roomy, ~Stale
    PROVE  PathsSpec => [](PointersInv /\ TextInv)
<1>1. PathsInit => PointersInv /\ TextInv
  <2>1. PathsInit => TextInv
    BY DEF PathsInit, TextInv, BufferInv
  <2> QED
    BY <2>1, PointersInit
<1>2. PointersInv /\ TextInv /\ [PathsNext]_pathVars => (PointersInv /\ TextInv)'
  <2>1. PointersInv /\ [PathsNext]_pathVars => PointersInv'
    BY PointersStep
  <2> QED
    BY <2>1, BufferStep
<1> QED
  BY <1>1, <1>2, PTL DEF PathsSpec

\* Whatever a path holds and whatever working directory a program gives to
\* another, the loop of vfs_get_absolute_path leaves the buffer, which has room
\* for the two, only where neither begins with a slash; where one does, the
\* slash in the first cell stops the walk back of "..".
THEOREM PathsTypeCorrect ==
    ASSUME Roomy
    PROVE  PathsSpec => []PathsTypeOK
<1>1. PathsInit => PointersInv
  BY PointersInit
<1>2. PointersInv /\ [PathsNext]_pathVars => PointersInv'
  BY PointersStep
<1>3. PointersInv => PathsTypeOK
  BY DEF PointersInv
<1> QED
  BY <1>1, <1>2, <1>3, PTL DEF PathsSpec

\* vfs_get_absolute_path, given a clean buffer, resolves every absolute path,
\* and every relative one from a working directory in normal form, to the
\* directory its names lead to, in normal form, among calls with any other
\* working directories.
THEOREM PathsResolved ==
    ASSUME Roomy, ~Stale
    PROVE  PathsSpec => []ResolvedRight
<1>1. PathsSpec => [](PointersInv /\ TextInv)
  BY PathsInvariant
<1>2. PointersInv /\ TextInv => ResolvedRight
  <2> SUFFICES ASSUME PointersInv, TextInv, at = "done", Meaningful
               PROVE  Result = PathOf(Walked(IF Absolute THEN Words(path)
                                             ELSE Words(pwd) \o Words(path)))
    BY DEF ResolvedRight
  <2>1. BufferInv /\ Rooted
    BY MeaningfulRooted DEF TextInv
  <2> QED
    BY <2>1, ResultIs, GoalIs
<1> QED
  BY <1>1, <1>2, PTL

(***************************************************************************)
(* Prefixes.                                                               *)
(***************************************************************************)

LEMMA ConcatCut ==
    ASSUME NEW S, NEW s \in Seq(S), NEW t \in Seq(S)
    PROVE  /\ SubSeq(s \o t, 1, Len(s)) = s
           /\ SubSeq(s \o t, Len(s) + 1, Len(s \o t)) = t
<1>1. Len(s) \in Nat /\ Len(t) \in Nat
  BY LenProperties
<1>2. PICK u \in Seq(S) : u = s \o t
  BY ConcatProperties
<1>3. /\ Len(u) = Len(s) + Len(t)
      /\ \A k \in 1 .. Len(s) + Len(t) : u[k] = IF k <= Len(s) THEN s[k] ELSE t[k - Len(s)]
  BY <1>2, ConcatProperties
<1>4. \A k \in 1 .. Len(u) : u[k] \in S
  BY ElementOfSeq
<1>5. PICK a : a = SubSeq(u, 1, Len(s))
  OBVIOUS
<1>6. a \in Seq(S) /\ Len(a) = Len(s) /\ \A k \in 1 .. Len(s) : a[k] = u[k]
  <2>1. \A k \in 1 .. Len(s) : u[k] \in S
    BY <1>1, <1>3, <1>4
  <2>2. /\ a \in Seq(S) /\ Len(a) = IF 1 <= Len(s) THEN Len(s) - 1 + 1 ELSE 0
        /\ \A k \in 1 .. Len(s) - 1 + 1 : a[k] = u[1 + k - 1]
    BY <1>1, <1>5, <2>1, SubSeqProperties
  <2> QED
    BY <1>1, <2>2
<1>7. a = s
  <2>1. \A k \in 1 .. Len(a) : a[k] = s[k]
    BY <1>1, <1>3, <1>6
  <2> QED
    BY <1>6, <2>1, SeqEqual
<1>8. PICK b : b = SubSeq(u, Len(s) + 1, Len(u))
  OBVIOUS
<1>9. b \in Seq(S) /\ Len(b) = Len(t) /\ \A k \in 1 .. Len(t) : b[k] = u[Len(s) + k]
  <2>1. \A k \in Len(s) + 1 .. Len(u) : u[k] \in S
    BY <1>1, <1>3, <1>4
  <2>2. /\ b \in Seq(S)
        /\ Len(b) = IF Len(s) + 1 <= Len(u) THEN Len(u) - (Len(s) + 1) + 1 ELSE 0
        /\ \A k \in 1 .. Len(u) - (Len(s) + 1) + 1 : b[k] = u[(Len(s) + 1) + k - 1]
    BY <1>1, <1>3, <1>8, <2>1, SubSeqProperties
  <2>3. Len(u) - (Len(s) + 1) + 1 = Len(t) /\ \A k \in 1 .. Len(t) : (Len(s) + 1) + k - 1 = Len(s) + k
    BY <1>1, <1>3
  <2>4. Len(b) = Len(t)
    BY <1>1, <1>3, <2>2, <2>3
  <2>5. ASSUME NEW k \in 1 .. Len(t) PROVE b[k] = u[Len(s) + k]
    <3>1. b[k] = u[(Len(s) + 1) + k - 1] /\ (Len(s) + 1) + k - 1 = Len(s) + k
      BY <2>2, <2>3
    <3> QED
      BY <3>1
  <2> QED
    BY <2>2, <2>4, <2>5
<1>10. b = t
  <2>1. ASSUME NEW k \in 1 .. Len(b) PROVE b[k] = t[k]
    <3>1. Len(s) + k \in 1 .. Len(s) + Len(t) /\ ~(Len(s) + k <= Len(s)) /\ (Len(s) + k) - Len(s) = k
      BY <1>1, <1>9
    <3> QED
      BY <1>3, <1>9, <3>1
  <2> QED
    BY <1>9, <2>1, SeqEqual
<1> QED
  BY <1>2, <1>5, <1>7, <1>8, <1>10

LEMMA CutConcat ==
    ASSUME NEW S, NEW s \in Seq(S), NEW n \in 0 .. Len(s)
    PROVE  /\ SubSeq(s, 1, n) \in Seq(S) /\ SubSeq(s, n + 1, Len(s)) \in Seq(S)
           /\ Len(SubSeq(s, 1, n)) = n
           /\ s = SubSeq(s, 1, n) \o SubSeq(s, n + 1, Len(s))
<1>1. Len(s) \in Nat /\ n \in Nat
  BY LenProperties
<1>2. \A k \in 1 .. Len(s) : s[k] \in S
  BY ElementOfSeq
<1>3. SubSeq(s, 1, n) \in Seq(S) /\ Len(SubSeq(s, 1, n)) = n
  <2>1. \A k \in 1 .. n : s[k] \in S
    BY <1>1, <1>2
  <2>2. SubSeq(s, 1, n) \in Seq(S) /\ Len(SubSeq(s, 1, n)) = IF 1 <= n THEN n - 1 + 1 ELSE 0
    BY <1>1, <2>1, SubSeqProperties
  <2> QED
    BY <1>1, <2>2
<1>4. SubSeq(s, n + 1, Len(s)) \in Seq(S)
  <2>1. \A k \in n + 1 .. Len(s) : s[k] \in S
    BY <1>1, <1>2
  <2> QED
    BY <1>1, <2>1, SubSeqProperties
<1>5. SubSeq(s, 1, n) \o SubSeq(s, n + 1, Len(s)) = SubSeq(s, 1, Len(s))
  <2>1. 1 \in 1 .. Len(s) + 1 /\ n \in 1 - 1 .. Len(s) /\ Len(s) \in n .. Len(s)
    BY <1>1
  <2> QED
    BY <2>1, ConcatAdjacentSubSeq
<1> QED
  BY <1>3, <1>4, <1>5, SubSeqFull

LEMMA PrefixIs ==
    ASSUME NEW S, NEW e \in Seq(S), NEW d \in Seq(S)
    PROVE  IsPrefix(e, d) <=> \E r \in Seq(S) : d = e \o r
<1>1. Len(e) \in Nat /\ Len(d) \in Nat /\ SubSeq(e, 1, Len(e)) = e
  BY LenProperties, SubSeqFull
<1>2. ASSUME IsPrefix(e, d) PROVE \E r \in Seq(S) : d = e \o r
  <2>1. Len(e) \in 0 .. Len(d) /\ SubSeq(d, 1, Len(e)) = e
    BY <1>1, <1>2 DEF IsPrefix
  <2>2. PICK n \in 0 .. Len(d) : n = Len(e)
    BY <2>1
  <2>3. SubSeq(d, n + 1, Len(d)) \in Seq(S) /\ d = SubSeq(d, 1, n) \o SubSeq(d, n + 1, Len(d))
    BY CutConcat
  <2> QED
    BY <2>1, <2>2, <2>3
<1>3. ASSUME NEW r \in Seq(S), d = e \o r PROVE IsPrefix(e, d)
  <2>1. Len(r) \in Nat /\ Len(d) = Len(e) + Len(r)
    BY <1>3, ConcatProperties, LenProperties
  <2>2. SubSeq(d, 1, Len(e)) = e
    BY <1>3, ConcatCut
  <2> QED
    BY <1>1, <2>1, <2>2 DEF IsPrefix
<1> QED
  BY <1>2, <1>3

LEMMA Cancel ==
    ASSUME NEW S, NEW s \in Seq(S), NEW t \in Seq(S), NEW u \in Seq(S), s \o t = s \o u
    PROVE  t = u
<1>1. SubSeq(s \o t, Len(s) + 1, Len(s \o t)) = t
  BY ConcatCut
<1>2. SubSeq(s \o u, Len(s) + 1, Len(s \o u)) = u
  BY ConcatCut
<1> QED
  BY <1>1, <1>2

(***************************************************************************)
(* The names of a path, and the path of names.                             *)
(***************************************************************************)

LEMMA SplitName ==
    ASSUME NEW f \in Seq(Names), NEW x \in Names, NEW c \in Characters, c # "/"
    PROVE  Split(Append(f, x), c) = Append(f, Append(x, c))
<1>1. PICK s \in Lists : s = Append(f, x) /\ Front(s) = f /\ Last(s) = x
  BY AppendParts
<1>2. PICK t \in Lists : t = Split(s, c)
  BY SplitType
<1>3. Front(t) = f /\ Last(t) = Append(x, c)
  BY <1>1, <1>2, SplitParts
<1>4. t = Append(Front(t), Last(t))
  BY ListParts
<1> QED
  BY <1>1, <1>2, <1>3, <1>4

Apart(s, t) == Append(s, "/") \o t

LEMMA WordsApart ==
    ASSUME NEW s \in Seq(Characters), NEW t \in Seq(Characters)
    PROVE  Words(Apart(s, t)) = Words(s) \o Words(t)
<1> DEFINE X == {r \in Seq(Characters) : Words(Apart(s, r)) = Words(s) \o Words(r)}
<1>1. Append(s, "/") \in Seq(Characters)
  BY Alphabet, AppendProperties
<1>2. Words(s) \in Seq(Names) /\ Words(s) \in Lists
  BY WordsType DEF Lists
<1>3. <<>> \in Names
  BY EmptySeq DEF Names
<1>4. <<>> \in X
  <2>1. Apart(s, <<>>) = Append(s, "/")
    BY <1>1, ConcatEmptySeq DEF Apart
  <2>2. Words(Append(s, "/")) = Append(Words(s), <<>>)
    BY Alphabet, WordsAppend DEF Split
  <2>3. Append(Words(s), <<>>) = Words(s) \o << <<>> >>
    BY <1>2, <1>3, AppendIsConcat
  <2>4. <<>> \in Seq(Characters)
    BY EmptySeq
  <2> QED
    BY <2>1, <2>2, <2>3, <2>4, WordsEmpty
<1>5. ASSUME NEW r \in Seq(Characters), NEW c \in Characters, r \in X PROVE Append(r, c) \in X
  <2>1. Apart(s, r) \in Seq(Characters) /\ Apart(s, Append(r, c)) = Append(Apart(s, r), c)
    BY <1>1, ConcatAppend, ConcatProperties DEF Apart
  <2>2. Words(Apart(s, Append(r, c))) = Split(Words(s) \o Words(r), c)
    BY <1>5, <2>1, WordsAppend
  <2>3. PICK f \in Seq(Names), x \in Names : Words(r) = Append(f, x)
    BY WordsType, ListParts
  <2>4. Words(s) \o Words(r) = Append(Words(s) \o f, x) /\ Words(s) \o f \in Seq(Names)
    BY <1>2, <2>3, ConcatAppend, ConcatProperties
  <2>5. Split(Words(s) \o Words(r), c) = Words(s) \o Split(Words(r), c)
    <3>1. CASE c = "/"
      <4>1. Words(r) \in Seq(Names)
        BY WordsType DEF Lists
      <4>2. Words(s) \o Append(Words(r), <<>>) = Append(Words(s) \o Words(r), <<>>)
        BY <1>2, <1>3, <4>1, ConcatAppend
      <4> QED
        BY <3>1, <4>2 DEF Split
    <3>2. CASE c # "/"
      <4>1. c \in Letters /\ x \in Seq(Letters)
        BY <3>2, Alphabet DEF Names
      <4>2. PICK y \in Names : y = Append(x, c)
        BY <4>1, AppendProperties DEF Names
      <4>3. Split(Words(s) \o Words(r), c) = Append(Words(s) \o f, y)
        BY <2>4, <3>2, <4>2, SplitName
      <4>4. Split(Words(r), c) = Append(f, y)
        BY <2>3, <3>2, <4>2, SplitName
      <4>5. Words(s) \o Append(f, y) = Append(Words(s) \o f, y)
        BY <1>2, ConcatAppend
      <4> QED
        BY <4>3, <4>4, <4>5
    <3> QED
      BY <3>1, <3>2
  <2>6. Append(r, c) \in Seq(Characters) /\ Words(Append(r, c)) = Split(Words(r), c)
    BY AppendProperties, WordsAppend
  <2> QED
    BY <2>2, <2>5, <2>6
<1>6. Seq(Characters) \subseteq X
  <2> HIDE DEF X
  <2> QED
    BY <1>4, <1>5, SeqInduction
<1> QED
  BY <1>6

LEMMA WordsName ==
    ASSUME NEW w \in Names
    PROVE  Words(w) = <<w>>
<1> DEFINE X == {r \in Seq(Letters) : Words(r) = Append(<<>>, r)}
<1>1. <<>> \in X
  <2>1. <<>> \in Seq(Letters) /\ << <<>> >> = Append(<<>>, <<>>)
    BY EmptySeq
  <2> QED
    BY <2>1, WordsEmpty
<1>2. ASSUME NEW r \in Seq(Letters), NEW c \in Letters, r \in X PROVE Append(r, c) \in X
  <2>1. r \in Seq(Characters) /\ c \in Characters /\ c # "/"
    BY SeqMonotonic, Alphabet
  <2>2. <<>> \in Seq(Names) /\ r \in Names
    BY EmptySeq DEF Names
  <2>3. Words(Append(r, c)) = Append(<<>>, Append(r, c))
    BY <1>2, <2>1, <2>2, WordsAppend, SplitName
  <2>4. Append(r, c) \in Seq(Letters)
    BY AppendProperties
  <2> QED
    BY <2>3, <2>4
<1>3. Seq(Letters) \subseteq X
  <2> HIDE DEF X
  <2> QED
    BY <1>1, <1>2, SeqInduction
<1>4. Words(w) = Append(<<>>, w)
  BY <1>3 DEF Names
<1> QED
  BY <1>4

\* A name more is joined by a slash.
LEMMA JoinApart ==
    ASSUME NEW s \in Seq(Characters), NEW w \in Names
    PROVE  Join(s, w) = Apart(s, w)
  BY Alphabet, AppendIsConcat DEF Join, Apart

\* The names of a path are, after nothing in front of its first slash, those
\* it was joined from.
LEMMA WordsJoined ==
    ASSUME NEW d \in Seq(Names)
    PROVE  Words(Joined(d)) = << <<>> >> \o d
<1> DEFINE X == {r \in Seq(Names) : Words(Joined(r)) = << <<>> >> \o r}
<1>0. << <<>> >> \in Seq(Names) /\ <<>> \in Seq(Names)
  BY EmptySeq DEF Names
<1>1. <<>> \in X
  BY <1>0, JoinedEmpty, WordsEmpty, ConcatEmptySeq
<1>2. ASSUME NEW r \in Seq(Names), NEW w \in Names, r \in X PROVE Append(r, w) \in X
  <2>1. Joined(Append(r, w)) = Apart(Joined(r), w) /\ Joined(r) \in Seq(Characters)
    BY JoinedAppend, JoinApart, JoinedType
  <2>2. w \in Seq(Characters)
    BY SeqMonotonic, Alphabet DEF Names
  <2>3. Words(Joined(Append(r, w))) = (<< <<>> >> \o r) \o <<w>>
    BY <1>2, <2>1, <2>2, WordsApart, WordsName
  <2>4. PICK b \in Seq(Names) : b = << <<>> >>
    BY <1>0
  <2>5. b \o Append(r, w) = Append(b \o r, w) /\ b \o r \in Seq(Names)
    BY ConcatAppend, ConcatProperties
  <2>6. Append(b \o r, w) = (b \o r) \o <<w>>
    BY <2>5, AppendIsConcat
  <2>7. Append(r, w) \in Seq(Names)
    BY AppendProperties
  <2> QED
    BY <2>3, <2>4, <2>5, <2>6, <2>7
<1>3. Seq(Names) \subseteq X
  <2> HIDE DEF X
  <2> QED
    BY <1>0, <1>1, <1>2, SeqInduction
<1> QED
  BY <1>3

\* Proper names lead where they say.
LEMMA WalkedProper ==
    ASSUME NEW d \in Seq(Proper)
    PROVE  Walked(d) = d /\ Walked(<< <<>> >> \o d) = d
<1>0. PICK b \in Seq(Names) : b = << <<>> >>
  <2>1. << <<>> >> \in Seq(Names)
    BY EmptySeq DEF Names
  <2> QED
    BY <2>1
<1> DEFINE X == {r \in Seq(Proper) : Walked(r) = r /\ Walked(b \o r) = r}
<1>1. <<>> \in X
  <2>1. <<>> \in Names /\ <<>> \in Seq(Names) /\ <<>> \in Seq(Proper)
    BY EmptySeq DEF Names
  <2>2. b = Append(<<>>, <<>>)
    BY <1>0
  <2>3. Walked(b) = Entered(<<>>, <<>>)
    BY <2>1, <2>2, WalkedAppend, WalkedEmpty
  <2>4. b \o <<>> = b
    BY ConcatEmptySeq
  <2> QED
    BY <2>1, <2>3, <2>4, WalkedEmpty, EnterNothing
<1>2. ASSUME NEW r \in Seq(Proper), NEW w \in Proper, r \in X PROVE Append(r, w) \in X
  <2>1. r \in Seq(Names) /\ w \in Names
    BY ProperNames
  <2>2. b \o Append(r, w) = Append(b \o r, w) /\ b \o r \in Seq(Names)
    BY <2>1, ConcatAppend, ConcatProperties
  <2>3. Walked(b \o Append(r, w)) = Entered(r, w) /\ Walked(Append(r, w)) = Entered(r, w)
    BY <1>2, <2>1, <2>2, WalkedAppend
  <2>4. Append(r, w) \in Seq(Proper)
    BY AppendProperties
  <2> QED
    BY <2>3, <2>4, EnterName
<1>3. Seq(Proper) \subseteq X
  <2> HIDE DEF X
  <2> QED
    BY <1>1, <1>2, SeqInduction
<1> QED
  BY <1>0, <1>3

\* A path in normal form leads to the directory it is the form of.
LEMMA RoundTrip ==
    ASSUME NEW d \in Seq(Proper)
    PROVE  Walked(Words(PathOf(d))) = d /\ Walked(Words(Joined(d))) = d
<1>1. Walked(Words(Joined(d))) = d
  BY ProperNames, WordsJoined, WalkedProper
<1>2. CASE d # <<>>
  BY <1>1, <1>2 DEF PathOf
<1>3. CASE d = <<>>
  <2>1. <<>> \in Seq(Characters) /\ <<>> \in Seq(Names) /\ <<>> \in Names
    BY EmptySeq DEF Names
  <2>2. PathOf(d) = Append(<<>>, "/")
    BY <1>3 DEF PathOf
  <2>3. Words(PathOf(d)) = Append(Words(<<>>), <<>>)
    BY <2>1, <2>2, Alphabet, WordsAppend DEF Split
  <2>4. Words(<<>>) = Append(<<>>, <<>>)
    BY WordsEmpty
  <2>5. Words(<<>>) \in Seq(Names)
    BY <2>1, WordsType DEF Lists
  <2>6. Walked(Words(<<>>)) = <<>>
    BY <2>1, <2>4, WalkedAppend, WalkedEmpty, EnterNothing
  <2>7. Walked(Words(PathOf(d))) = <<>>
    BY <2>1, <2>3, <2>5, <2>6, WalkedAppend, EnterNothing
  <2> QED
    BY <1>1, <1>3, <2>7
<1> QED
  BY <1>1, <1>2, <1>3

LEMMA JoinGroup ==
    ASSUME NEW s \in Seq(Characters), NEW t \in Seq(Characters), NEW w \in Names
    PROVE  Join(s \o t, w) = s \o Join(t, w)
<1>1. PICK x \in Seq(Characters) : x = w
  BY SeqMonotonic, Alphabet DEF Names
<1>2. <<"/">> \in Seq(Characters)
  BY Alphabet
<1>3. PICK one \in Seq(Characters) : one = <<"/">>
  BY <1>2
<1>4. (s \o t) \o one = s \o (t \o one)
  BY ConcatAssociative
<1>5. PICK y \in Seq(Characters) : y = t \o one
  BY ConcatProperties
<1>6. (s \o y) \o x = s \o (y \o x)
  BY ConcatAssociative
<1>7. Join(s \o t, w) = (s \o y) \o x
  BY <1>1, <1>3, <1>4, <1>5 DEF Join
<1>8. s \o Join(t, w) = s \o (y \o x)
  BY <1>1, <1>3, <1>5 DEF Join
<1> QED
  BY <1>6, <1>7, <1>8

LEMMA JoinedConcat ==
    ASSUME NEW e \in Seq(Names), NEW d \in Seq(Names)
    PROVE  Joined(e \o d) = Joined(e) \o Joined(d)
<1> DEFINE X == {r \in Seq(Names) : Joined(e \o r) = Joined(e) \o Joined(r)}
<1>0. Joined(e) \in Seq(Characters)
  BY JoinedType
<1>1. <<>> \in X
  <2>1. e \o <<>> = e /\ Joined(e) \o <<>> = Joined(e) /\ <<>> \in Seq(Names)
    BY <1>0, ConcatEmptySeq, EmptySeq
  <2> QED
    BY <2>1, JoinedEmpty
<1>2. ASSUME NEW r \in Seq(Names), NEW w \in Names, r \in X PROVE Append(r, w) \in X
  <2>1. e \o Append(r, w) = Append(e \o r, w) /\ e \o r \in Seq(Names)
    BY ConcatAppend, ConcatProperties
  <2>2. PICK j \in Seq(Characters) : j = Joined(r)
    BY JoinedType
  <2>3. Joined(e \o Append(r, w)) = Join(Joined(e) \o j, w)
    BY <1>2, <2>1, <2>2, JoinedAppend
  <2>4. Joined(Append(r, w)) = Join(j, w)
    BY <2>2, JoinedAppend
  <2>5. Join(Joined(e) \o j, w) = Joined(e) \o Join(j, w)
    BY <1>0, JoinGroup
  <2>9. Append(r, w) \in Seq(Names)
    BY AppendProperties
  <2> QED
    BY <2>2, <2>3, <2>4, <2>5, <2>9
<1>3. Seq(Names) \subseteq X
  <2> HIDE DEF X
  <2> QED
    BY <1>1, <1>2, SeqInduction
<1> QED
  BY <1>3

(***************************************************************************)
(* Mountpoints.                                                            *)
(***************************************************************************)

\* What vfs_translate_mnt asks of a path and a mountpoint.
On(p, m) ==
    /\ Len(m) <= Len(p) /\ SubSeq(p, 1, Len(m)) = m
    /\ Len(p) = Len(m) \/ p[Len(m) + 1] = "/" \/ m = <<"/">>

\* Names in a row.
LEMMA Grouped ==
    ASSUME NEW s \in Seq(Names), NEW t \in Seq(Names), NEW u \in Seq(Names), NEW v,
           v = s \o t
    PROVE  v \o u = s \o (t \o u)
  BY ConcatAssociative

LEMMA RootIs ==
    /\ <<"/">> \in Seq(Characters) /\ Len(<<"/">>) = 1 /\ PathOf(<<>>) = <<"/">>
    /\ <<>> \in Seq(Proper) /\ <<>> \in Seq(Characters)
  BY Alphabet, EmptySeq DEF PathOf

\* Below a directory that is not the root, a path goes on with the names joined.
LEMMA PathBelow ==
    ASSUME NEW e \in Seq(Proper), e # <<>>, NEW r \in Seq(Proper)
    PROVE  /\ e \o r \in Seq(Proper) /\ PathOf(e \o r) = PathOf(e) \o Joined(r)
           /\ PathOf(e) \in Seq(Characters) /\ Joined(r) \in Seq(Characters)
<1>1. e \in Seq(Names) /\ r \in Seq(Names)
  BY ProperNames
<1>2. e \o r \in Seq(Proper) /\ e \o r # <<>>
  BY ConcatProperties, ConcatEqualIffEmpty
<1>3. Joined(e \o r) = Joined(e) \o Joined(r)
  BY <1>1, JoinedConcat
<1> QED
  BY <1>1, <1>2, <1>3, JoinedType DEF PathOf

\* Two normal paths: one lies on the other when its directory is below.
LEMMA OnPrefix ==
    ASSUME NEW d \in Seq(Proper), NEW e \in Seq(Proper), IsPrefix(e, d)
    PROVE  On(PathOf(d), PathOf(e))
<1>1. PICK p \in Seq(Characters) : p = PathOf(d)
  BY PathOfFacts
<1>2. Len(p) \in Nat /\ Len(p) >= 1 /\ p[1] = "/"
  BY <1>1, PathOfFacts
<1>3. CASE e = <<>>
  <2>1. PICK m \in Seq(Characters) : m = <<"/">> /\ m = PathOf(e) /\ Len(m) = 1
    BY <1>3, RootIs
  <2>2. m[1] = "/"
    BY <2>1
  <2>3. PICK n \in 0 .. Len(p) : n = 1
    BY <1>2
  <2>4. PICK t \in Seq(Characters) : t = SubSeq(p, 1, n) /\ Len(t) = n
    BY CutConcat
  <2>5. t[1] = p[1]
    <3>1. \A k \in 1 .. 1 : p[k] \in Characters
      BY <1>2, Alphabet
    <3>2. \A k \in 1 .. 1 - 1 + 1 : SubSeq(p, 1, 1)[k] = p[1 + k - 1]
      BY <3>1, SubSeqProperties
    <3> QED
      BY <2>3, <2>4, <3>2
  <2>6. t = m
    <3>1. Len(t) = Len(m) /\ \A k \in 1 .. Len(t) : t[k] = m[k]
      BY <1>2, <2>1, <2>2, <2>3, <2>4, <2>5
    <3> QED
      BY <3>1, SeqEqual
  <2> QED
    BY <1>1, <1>2, <2>1, <2>3, <2>4, <2>6 DEF On
<1>4. CASE e # <<>>
  <2>1. PICK r \in Seq(Proper) : d = e \o r
    BY PrefixIs
  <2>2. PICK m \in Seq(Characters), j \in Seq(Characters) :
           m = PathOf(e) /\ j = Joined(r) /\ p = m \o j
    BY <1>1, <1>4, <2>1, PathBelow
  <2>3. /\ Len(m) \in Nat /\ Len(j) \in Nat /\ Len(p) = Len(m) + Len(j)
        /\ \A k \in 1 .. Len(m) + Len(j) : p[k] = IF k <= Len(m) THEN m[k] ELSE j[k - Len(m)]
    BY <2>2, ConcatProperties, LenProperties
  <2>4. SubSeq(p, 1, Len(m)) = m
    BY <2>2, ConcatCut
  <2>5. CASE r = <<>>
    <3>1. Len(j) = 0
      BY <2>2, <2>5, JoinedEmpty, EmptySeq
    <3> QED
      BY <1>1, <2>2, <2>3, <2>4, <3>1 DEF On
  <2>6. CASE r # <<>>
    <3>1. Len(j) >= 2 /\ j[1] = "/"
      BY <2>2, <2>6, JoinedSlash
    <3>2. Len(m) + 1 \in 1 .. Len(m) + Len(j) /\ ~(Len(m) + 1 <= Len(m)) /\ (Len(m) + 1) - Len(m) = 1
      BY <2>3, <3>1
    <3>3. p[Len(m) + 1] = "/"
      BY <2>3, <3>1, <3>2
    <3> QED
      BY <1>1, <2>2, <2>3, <2>4, <3>3 DEF On
  <2> QED
    BY <2>5, <2>6
<1> QED
  BY <1>3, <1>4

LEMMA PrefixOn ==
    ASSUME NEW d \in Seq(Proper), NEW e \in Seq(Proper), On(PathOf(d), PathOf(e))
    PROVE  IsPrefix(e, d)
<1>1. PICK p \in Seq(Characters) : p = PathOf(d)
  BY PathOfFacts
<1>2. PICK m \in Seq(Characters) : m = PathOf(e)
  BY PathOfFacts
<1>3. Len(p) \in Nat /\ Len(m) \in Nat /\ Len(m) <= Len(p) /\ SubSeq(p, 1, Len(m)) = m
  BY <1>1, <1>2, LenProperties DEF On
<1>4. CASE e = <<>>
  <2>1. <<>> \o d = d
    BY ConcatEmptySeq
  <2> QED
    BY <1>4, <2>1, PrefixIs
<1>5. CASE e # <<>> /\ Len(p) = Len(m)
  <2>1. p = m
    BY <1>3, <1>5, SubSeqFull
  <2>2. d = e
    BY <1>1, <1>2, <2>1, RoundTrip
  <2>3. d = e \o <<>> /\ <<>> \in Seq(Proper)
    BY <2>2, RootIs, ConcatEmptySeq
  <2> QED
    BY <2>3, PrefixIs
<1>6. CASE e # <<>> /\ Len(p) # Len(m)
  <2>1. Len(m) >= 2 /\ Len(m) + 1 <= Len(p)
    BY <1>2, <1>3, <1>6, PathOfFacts
  <2>2. p[Len(m) + 1] = "/"
    <3>1. m # <<"/">>
      <4>1. m = <<"/">> => Len(m) = 1
        BY RootIs
      <4> QED
        BY <1>3, <2>1, <4>1
    <3> QED
      BY <1>1, <1>2, <1>6, <3>1 DEF On
  <2>3. d # <<>>
    <3>1. d = <<>> => Len(p) = 1
      BY <1>1, RootIs
    <3> QED
      BY <1>3, <2>1, <3>1
  <2>4. PICK n \in 0 .. Len(p) : n = Len(m) + 1
    BY <1>3, <2>1
  <2>5. PICK a \in Seq(Characters), t \in Seq(Characters) : a = SubSeq(p, 1, n) /\ p = a \o t
    <3>1. /\ SubSeq(p, 1, n) \in Seq(Characters) /\ SubSeq(p, n + 1, Len(p)) \in Seq(Characters)
          /\ p = SubSeq(p, 1, n) \o SubSeq(p, n + 1, Len(p))
      BY CutConcat
    <3> QED
      BY <3>1
  <2>6. a = Append(m, "/")
    <3>1. 1 \in 1 .. Len(p) /\ n \in 1 .. Len(p) /\ n - 1 = Len(m)
      BY <1>3, <2>1, <2>4
    <3>2. a = SubSeq(p, 1, n - 1) \o <<p[n]>>
      BY <2>5, <3>1, SubSeqRecursiveSecond
    <3>3. a = m \o <<"/">>
      BY <1>3, <2>2, <2>4, <3>1, <3>2
    <3> QED
      BY <3>3, Alphabet, AppendIsConcat
  <2>7. Words(p) = Words(m) \o Words(t)
    <3>1. p = Apart(m, t)
      BY <2>5, <2>6 DEF Apart
    <3> QED
      BY <3>1, WordsApart
  <2>8. Words(p) = << <<>> >> \o d /\ Words(m) = << <<>> >> \o e
    BY <1>1, <1>2, <1>6, <2>3, WordsJoined, ProperNames DEF PathOf
  <2>9. PICK b \in Seq(Names) : b = << <<>> >>
    <3>1. << <<>> >> \in Seq(Names)
      BY EmptySeq DEF Names
    <3> QED
      BY <3>1
  <2>10. PICK w \in Seq(Names) : w = Words(t)
    BY WordsType DEF Lists
  <2>11. d \in Seq(Names) /\ e \in Seq(Names)
    BY ProperNames
  <2>12. Words(m) \o w = b \o (e \o w)
    BY <2>8, <2>9, <2>11, Grouped
  <2>13. b \o d = b \o (e \o w) /\ e \o w \in Seq(Names)
    BY <2>7, <2>8, <2>9, <2>10, <2>11, <2>12, ConcatProperties
  <2>14. d = e \o w
    BY <2>11, <2>13, Cancel
  <2> QED
    BY <2>11, <2>14, PrefixIs
<1> QED
  BY <1>4, <1>5, <1>6

\* What remains of a path leads through the rest of the names.
LEMMA RestOf ==
    ASSUME NEW d \in Seq(Proper), NEW e \in Seq(Proper), IsPrefix(e, d)
    PROVE  Walked(Words(SubSeq(PathOf(d), Len(PathOf(e)) + 1, Len(PathOf(d)))))
              = SubSeq(d, Len(e) + 1, Len(d))
<1>1. PICK r \in Seq(Proper) : d = e \o r
  BY PrefixIs
<1>2. SubSeq(d, Len(e) + 1, Len(d)) = r
  BY <1>1, ConcatCut
<1>3. CASE e # <<>>
  <2>1. PICK m \in Seq(Characters), j \in Seq(Characters) :
           m = PathOf(e) /\ j = Joined(r) /\ PathOf(d) = m \o j
    BY <1>1, <1>3, PathBelow
  <2>2. SubSeq(m \o j, Len(m) + 1, Len(m \o j)) = j
    BY ConcatCut
  <2> QED
    BY <1>2, <2>1, <2>2, RoundTrip
<1>4. CASE e = <<>>
  <2>1. d = r
    BY <1>1, <1>4, ConcatEmptySeq
  <2>2. PICK p \in Seq(Characters) : p = PathOf(d)
    BY PathOfFacts
  <2>3. Len(p) \in Nat /\ Len(p) >= 1 /\ p[1] = "/"
    BY <2>2, PathOfFacts
  <2>4. PICK n \in 0 .. Len(p) : n = 1
    BY <2>3
  <2>5. PICK a \in Seq(Characters), t \in Seq(Characters) :
           a = SubSeq(p, 1, n) /\ t = SubSeq(p, n + 1, Len(p)) /\ p = a \o t
    <3>1. /\ SubSeq(p, 1, n) \in Seq(Characters) /\ SubSeq(p, n + 1, Len(p)) \in Seq(Characters)
          /\ p = SubSeq(p, 1, n) \o SubSeq(p, n + 1, Len(p))
      BY CutConcat
    <3> QED
      BY <3>1
  <2>6. SubSeq(PathOf(d), Len(PathOf(e)) + 1, Len(PathOf(d))) = t
    BY <1>4, <2>2, <2>4, <2>5, RootIs
  <2>7. a = Append(<<>>, "/")
    <3>1. 1 \in 1 .. Len(p) /\ 1 \in 1 .. Len(p)
      BY <2>3
    <3>2. SubSeq(p, 1, 1) = SubSeq(p, 1, 1 - 1) \o <<p[1]>>
      BY <3>1, SubSeqRecursiveSecond
    <3>3. SubSeq(p, 1, 1 - 1) = <<>>
      BY SubSeqEmpty
    <3>4. <<>> \o <<"/">> = <<"/">>
      BY RootIs, ConcatEmptySeq
    <3>5. <<"/">> = Append(<<>>, "/")
      OBVIOUS
    <3> QED
      BY <2>3, <2>4, <2>5, <3>2, <3>3, <3>4, <3>5
  <2>8. CASE d = <<>>
    <3>1. Len(p) = 1 /\ Len(p) < n + 1
      <4>1. Len(p) = 1
        BY <2>2, <2>8, RootIs
      <4> QED
        BY <2>4, <4>1
    <3>2. t = <<>>
      BY <2>4, <2>5, <3>1, SubSeqEmpty
    <3>3. Walked(Words(<<>>)) = <<>>
      BY RootIs, RoundTrip, JoinedEmpty
    <3> QED
      BY <1>2, <2>1, <2>6, <2>8, <3>2, <3>3
  <2>9. CASE d # <<>>
    <3>1. Words(p) = Words(<<>>) \o Words(t)
      <4>1. p = Apart(<<>>, t)
        BY <2>5, <2>7 DEF Apart
      <4> QED
        BY <4>1, RootIs, WordsApart
    <3>2. Words(p) = << <<>> >> \o d
      BY <2>2, <2>9, WordsJoined, ProperNames DEF PathOf
    <3>3. PICK b \in Seq(Names) : b = << <<>> >>
      <4>1. << <<>> >> \in Seq(Names)
        BY EmptySeq DEF Names
      <4> QED
        BY <4>1
    <3>4. PICK w \in Seq(Names) : w = Words(t)
      BY WordsType DEF Lists
    <3>5. b \o w = b \o d /\ d \in Seq(Names)
      BY <3>1, <3>2, <3>3, <3>4, WordsEmpty, ProperNames
    <3>6. w = d
      BY <3>5, Cancel
    <3> QED
      BY <1>2, <2>1, <2>6, <3>4, <3>6, WalkedProper
  <2> QED
    BY <2>8, <2>9
<1> QED
  BY <1>3, <1>4

LEMMA Foremost ==
    ASSUME NEW S, NEW s \in Seq(S), NEW t \in Seq(S), NEW u \in Seq(S), NEW v, v = s \o t
    PROVE  SubSeq(v \o u, 1, Len(s)) = s
<1>1. v \o u = s \o (t \o u)
  BY ConcatAssociative
<1>2. PICK x \in Seq(S) : x = t \o u
  BY ConcatProperties
<1>3. SubSeq(s \o x, 1, Len(s)) = s
  BY ConcatCut
<1> QED
  BY <1>1, <1>2, <1>3

\* Of two mountpoints on the way, the one with the longer path lies deeper.
LEMMA Deeper ==
    ASSUME NEW d \in Seq(Proper), NEW e \in Seq(Proper), NEW f \in Seq(Proper),
           IsPrefix(e, d), IsPrefix(f, d), Len(PathOf(f)) <= Len(PathOf(e))
    PROVE  Len(f) <= Len(e)
<1> SUFFICES ASSUME ~(Len(f) <= Len(e)) PROVE FALSE
  OBVIOUS
<1>1. Len(d) \in Nat /\ Len(e) \in Nat /\ Len(f) \in Nat
  BY LenProperties
<1>2. Len(f) \in 0 .. Len(d) /\ SubSeq(d, 1, Len(f)) = f /\ SubSeq(d, 1, Len(e)) = e
  BY <1>1, SubSeqFull DEF IsPrefix
<1>3. PICK n \in 0 .. Len(f) : n = Len(e)
  BY <1>1
<1>4. PICK a \in Seq(Proper), r \in Seq(Proper) : a = SubSeq(f, 1, n) /\ f = a \o r /\ Len(a) = n
  <2>1. /\ SubSeq(f, 1, n) \in Seq(Proper) /\ SubSeq(f, n + 1, Len(f)) \in Seq(Proper)
        /\ Len(SubSeq(f, 1, n)) = n
        /\ f = SubSeq(f, 1, n) \o SubSeq(f, n + 1, Len(f))
    BY CutConcat
  <2> QED
    BY <2>1
<1>5. a = e
  <2>1. PICK q \in Seq(Proper) : d = f \o q
    BY PrefixIs
  <2>4. SubSeq(d, 1, Len(a)) = a
    BY <1>4, <2>1, Foremost
  <2> QED
    BY <1>2, <1>3, <1>4, <2>4
<1>6. r # <<>>
  <2>1. Len(f) = Len(a) + Len(r)
    BY <1>4, ConcatProperties
  <2> QED
    BY <1>1, <1>3, <1>4, <2>1, EmptySeq
<1>7. Len(Joined(r)) \in Nat /\ Len(Joined(r)) >= 2
  BY <1>6, JoinedSlash
<1>8. Len(PathOf(e)) \in Nat
  BY PathOfFacts
<1>9. CASE e = <<>>
  <2>1. Len(PathOf(e)) = 1
    BY <1>9, RootIs
  <2>2. f # <<>>
    BY <1>1, EmptySeq
  <2>3. Len(PathOf(f)) \in Nat /\ Len(PathOf(f)) >= 2
    BY <2>2, PathOfFacts
  <2> QED
    BY <2>1, <2>3
<1>10. CASE e # <<>>
  <2>1. PICK m \in Seq(Characters), j \in Seq(Characters) :
           m = PathOf(e) /\ j = Joined(r) /\ PathOf(f) = m \o j
    <3>1. /\ PathOf(e \o r) = PathOf(e) \o Joined(r)
          /\ PathOf(e) \in Seq(Characters) /\ Joined(r) \in Seq(Characters)
      BY <1>10, PathBelow
    <3> QED
      BY <1>4, <1>5, <3>1
  <2>2. Len(PathOf(f)) = Len(m) + Len(j)
    BY <2>1, ConcatProperties
  <2> QED
    BY <1>7, <1>8, <2>1, <2>2
<1> QED
  BY <1>9, <1>10

\* Of finitely many there is a best: the longest, and the first of several.
Ahead(f, x, y) == f[x] > f[y] \/ (f[x] = f[y] /\ x <= y)

LEMMA BestOf ==
    ASSUME NEW n \in Nat, NEW f, \A x \in 1 .. n : f[x] \in Nat,
           NEW S, S \subseteq 1 .. n, S # {}
    PROVE  \E x \in S : \A y \in S : Ahead(f, x, y)
<1> DEFINE Q(k) == (\A y \in S : y > k) \/ \E x \in S : \A y \in S : y <= k => Ahead(f, x, y)
           X == {k \in 0 .. n : Q(k)}
<1>1. Q(0)
  OBVIOUS
<1>2. ASSUME NEW k \in 0 .. n - 1, Q(k) PROVE Q(k + 1)
  <2>1. \A y \in S : y \in 1 .. n /\ f[y] \in Nat /\ (y <= k + 1 => y <= k \/ y = k + 1)
    OBVIOUS
  <2>2. CASE k + 1 \notin S
    BY <1>2, <2>1, <2>2
  <2>3. CASE k + 1 \in S /\ \A y \in S : y > k
    <3>1. \A y \in S : y <= k + 1 => Ahead(f, k + 1, y)
      BY <2>1, <2>3 DEF Ahead
    <3> QED
      BY <2>3, <3>1
  <2>4. CASE k + 1 \in S /\ \E x \in S : \A y \in S : y <= k => Ahead(f, x, y)
    <3>1. PICK x \in S : \A y \in S : y <= k => Ahead(f, x, y)
      BY <2>4
    <3>2. f[x] \in Nat /\ f[k + 1] \in Nat /\ x \in 1 .. n
      BY <2>1, <2>4
    <3>3. CASE f[k + 1] > f[x]
      <4>1. \A y \in S : y <= k + 1 => Ahead(f, k + 1, y)
        BY <2>1, <3>1, <3>2, <3>3 DEF Ahead
      <4> QED
        BY <2>4, <4>1
    <3>4. CASE ~(f[k + 1] > f[x]) /\ x <= k + 1
      <4>1. \A y \in S : y <= k + 1 => Ahead(f, x, y)
        BY <2>1, <3>1, <3>2, <3>4 DEF Ahead
      <4> QED
        BY <4>1
    <3>5. CASE ~(f[k + 1] > f[x]) /\ x > k + 1
      <4>1. \A y \in S : y <= k => f[y] <= f[x]
        BY <2>1, <3>1, <3>2 DEF Ahead
      <4>2. CASE f[x] > f[k + 1]
        <5>1. \A y \in S : y <= k + 1 => Ahead(f, x, y)
          BY <2>1, <3>1, <3>2, <4>2 DEF Ahead
        <5> QED
          BY <5>1
      <4>3. CASE f[x] = f[k + 1]
        <5>1. \A y \in S : y <= k => f[y] < f[x]
          BY <2>1, <3>1, <3>2, <3>5 DEF Ahead
        <5>2. \A y \in S : y <= k + 1 => Ahead(f, k + 1, y)
          BY <2>1, <3>2, <4>3, <5>1 DEF Ahead
        <5> QED
          BY <2>4, <5>2
      <4> QED
        BY <3>2, <3>5, <4>2, <4>3
    <3> QED
      BY <3>2, <3>3, <3>4, <3>5
  <2> QED
    BY <1>2, <2>2, <2>3, <2>4
<1>3. 0 .. n \subseteq X
  <2> HIDE DEF Q
  <2>1. 0 \in X /\ \A k \in 0 .. n - 1 : k \in X => k + 1 \in X
    BY <1>1, <1>2
  <2> HIDE DEF X
  <2> QED
    BY <2>1, Induction
<1>4. Q(n)
  <2> HIDE DEF Q
  <2> QED
    BY <1>3
<1>5. ~(\A y \in S : y > n)
  <2>1. PICK y \in S : y \in 1 .. n
    OBVIOUS
  <2> QED
    BY <2>1
<1>6. PICK x \in S : \A y \in S : y <= n => Ahead(f, x, y)
  BY <1>4, <1>5
<1>7. \A y \in S : y <= n
  OBVIOUS
<1> QED
  BY <1>6, <1>7

Matching(p) == {x \in DOMAIN mountpoints : Matches(p, x)}

\* The search over all mountpoints finds the longest that matches.
LEMMA TranslateIs ==
    ASSUME NEW p, mountpoints \in Seq(MountNames)
    PROVE  /\ Matching(p) = {} => vfs_translate_mnt(p) = FAILURE
           /\ Matching(p) # {} =>
                 /\ vfs_translate_mnt(p) \in Matching(p)
                 /\ \A y \in Matching(p) :
                       Len(mountpoints[y]) <= Len(mountpoints[vfs_translate_mnt(p)])
<1>1. PICK n \in Nat : n = Len(mountpoints) /\ DOMAIN mountpoints = 1 .. n
  BY LenProperties
<1>2. ASSUME NEW x \in 1 .. n PROVE Len(mountpoints[x]) \in Nat
  <2>1. mountpoints[x] \in MountNames
    BY <1>1, ElementOfSeq
  <2>2. mountpoints[x] \in Seq(Characters)
    BY <2>1, PathsAssumption
  <2> QED
    BY <2>2, LenProperties
<1> DEFINE f == [x \in 1 .. n |-> Len(mountpoints[x])]
           B(x, y) == \/ Len(mountpoints[x]) > Len(mountpoints[y])
                      \/ Len(mountpoints[x]) = Len(mountpoints[y]) /\ x <= y
           best == CHOOSE x \in Matching(p) : \A y \in Matching(p) : B(x, y)
<1>3. vfs_translate_mnt(p) = IF Matching(p) = {} THEN FAILURE ELSE best
  <2> HIDE DEF Matches
  <2> QED
    BY DEF vfs_translate_mnt, Matching
<1>4. Matching(p) \subseteq 1 .. n
  BY <1>1 DEF Matching
<1>5. ASSUME Matching(p) # {}
      PROVE  /\ best \in Matching(p)
             /\ \A y \in Matching(p) : Len(mountpoints[y]) <= Len(mountpoints[best])
  <2>1. PICK S : S = Matching(p)
    OBVIOUS
  <2>2. \A x \in 1 .. n : f[x] \in Nat
    BY <1>2
  <2>3. \E x \in S : \A y \in S : Ahead(f, x, y)
    <3> HIDE DEF f
    <3> QED
      BY <1>4, <1>5, <2>1, <2>2, BestOf
  <2>4. \A x, y \in S : Ahead(f, x, y) <=> B(x, y)
    BY <1>4, <2>1 DEF Ahead
  <2>5. \E x \in S : \A y \in S : B(x, y)
    BY <2>3, <2>4
  <2>6. best \in S /\ \A y \in S : B(best, y)
    <3> HIDE DEF B
    <3> QED
      BY <2>1, <2>5
  <2>7. best \in 1 .. n /\ \A y \in S : y \in 1 .. n
    BY <1>4, <2>1, <2>6
  <2> HIDE DEF best
  <2>8. Len(mountpoints[best]) \in Nat /\ \A y \in S : Len(mountpoints[y]) \in Nat
    BY <1>2, <2>7
  <2> QED
    BY <2>1, <2>6, <2>8
<1> HIDE DEF best
<1> QED
  BY <1>3, <1>5

\* A mountpoint matches a path in normal form when the directories it names
\* are the first of the path's.
LEMMA MatchIs ==
    ASSUME mountpoints \in Seq(MountNames), NEW g \in Seq(Proper), NEW x \in DOMAIN mountpoints
    PROVE  /\ Walked(Words(mountpoints[x])) \in Seq(Proper)
           /\ mountpoints[x] = PathOf(Walked(Words(mountpoints[x])))
           /\ Matches(PathOf(g), x) <=> IsPrefix(Walked(Words(mountpoints[x])), g)
<1>1. x \in 1 .. Len(mountpoints)
  BY LenProperties
<1>2. PICK m \in MountNames : m = mountpoints[x]
  BY <1>1, ElementOfSeq
<1>3. m \in Seq(Characters) /\ m = PathOf(Walked(Words(m)))
  BY PathsAssumption, NormalAssumption DEF Normal
<1>4. Words(m) \in Seq(Names)
  BY <1>3, WordsType DEF Lists
<1>5. PICK e \in Seq(Proper) : e = Walked(Words(m))
  BY <1>4, WalkedType
<1>6. Matches(PathOf(g), x) <=> On(PathOf(g), m)
  BY <1>2 DEF Matches, On
<1>7. m = PathOf(e)
  BY <1>3, <1>5
<1>8. On(PathOf(g), PathOf(e)) <=> IsPrefix(e, g)
  BY OnPrefix, PrefixOn
<1> QED
  BY <1>2, <1>5, <1>6, <1>7, <1>8

LEMMA MountFound ==
    ASSUME PointersInv, TextInv
    PROVE  MountRight
<1> SUFFICES ASSUME at = "done", Meaningful PROVE MountRight
  BY DEF MountRight
<1>1. PICK g \in Seq(Proper) : Result = PathOf(g)
  <2>1. BufferInv /\ Rooted
    BY MeaningfulRooted DEF TextInv
  <2> QED
    BY <2>1, ResultIs
<1>2. Walked(Words(Result)) = g
  BY <1>1, RoundTrip
<1>3. mountpoints \in Seq(MountNames)
  BY DEF PointersInv
<1> DEFINE E(x) == Walked(Words(mountpoints[x]))
           M == vfs_translate_mnt(Result)
           S == Matching(Result)
<1>4. ASSUME NEW x \in DOMAIN mountpoints
      PROVE  /\ E(x) \in Seq(Proper) /\ mountpoints[x] = PathOf(E(x))
             /\ x \in S <=> IsPrefix(E(x), g)
  BY <1>1, <1>3, MatchIs DEF Matching
<1>5. S \subseteq DOMAIN mountpoints
  BY DEF Matching
<1>6. /\ S = {} => M = FAILURE
      /\ S # {} => M \in S /\ \A y \in S : Len(mountpoints[y]) <= Len(mountpoints[M])
  BY <1>3, TranslateIs
<1>7. LocalPath(Result) = SubSeq(Result, Len(mountpoints[M]) + 1, Len(Result))
  BY DEF LocalPath
<1> HIDE DEF M, S, E
<1>8. CASE \A x \in DOMAIN mountpoints : ~IsPrefix(E(x), g)
  <2>1. M = FAILURE
    BY <1>4, <1>5, <1>6, <1>8
  <2> QED
    BY <1>2, <1>8, <2>1 DEF MountRight, M, E
<1>9. CASE ~(\A x \in DOMAIN mountpoints : ~IsPrefix(E(x), g))
  <2>1. M \in S /\ M \in DOMAIN mountpoints
    BY <1>4, <1>5, <1>6, <1>9
  <2>2. PICK e \in Seq(Proper) : e = E(M) /\ mountpoints[M] = PathOf(e) /\ IsPrefix(e, g)
    BY <1>4, <2>1
  <2>3. ASSUME NEW x \in DOMAIN mountpoints, IsPrefix(E(x), g) PROVE Len(E(x)) <= Len(e)
    <3>1. PICK h \in Seq(Proper) : h = E(x) /\ mountpoints[x] = PathOf(h)
      BY <1>4
    <3>2. x \in S
      BY <1>4, <2>3
    <3>3. Len(PathOf(h)) <= Len(PathOf(e))
      BY <1>6, <2>1, <2>2, <3>1, <3>2
    <3> QED
      BY <2>2, <2>3, <3>1, <3>3, Deeper
  <2>4. Walked(Words(LocalPath(Result))) = SubSeq(g, Len(e) + 1, Len(g))
    BY <1>1, <1>7, <2>2, RestOf
  <2> QED
    BY <1>2, <1>9, <2>2, <2>3, <2>4 DEF MountRight, M, E
<1> QED
  BY <1>8, <1>9

\* vfs_translate_mnt takes every path that is absolute or relative to a working
\* directory in normal form, once vfs_get_absolute_path has resolved it, to the
\* file system mounted deepest on its way, with the rest of the names.
THEOREM PathsMount ==
    ASSUME Roomy, ~Stale
    PROVE  PathsSpec => []MountRight
<1>1. PathsSpec => [](PointersInv /\ TextInv)
  BY PathsInvariant
<1>2. PointersInv /\ TextInv => MountRight
  BY MountFound
<1> QED
  BY <1>1, <1>2, PTL
=============================================================================
