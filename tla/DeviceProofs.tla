---------------------------- MODULE DeviceProofs ----------------------------
(* Proofs about the devices, each by itself: Granules, for every disk, every  *)
(* placing of the string pool, every set of files and every fault; Speaker,   *)
(* for any tunes, any length of beep and any frame source; Console, for a     *)
(* ring and a panel of any size and any number of messages.                   *)
EXTENDS Granules, Speaker, Console,
        FiniteSetTheorems, SequenceTheorems, WellFoundedInduction, TLAPS

-----------------------------------------------------------------------------
(* Granules. *)

(* Arithmetic *)

LEMMA DivBelow ==
  ASSUME NEW a \in Nat, NEW b \in Nat \ {0}, NEW c \in Nat, a < c * b
  PROVE  a \div b \in Nat /\ a \div b < c
<1>1. b * (a \div b) <= a /\ a \div b \in Nat
  BY SMT
<1>2. \A q \in Nat : q >= c => b * q >= b * c
  BY SMT
<1> QED
  BY <1>1, <1>2, SMT

LEMMA DivDown ==
  ASSUME NEW a \in Nat, NEW b \in Nat \ {0}
  PROVE  a \div b \in Nat /\ b * (a \div b) <= a
  BY SMT

LEMMA Scale ==
  ASSUME NEW b \in Nat \ {0}, NEW x \in Nat, NEW y \in Nat, x <= y
  PROVE  b * x <= b * y
  BY SMT

\* A set of numbers that is not empty has a least member: what Lowest finds.
LEMMA LowestIsLowest ==
  ASSUME NEW S, S \subseteq Nat, S # {}
  PROVE  Lowest(S) \in S /\ \A y \in S : Lowest(S) <= y
<1> DEFINE R == {ss \in Nat \X Nat : ss[1] < ss[2]}
<1>1. IsWellFoundedOn(R, Nat)
  BY NatLessThanWellFounded DEF OpToRel
<1> HIDE DEF R
<1>2. PICK x \in S : \A y \in S : ~(<<y, x>> \in R)
  BY <1>1, WFMin
<1>3. \A y \in S : x <= y
  <2> SUFFICES ASSUME NEW y \in S PROVE x <= y
    OBVIOUS
  <2>1. x \in Nat /\ y \in Nat
    OBVIOUS
  <2>2. ~(y < x)
    BY <1>2, <2>1 DEF R
  <2> QED
    BY <2>1, <2>2
<1> QED
  BY <1>3 DEF Lowest

-----------------------------------------------------------------------------
(* What the constants say *)

LEMMA Constants ==
  /\ Gran \subseteq 0 .. 190 /\ PoolGran \in Gran /\ None = 255
  /\ None \notin Gran /\ None \in 0 .. 255
  /\ GRAN_SECS \in 1 .. 62 /\ SEC_SIZE \in Nat \ {0} /\ GRAN_BYTES \in Nat \ {0}
  /\ PoolSecs \in 1 .. GRAN_SECS /\ Lens \subseteq Nat \ {0} /\ Slots \in Nat \ {0}
  /\ \A k \in 0 .. 62 : Last(k) \in 192 .. 254
<1>1. GRAN_BYTES \in Nat \ {0}
  BY GranulesAssumption, SMT DEF GRAN_BYTES
<1>2. /\ Gran \subseteq 0 .. 190 /\ None = 255 /\ None \notin Gran /\ None \in 0 .. 255
      /\ \A k \in 0 .. 62 : Last(k) \in 192 .. 254
  BY GranulesAssumption, SMT DEF Gran, None, Last
<1> QED
  BY <1>1, <1>2, GranulesAssumption

LEMMA PoolIsLast == Last(PoolSecs) \in 192 .. 254
<1>1. PoolSecs \in 0 .. 62
  BY Constants, SMT
<1> QED
  BY <1>1, Constants

-----------------------------------------------------------------------------
(* Tables that leave the pool alone *)

Tables == [Gran -> 0 .. 255]

\* The pool's granule is the last of its chain, and no link leads to it.
Apart(t) == t \in Tables /\ t[PoolGran] = Last(PoolSecs) /\ \A g \in Gran : t[g] # PoolGran

\* A link leads to a granule.
LEMMA LinkLeads ==
  ASSUME NEW t \in Tables, NEW g \in Gran, Links(t, g)
  PROVE  t[g] \in Gran
<1>1. t[g] \in 0 .. 255 /\ t[g] < NUM_GRAN /\ NUM_GRAN \in Nat
  BY GranulesAssumption, SMT DEF Tables, Links
<1> QED
  BY <1>1, SMT DEF Gran

\* No chain that starts elsewhere reaches the pool: the other granules keep to
\* their links.
LEMMA ChainsMissThePool ==
  ASSUME NEW t, Apart(t), NEW g \in Gran \ {PoolGran}
  PROVE  PoolGran \notin Chain(t, g)
<1> DEFINE Others == Gran \ {PoolGran}
<1>1. \A x \in Others : Links(t, x) => t[x] \in Others
  BY LinkLeads DEF Apart
<1>2. Others \in {S \in SUBSET Gran : g \in S /\ \A x \in S : Links(t, x) => t[x] \in S}
  BY <1>1
<1> QED
  BY <1>2 DEF Chain

\* Freeing the chain of a file leaves the table apart from the pool.
LEMMA FreedIsApart ==
  ASSUME Apart(Table), NEW old \in 0 .. 255, old # PoolGran
  PROVE  Apart(Freed(old))
<1>1. PoolGran \notin OldChain(old)
  BY ChainsMissThePool DEF OldChain
<1>2. \A g \in Gran : Freed(old)[g] = IF g \in OldChain(old) THEN None ELSE Table[g]
  BY DEF Freed
<1>3. Freed(old) \in Tables
  BY Constants DEF Freed, Apart, Tables
<1> QED
  BY <1>1, <1>2, <1>3, Constants DEF Apart

LEMMA GranIsFinite == IsFiniteSet(Gran) /\ \A S \in SUBSET Gran : IsFiniteSet(S)
<1>1. IsFiniteSet(Gran)
  BY FS_Interval, GranulesAssumption, SMT DEF Gran
<1> QED
  BY <1>1, FS_Subset

\* Only free granules are taken, and the pool's is not free.
LEMMA TakenAreBlank ==
  ASSUME NEW t, Apart(t), NEW len \in Lens
  PROVE  Taken(t, len) \subseteq Gran \ {PoolGran}
<1>1. PoolGran \notin Blanks(t)
  BY PoolIsLast, Constants, SMT DEF Blanks, Apart
<1> QED
  BY <1>1 DEF Taken, Blanks

\* What a granule of a new file is given: at least a byte, at most its size.
LEMMA ChunkFits ==
  ASSUME NEW t, Apart(t), NEW len \in Lens, NEW g \in Taken(t, len)
  PROVE  Chunk(Taken(t, len), g, len) \in 1 .. GRAN_BYTES
<1> DEFINE S == Taken(t, len)
           before == {h \in S : h < g}
           n == Cardinality(before)
           whole == (len - 1) \div GRAN_BYTES
<1>1. /\ S \subseteq Blanks(t) /\ Blanks(t) \subseteq Gran
      /\ Cardinality({h \in Blanks(t) : h < g}) < Need(len)
  BY DEF Taken, Blanks
<1>2. /\ before \subseteq {h \in Blanks(t) : h < g}
      /\ IsFiniteSet({h \in Blanks(t) : h < g}) /\ IsFiniteSet(before)
  <2>1. before \subseteq Gran /\ {h \in Blanks(t) : h < g} \subseteq Gran
    BY <1>1
  <2> QED
    BY <1>1, <2>1, GranIsFinite
<1>3. n \in Nat /\ n <= Cardinality({h \in Blanks(t) : h < g})
      /\ Cardinality({h \in Blanks(t) : h < g}) \in Nat
  BY <1>2, FS_Subset, FS_CardinalityType
<1>4. len - 1 \in Nat /\ GRAN_BYTES \in Nat \ {0} /\ len \in Nat
  BY Constants, SMT
<1>5. whole \in Nat /\ GRAN_BYTES * whole <= len - 1
  BY <1>4, DivDown
<1> HIDE DEF n, whole
<1>6. n <= whole
  <2>1. Need(len) = whole + 1
    BY DEF Need, whole
  <2> QED
    BY <1>1, <1>3, <1>5, <2>1, SMT
<1>7. GRAN_BYTES * n <= GRAN_BYTES * whole
  BY <1>3, <1>4, <1>5, <1>6, Scale
<1>8. GRAN_BYTES * n \in Nat /\ GRAN_BYTES * whole \in Nat
  BY <1>3, <1>4, <1>5, SMT
<1>9. Chunk(S, g, len) = IF len - GRAN_BYTES * n > GRAN_BYTES THEN GRAN_BYTES
                         ELSE len - GRAN_BYTES * n
  BY DEF Chunk, n
<1> DEFINE taken == GRAN_BYTES * n
<1>10. taken \in Nat /\ taken <= len - 1
  BY <1>4, <1>5, <1>7, <1>8, SMT
<1>11. Chunk(S, g, len) = IF len - taken > GRAN_BYTES THEN GRAN_BYTES ELSE len - taken
  BY <1>9
<1> HIDE DEF taken, S
<1>12. Chunk(S, g, len) \in 1 .. GRAN_BYTES
  BY <1>4, <1>10, <1>11, SMT
<1> QED
  BY <1>12 DEF S

\* So the last granule of a file counts one to GRAN_SECS sectors.
LEMMA LastSectors ==
  ASSUME NEW c \in 1 .. GRAN_BYTES
  PROVE  (c - 1) \div SEC_SIZE + 1 \in 1 .. GRAN_SECS
<1>1. /\ c - 1 \in Nat /\ SEC_SIZE \in Nat \ {0} /\ GRAN_SECS \in Nat
      /\ c - 1 < GRAN_SECS * SEC_SIZE
  BY Constants, SMT DEF GRAN_BYTES
<1>2. (c - 1) \div SEC_SIZE \in Nat /\ (c - 1) \div SEC_SIZE < GRAN_SECS
  BY <1>1, DivBelow
<1> QED
  BY <1>1, <1>2, SMT

\* A new file's granules are linked among themselves: the table stays a table,
\* apart from the pool.
LEMMA AllocatedIsApart ==
  ASSUME NEW t, Apart(t), NEW len \in Lens
  PROVE  Apart(Allocated(t, len))
<1> DEFINE S == Taken(t, len)
<1>1. S \subseteq Gran \ {PoolGran}
  BY TakenAreBlank
<1>2. ASSUME NEW g \in Gran
      PROVE  Allocated(t, len)[g] \in 0 .. 255 /\ Allocated(t, len)[g] # PoolGran
  <2>1. CASE g \notin S
    BY <1>2, <2>1 DEF Allocated, Apart, Tables
  <2>2. CASE g \in S /\ \E h \in S : Follows(S, g, h)
    <3>1. Allocated(t, len)[g] \in S
      BY <1>2, <2>2 DEF Allocated
    <3>2. Gran \subseteq 0 .. 255
      BY Constants, SMT
    <3> QED
      BY <1>1, <3>1, <3>2
  <2>3. CASE g \in S /\ ~\E h \in S : Follows(S, g, h)
    <3>1. Allocated(t, len)[g] = Last((Chunk(S, g, len) - 1) \div SEC_SIZE + 1)
      BY <1>2, <2>3 DEF Allocated
    <3>2. (Chunk(S, g, len) - 1) \div SEC_SIZE + 1 \in 1 .. GRAN_SECS
      BY <2>3, ChunkFits, LastSectors
    <3>3. 1 .. GRAN_SECS \subseteq 0 .. 62
      BY Constants, SMT
    <3>4. Allocated(t, len)[g] \in 192 .. 254
      BY <3>1, <3>2, <3>3, Constants
    <3> QED
      BY <3>4, Constants, SMT
  <2> QED
    BY <2>1, <2>2, <2>3
<1>3. Allocated(t, len) = [g \in Gran |-> Allocated(t, len)[g]]
  BY DEF Allocated
<1>4. Allocated(t, len) \in Tables
  BY <1>2, <1>3 DEF Tables
<1>5. Allocated(t, len)[PoolGran] = Last(PoolSecs)
  BY <1>1, Constants DEF Allocated, Apart
<1> QED
  BY <1>2, <1>4, <1>5 DEF Apart

-----------------------------------------------------------------------------
(* The invariant, part by part *)

Bytes == 0 .. 255

JobOK ==
    /\ job \in [pc : {"idle", "data", "fat", "entry"}, name : Names \cup {"free"},
                len : Nat, id : Nat, slot : Nat, first : Bytes, gran : Bytes,
                sec : Nat, k : Nat, old : Bytes]
    /\ job.pc # "idle" =>
          /\ ready /\ job.name \in Names /\ job.len \in Lens
          /\ job.slot \in 1 .. Slots
          /\ job.first \in Gran \ {PoolGran} /\ job.gran \in Gran \ {PoolGran}

StreamOK ==
    st \in [open : BOOLEAN, gran : Bytes, sec : Nat, pos : Nat, avail : Nat,
            lastbytes : Nat, id : Nat, heard : Nat, pure : BOOLEAN, ended : BOOLEAN]

\* No file's entry leads to the pool's granule.
EntriesApart == \A s \in 1 .. Slots : dir[s].name # "pool" => dir[s].first # PoolGran

DiskOK ==
    /\ Apart(dfat) /\ Apart(Table)
    /\ \A s \in 1 .. PoolSecs : data[PoolGran][s] = <<Pool, s>>

Inv == TypeOK /\ JobOK /\ StreamOK /\ EntriesApart /\ DiskOK

LEMMA InvTables == ASSUME Inv PROVE dfat \in Tables /\ fat \in Tables /\ Table \in Tables
  BY DEF Inv, TypeOK, Tables, Table

LEMMA Texts ==
  /\ "free" \notin Names /\ "pool" \notin Names /\ "free" # "pool"
  /\ \A n \in Names : n # "pool" /\ n # "free"
  BY GranulesAssumption

LEMMA RawTypes ==
  /\ Junk \in Int \X Int /\ \A i, k \in Nat : <<i, k>> \in Int \X Int
  /\ Closed \in [open : BOOLEAN, gran : Bytes, sec : Nat, pos : Nat, avail : Nat,
                 lastbytes : Nat, id : Nat, heard : Nat, pure : BOOLEAN, ended : BOOLEAN]
  /\ Idle \in [pc : {"idle", "data", "fat", "entry"}, name : Names \cup {"free"},
               len : Nat, id : Nat, slot : Nat, first : Bytes, gran : Bytes,
               sec : Nat, k : Nat, old : Bytes]
  /\ Idle.pc = "idle"
<1>1. Junk \in Int \X Int
  BY SMT DEF Junk
<1>2. \A i, k \in Nat : <<i, k>> \in Int \X Int
  OBVIOUS
<1>3. None \in Bytes /\ 0 \in Nat
  BY SMT DEF None, Bytes
<1> QED
  BY <1>1, <1>2, <1>3 DEF Closed, Idle

LEMMA EmptyTable == [g \in Gran |-> None] \in Tables
  BY Constants DEF Tables

LEMMA InitInv == Init => Inv
<1> SUFFICES ASSUME Init PROVE Inv
  OBVIOUS
<1>1. dfat \in Tables /\ fat \in Tables /\ Table = dfat
  <2>1. Last(PoolSecs) \in 0 .. 255
    BY PoolIsLast, SMT
  <2>2. dfat \in Tables
    BY <2>1, Constants DEF Init, Tables
  <2> QED
    BY <2>2, EmptyTable DEF Init, Table
<1>2. Apart(dfat) /\ Apart(Table)
  <2>1. dfat[PoolGran] = Last(PoolSecs)
    BY Constants DEF Init
  <2>2. \A g \in Gran : dfat[g] \in {Last(PoolSecs), None}
    BY DEF Init
  <2>3. PoolGran # Last(PoolSecs) /\ PoolGran # None
    BY Constants, PoolIsLast, SMT
  <2> QED
    BY <1>1, <2>1, <2>2, <2>3 DEF Apart
<1>3. dir \in [1 .. Slots -> Entry \cup {Free, PoolEntry}] /\ EntriesApart
  <2>1. PoolEntry.name = "pool" /\ Free.first = None
    BY DEF PoolEntry, Free
  <2>2. \A s \in 1 .. Slots : dir[s] \in {PoolEntry, Free}
    BY DEF Init
  <2>3. PoolGran # None
    BY Constants
  <2>4. EntriesApart
    BY <2>1, <2>2, <2>3 DEF EntriesApart
  <2> QED
    BY <2>4 DEF Init
<1>4. /\ data \in [Gran -> [1 .. GRAN_SECS -> Int \X Int]]
      /\ \A s \in 1 .. PoolSecs : data[PoolGran][s] = <<Pool, s>>
  <2>1. \A s \in 1 .. GRAN_SECS : <<Pool, s>> \in Int \X Int
    BY SMT DEF Pool
  <2>2. 1 .. PoolSecs \subseteq 1 .. GRAN_SECS /\ \A s \in 1 .. PoolSecs : s <= PoolSecs
    BY Constants, SMT
  <2>3. data \in [Gran -> [1 .. GRAN_SECS -> Int \X Int]]
    BY <2>1, RawTypes DEF Init
  <2>4. \A s \in 1 .. PoolSecs : data[PoolGran][s] = <<Pool, s>>
    BY <2>2, Constants DEF Init
  <2> QED
    BY <2>3, <2>4
<1>5. /\ size \in Seq(Lens) /\ saved \in [Names -> Nat] /\ torn \subseteq Names
      /\ ready \in BOOLEAN /\ secbuf \in Int \X Int
  <2>1. size = <<>> /\ saved = [n \in Names |-> 0] /\ torn = {} /\ ready = FALSE /\ secbuf = Junk
    BY DEF Init
  <2>2. <<>> \in Seq(Lens) /\ [n \in Names |-> 0] \in [Names -> Nat]
    OBVIOUS
  <2> QED
    BY <2>1, <2>2, RawTypes
<1>6. JobOK /\ StreamOK
  BY RawTypes DEF Init, JobOK, StreamOK
<1>7. job.pc \in {"idle", "data", "fat", "entry"}
  BY RawTypes DEF Init
<1> QED
  BY <1>1, <1>2, <1>3, <1>4, <1>5, <1>6, <1>7 DEF Inv, TypeOK, DiskOK, Tables

-----------------------------------------------------------------------------
(* The steps *)

\* Reading the table in, or not, and leaving disk, writer and past alone.
LEMMA ReaderInv ==
  ASSUME Inv, UNCHANGED <<disk, job, past>>, secbuf' \in Int \X Int, StreamOK',
         DiskReady \/ UNCHANGED memory
  PROVE  Inv'
<1>1. UNCHANGED <<dfat, dir, data, job, size, saved, torn>>
  BY DEF disk, past
<1>2. Table' = Table /\ ready' \in BOOLEAN /\ fat' \in Tables /\ (ready => ready')
  <2>1. CASE DiskReady
    BY <2>1, InvTables DEF DiskReady, Table
  <2>2. CASE UNCHANGED memory
    BY <1>1, <2>2, InvTables DEF memory, Table, Inv, TypeOK
  <2> QED
    BY <2>1, <2>2
<1>3. TypeOK'
  BY <1>2, <1>1 DEF Inv, TypeOK, Tables
<1>4. JobOK'
  BY <1>2, <1>1 DEF Inv, JobOK
<1>5. EntriesApart'
  BY <1>1 DEF Inv, EntriesApart
<1>6. DiskOK'
  BY <1>2, <1>1 DEF Inv, DiskOK, Apart
<1> QED
  BY <1>3, <1>4, <1>5, <1>6 DEF Inv

\* The entry a file is found by is one of the directory's, and not the pool's.
LEMMA HeldEntry ==
  ASSUME Inv, NEW n, n # "pool", Holding(n) # {}
  PROVE  /\ Lowest(Holding(n)) \in Holding(n) /\ Lowest(Holding(n)) \in 1 .. Slots
         /\ dir[Lowest(Holding(n))].first \in Bytes \ {PoolGran}
<1>1. Holding(n) \subseteq Nat /\ Holding(n) \subseteq 1 .. Slots
  BY SMT DEF Holding
<1>2. Lowest(Holding(n)) \in Holding(n)
  BY <1>1, LowestIsLowest
<1>3. dir[Lowest(Holding(n))].name = n
  BY <1>2 DEF Holding
<1>4. dir[Lowest(Holding(n))] \in Entry \cup {Free, PoolEntry}
  BY <1>1, <1>2 DEF Inv, TypeOK
<1>5. \A e \in Entry \cup {Free, PoolEntry} : e.first \in Bytes
  <2>1. None \in Bytes /\ PoolGran \in Bytes
    BY Constants, SMT DEF Bytes
  <2> QED
    BY <2>1 DEF Entry, Free, PoolEntry, Bytes
<1>6. dir[Lowest(Holding(n))].first # PoolGran
  BY <1>1, <1>2, <1>3 DEF Inv, EntriesApart
<1> QED
  BY <1>1, <1>2, <1>4, <1>5, <1>6

\* The new table and the job of a write, before anything reaches the disk.
LEMMA BeginInv ==
  ASSUME Inv, NEW n \in Names, NEW len \in Lens, Begin(n, len)
  PROVE  Inv'
<1>1. n # "pool" /\ n # "free"
  BY Texts
<1>2. OldGran(n) \in Bytes \ {PoolGran}
  BY <1>1, HeldEntry, Constants DEF OldGran, Bytes
<1>3. Apart(Table)
  BY DEF Inv, DiskOK
<1>4. Apart(Afresh(n))
  BY <1>2, <1>3, FreedIsApart DEF Afresh, Bytes
<1>5. Apart(Allocated(Afresh(n), len))
  BY <1>4, AllocatedIsApart
<1>6. Apart(Table') /\ fat' \in Tables /\ ready' = TRUE
  BY <1>5 DEF Begin, Table, Apart
<1>7. UNCHANGED <<dfat, dir, data, st, saved>> /\ size' \in Seq(Lens) /\ secbuf' \in Int \X Int
  BY RawTypes DEF Begin, disk, Inv, TypeOK
<1>8. torn' \subseteq Names
  BY DEF Begin, TornBy, Inv, TypeOK
<1>9. JobOK'
  <2>1. CASE job' = Idle
    BY <2>1, RawTypes DEF JobOK
  <2>2. CASE job' = NewJob(n, len) /\ Cardinality(Taken(Afresh(n), len)) = Need(len)
    <3>1. Need(len) # 0
      <4>1. len - 1 \in Nat /\ GRAN_BYTES \in Nat \ {0}
        BY Constants, SMT
      <4>2. (len - 1) \div GRAN_BYTES \in Nat
        BY <4>1, DivDown
      <4> QED
        BY <4>2, SMT DEF Need
    <3>2. Taken(Afresh(n), len) # {}
      BY <2>2, <3>1, FS_EmptySet
    <3>3. Taken(Afresh(n), len) \subseteq Gran \ {PoolGran}
      BY <1>4, TakenAreBlank
    <3>4. Taken(Afresh(n), len) \subseteq Nat
      BY <3>3, SMT DEF Gran
    <3>5. Lowest(Taken(Afresh(n), len)) \in Gran \ {PoolGran}
      BY <3>2, <3>3, <3>4, LowestIsLowest
    <3>6. SlotFor(n) \in 1 .. Slots
      <4>1. Holding(n) # {} \/ Holding("free") # {}
        BY DEF Begin, Directed
      <4> QED
        BY <4>1, <1>1, HeldEntry, Texts DEF SlotFor
    <3>7. Gran \subseteq Bytes /\ 1 .. Slots \subseteq Nat /\ len \in Nat
      BY Constants, SMT DEF Bytes
    <3>8. Len(size) + 1 \in Nat /\ 1 \in Nat
      BY DEF Inv, TypeOK
    <3>9. NewJob(n, len) \in
             [pc : {"idle", "data", "fat", "entry"}, name : Names \cup {"free"},
              len : Nat, id : Nat, slot : Nat, first : Bytes, gran : Bytes,
              sec : Nat, k : Nat, old : Bytes]
      BY <1>2, <3>5, <3>6, <3>7, <3>8 DEF NewJob
    <3> QED
      BY <1>6, <2>2, <3>5, <3>6, <3>9 DEF JobOK, NewJob
  <2> QED
    BY <2>1, <2>2 DEF Begin
<1>10. TypeOK'
  BY <1>6, <1>7, <1>8, <1>9 DEF Inv, TypeOK, JobOK, Tables
<1>11. StreamOK' /\ EntriesApart'
  BY <1>7 DEF Inv, StreamOK, EntriesApart
<1>12. DiskOK'
  BY <1>6, <1>7 DEF Inv, DiskOK, Apart
<1> QED
  BY <1>9, <1>10, <1>11, <1>12 DEF Inv

\* A sector of data, written where the job says, misses the pool.
LEMMA WrittenMissesThePool ==
  ASSUME Inv, NEW g \in Gran \ {PoolGran}, NEW s, NEW v \in Int \X Int
  PROVE  /\ Written(g, s, v) \in [Gran -> [1 .. GRAN_SECS -> Int \X Int]]
         /\ Written(g, s, v)[PoolGran] = data[PoolGran]
<1>1. data \in [Gran -> [1 .. GRAN_SECS -> Int \X Int]]
  BY DEF Inv, TypeOK
<1>2. [data[g] EXCEPT ![s] = v] \in [1 .. GRAN_SECS -> Int \X Int]
  BY <1>1
<1>3. Written(g, s, v) = [data EXCEPT ![g] = [data[g] EXCEPT ![s] = v]]
  BY <1>1 DEF Written
<1> DEFINE Rows == [1 .. GRAN_SECS -> Int \X Int]
           new == [data[g] EXCEPT ![s] = v]
<1>4. data \in [Gran -> Rows] /\ new \in Rows
  BY <1>1, <1>2
<1> HIDE DEF Rows, new
<1>5. /\ [data EXCEPT ![g] = new] \in [Gran -> Rows]
      /\ [data EXCEPT ![g] = new][PoolGran] = data[PoolGran]
  BY <1>4, Constants
<1> QED
  BY <1>3, <1>5 DEF Rows, new

LEMMA PutSectorInv == ASSUME Inv, PutSector PROVE Inv'
<1>1. /\ job.pc = "data" /\ ready /\ job.gran \in Gran \ {PoolGran}
      /\ job.id \in Nat /\ job.k \in Nat /\ job.sec \in Nat
  BY DEF PutSector, Inv, JobOK
<1>2. UNCHANGED <<dfat, dir, ready, fat, st, size, saved, torn, Table>>
  BY DEF PutSector, memory, past, Table
<1>3. secbuf' \in Int \X Int
  BY <1>1, RawTypes DEF PutSector
<1>4. /\ data' \in [Gran -> [1 .. GRAN_SECS -> Int \X Int]]
      /\ data'[PoolGran] = data[PoolGran]
  BY <1>1, <1>3, WrittenMissesThePool DEF PutSector
<1>5. JobOK'
  <2>1. Links(fat, job.gran) => fat[job.gran] \in Gran \ {PoolGran}
    BY <1>1, LinkLeads, InvTables DEF Inv, DiskOK, Apart, Table
  <2>2. Gran \subseteq Bytes /\ job.sec + 1 \in Nat /\ job.k + 1 \in Nat
    BY <1>1, Constants, SMT DEF Bytes
  <2>3. CASE job.sec < SectorsIn(fat[job.gran])
    BY <1>1, <1>2, <2>2, <2>3 DEF PutSector, Inv, JobOK
  <2>4. CASE ~(job.sec < SectorsIn(fat[job.gran])) /\ Links(fat, job.gran)
    BY <1>1, <1>2, <2>1, <2>2, <2>4 DEF PutSector, Inv, JobOK
  <2>5. CASE ~(job.sec < SectorsIn(fat[job.gran])) /\ ~Links(fat, job.gran)
    BY <1>1, <1>2, <2>5 DEF PutSector, Inv, JobOK
  <2> QED
    BY <2>3, <2>4, <2>5
<1>6. TypeOK'
  BY <1>2, <1>3, <1>4, <1>5 DEF Inv, TypeOK, JobOK
<1>7. StreamOK' /\ EntriesApart'
  BY <1>2 DEF Inv, StreamOK, EntriesApart
<1>8. DiskOK'
  BY <1>2, <1>4 DEF Inv, DiskOK, Apart
<1> QED
  BY <1>5, <1>6, <1>7, <1>8 DEF Inv

\* The entry a write ends with leads to the granules the write was given.
LEMMA EnterInv ==
  ASSUME Inv, job.pc # "idle", Enter
  PROVE  /\ dir' \in [1 .. Slots -> Entry \cup {Free, PoolEntry}]
         /\ EntriesApart' /\ saved' \in [Names -> Nat]
<1>1. /\ job.name \in Names /\ job.slot \in 1 .. Slots /\ job.len \in Lens /\ job.id \in Nat
      /\ job.first \in Gran \ {PoolGran} /\ job.first \in 0 .. 255
  BY DEF Inv, JobOK, Bytes
<1>2. Lastb(job.len) \in 1 .. SEC_SIZE
  <2>1. job.len \in Nat /\ SEC_SIZE \in Nat \ {0}
    BY <1>1, Constants
  <2> QED
    BY <2>1, SMT DEF Lastb
<1>3. NewEntry \in Entry /\ NewEntry.first # PoolGran
  BY <1>1, <1>2 DEF NewEntry, Entry
<1>4. dir \in [1 .. Slots -> Entry \cup {Free, PoolEntry}] /\ saved \in [Names -> Nat]
  BY DEF Inv, TypeOK
<1>5. dir' = [dir EXCEPT ![job.slot] = NewEntry]
  BY DEF Enter
<1>6. dir' \in [1 .. Slots -> Entry \cup {Free, PoolEntry}]
  BY <1>3, <1>4, <1>5
<1>7. \A s \in 1 .. Slots : dir'[s] = dir[s] \/ dir'[s].first # PoolGran
  BY <1>1, <1>3, <1>4, <1>5
<1>8. saved' \in [Names -> Nat]
  BY <1>1, <1>4 DEF Enter
<1>9. EntriesApart'
  BY <1>7 DEF Inv, EntriesApart
<1> QED
  BY <1>6, <1>8, <1>9

\* The end of a write, well or badly: the disk has some of it or none.
LEMMA EndInv ==
  ASSUME Inv, job.pc # "idle", job' = Idle, secbuf' = Junk, UNCHANGED <<memory, st, size>>,
         dfat' \in {dfat, fat},
         data' \in {data, Written(job.gran, job.sec, <<job.id, job.k>>)},
         Enter \/ UNCHANGED <<dir, saved>>,
         torn' \subseteq Names
  PROVE  Inv'
<1>1. /\ ready /\ job.gran \in Gran \ {PoolGran} /\ job.id \in Nat /\ job.k \in Nat
      /\ <<job.id, job.k>> \in Int \X Int
  BY RawTypes DEF Inv, JobOK
<1>2. Apart(dfat') /\ Apart(Table') /\ UNCHANGED <<ready, fat>>
  <2>1. Table = fat /\ UNCHANGED <<ready, fat>>
    BY <1>1 DEF Table, memory
  <2>2. Table' = fat
    BY <1>1, <2>1 DEF Table
  <2> QED
    BY <2>1, <2>2 DEF Inv, DiskOK, Apart
<1>3. /\ data' \in [Gran -> [1 .. GRAN_SECS -> Int \X Int]]
      /\ data'[PoolGran] = data[PoolGran]
  BY <1>1, WrittenMissesThePool, SMTT(60) DEF Inv, TypeOK
<1>4. /\ dir' \in [1 .. Slots -> Entry \cup {Free, PoolEntry}]
      /\ EntriesApart' /\ saved' \in [Names -> Nat]
  BY EnterInv DEF Inv, TypeOK, EntriesApart
<1>5. JobOK' /\ StreamOK'
  BY RawTypes DEF JobOK, StreamOK, Inv
<1>6. TypeOK'
  BY <1>2, <1>3, <1>4, RawTypes DEF Inv, TypeOK, Apart, Tables
<1>7. DiskOK'
  BY <1>2, <1>3 DEF Inv, DiskOK, Apart
<1> QED
  BY <1>4, <1>5, <1>6, <1>7 DEF Inv

LEMMA WritingInv == ASSUME Inv, Writing PROVE Inv'
<1>1. CASE PutSector
  BY <1>1, PutSectorInv
<1>2. CASE PutTable
  <2>1. ready /\ Apart(fat) /\ job \in [pc : {"idle", "data", "fat", "entry"},
           name : Names \cup {"free"}, len : Nat, id : Nat, slot : Nat, first : Bytes,
           gran : Bytes, sec : Nat, k : Nat, old : Bytes]
    BY <1>2 DEF PutTable, Inv, JobOK, DiskOK, Table, Apart
  <2>2. UNCHANGED <<dir, data, ready, fat, st, size, saved, torn>> /\ dfat' = fat
        /\ secbuf' = Junk /\ job' = [job EXCEPT !.pc = "entry"] /\ job.pc = "fat"
    BY <1>2 DEF PutTable, memory, past
  <2>3. Apart(dfat') /\ Apart(Table')
    BY <2>1, <2>2 DEF Table, Apart
  <2>4. JobOK'
    BY <2>1, <2>2 DEF Inv, JobOK
  <2>5. TypeOK'
    BY <2>2, <2>3, <2>4, RawTypes DEF Inv, TypeOK, JobOK, Apart, Tables
  <2>6. StreamOK' /\ EntriesApart'
    BY <2>2 DEF Inv, StreamOK, EntriesApart
  <2>7. DiskOK'
    BY <2>2, <2>3 DEF Inv, DiskOK, Apart
  <2> QED
    BY <2>4, <2>5, <2>6, <2>7 DEF Inv
<1>3. CASE PutEntry
  <2>1. torn' \subseteq Names
    BY <1>3 DEF PutEntry, Inv, TypeOK
  <2> QED
    BY <1>3, <2>1, EndInv DEF PutEntry
<1> QED
  BY <1>1, <1>2, <1>3 DEF Writing

LEMMA FaultsInv == ASSUME Inv, Faults PROVE Inv'
<1>1. CASE \E landed \in BOOLEAN : Fail(landed)
  <2>1. PICK landed \in BOOLEAN : Fail(landed)
    BY <1>1
  <2>2. torn' \subseteq Names
    BY <2>1 DEF Fail, TornBy, Inv, TypeOK, JobOK
  <2> QED
    BY <2>1, <2>2, EndInv DEF Fail
<1>2. CASE PowerOff
  <2>1. /\ ready' = FALSE /\ fat' \in Tables /\ secbuf' \in Int \X Int
        /\ UNCHANGED <<dfat, dir, data, size, saved>>
    BY <1>2, EmptyTable, RawTypes DEF PowerOff, disk
  <2>2. torn' \subseteq Names
    BY <1>2 DEF PowerOff, TornBy, Inv, TypeOK, JobOK
  <2>3. JobOK' /\ StreamOK'
    BY <1>2, RawTypes DEF PowerOff, JobOK, StreamOK
  <2>4. Table' = dfat
    BY <2>1 DEF Table
  <2>5. TypeOK'
    BY <2>1, <2>2, <2>3 DEF Inv, TypeOK, JobOK, Tables
  <2>6. EntriesApart' /\ DiskOK'
    BY <2>1, <2>4 DEF Inv, EntriesApart, DiskOK, Apart
  <2> QED
    BY <2>3, <2>5, <2>6 DEF Inv
<1> QED
  BY <1>1, <1>2 DEF Faults

-----------------------------------------------------------------------------
(* The stream *)

Streams == [open : BOOLEAN, gran : Bytes, sec : Nat, pos : Nat, avail : Nat,
            lastbytes : Nat, id : Nat, heard : Nat, pure : BOOLEAN, ended : BOOLEAN]

LEMMA MovedType ==
  ASSUME Inv, ~AtEnd(st)
  PROVE  Moved(st) \in Streams /\ Moved(st).gran \in Gran
<1>1. st \in Streams /\ st.gran \in Gran
  BY DEF Inv, StreamOK, Streams, AtEnd
<1>2. Gran \subseteq Bytes
  BY Constants, SMT DEF Bytes
<1>3. CASE AtGranuleEnd(st) /\ Links(fat, st.gran)
  <2>1. fat[st.gran] \in Gran
    BY <1>1, <1>3, LinkLeads, InvTables
  <2>2. Moved(st) = [st EXCEPT !.gran = fat[st.gran], !.sec = 0]
    BY <1>1, <1>3 DEF Moved, Streams
  <2> DEFINE next == fat[st.gran]
  <2>3. next \in Gran /\ next \in Bytes /\ Moved(st) = [st EXCEPT !.gran = next, !.sec = 0]
    BY <1>2, <2>1, <2>2
  <2> HIDE DEF next
  <2>4. [st EXCEPT !.gran = next, !.sec = 0] \in Streams
    BY <1>1, <2>3 DEF Streams
  <2>5. [st EXCEPT !.gran = next, !.sec = 0].gran = next
    BY <1>1 DEF Streams
  <2> QED
    BY <2>3, <2>4, <2>5
<1>4. CASE ~(AtGranuleEnd(st) /\ Links(fat, st.gran))
  BY <1>1, <1>4 DEF Moved
<1> QED
  BY <1>3, <1>4

LEMMA HeardType ==
  ASSUME NEW s \in Streams, NEW b
  PROVE  Heard(s, b) \in Streams
<1>1. s.pos + 1 \in Nat /\ s.heard + 1 \in Nat
  BY DEF Streams
<1>2. (s.pure /\ IsNextByte(s, b)) \in BOOLEAN
  BY DEF IsNextByte
<1>3. Heard(s, b) = [s EXCEPT !.pos = s.pos + 1, !.heard = s.heard + 1,
                              !.pure = s.pure /\ IsNextByte(s, b)]
  BY DEF Heard, Streams
<1> QED
  BY <1>1, <1>2, <1>3 DEF Streams

LEMMA NextSectorType ==
  ASSUME Inv, ~AtEnd(st)
  PROVE  NextSector(st) \in Streams
<1> DEFINE m == Moved(st)
           a == IF IsLast(fat[m.gran]) /\ m.sec = SectorsIn(fat[m.gran]) - 1
                THEN m.lastbytes ELSE SEC_SIZE
<1>1. m \in Streams
  BY MovedType
<1>2. a \in Nat /\ m.sec + 1 \in Nat /\ 0 \in Nat
  BY <1>1, Constants DEF Streams
<1>3. NextSector(st) = [m EXCEPT !.avail = a, !.sec = m.sec + 1, !.pos = 0]
  BY <1>1 DEF NextSector, Streams
<1> HIDE DEF m, a
<1> QED
  BY <1>1, <1>2, <1>3 DEF Streams

LEMMA ReadingInv == ASSUME Inv, Reading PROVE Inv'
<1>0. st \in Streams /\ secbuf \in Int \X Int /\ Junk \in Int \X Int /\ Closed \in Streams
  BY RawTypes DEF Inv, StreamOK, Streams, TypeOK
<1>00. \A x \in Streams : st' = x => StreamOK'
  BY DEF StreamOK, Streams
<1>1. CASE ReadAll \/ RawSector
  <2>1. st' = st /\ secbuf' \in {secbuf, Junk} /\ UNCHANGED <<disk, job, past>> /\ DiskReady
    BY <1>1 DEF ReadAll, RawSector
  <2> QED
    BY <1>0, <1>00, <2>1, ReaderInv
<1>2. CASE \E n \in Names : Open(n)
  <2>1. PICK n \in Names : Open(n)
    BY <1>2
  <2>2. /\ n # "pool" /\ Holding(n) # {}
        /\ saved[n] \in Nat
    BY <2>1, Texts DEF Open, Inv, TypeOK
  <2> DEFINE e == dir[Lowest(Holding(n))]
  <2>3. e.first \in Bytes /\ e \in Entry \cup {Free, PoolEntry}
    BY <2>2, HeldEntry DEF Inv, TypeOK
  <2>4. e.lastb \in Nat /\ SEC_SIZE \in Nat
    <3>1. \A x \in Entry \cup {Free, PoolEntry} : x.lastb \in Nat
      BY Constants DEF Entry, Free, PoolEntry
    <3> QED
      BY <2>3, <3>1, Constants
  <2>5. st' = [Closed EXCEPT !.open = TRUE, !.gran = e.first, !.pos = SEC_SIZE,
                             !.lastbytes = e.lastb, !.id = saved[n]]
    BY <2>1 DEF Open
  <2> HIDE DEF e
  <2>6. st' \in Streams
    BY <1>0, <2>2, <2>3, <2>4, <2>5 DEF Streams
  <2>7. UNCHANGED <<disk, job, past>> /\ DiskReady /\ secbuf' = Junk
    BY <2>1 DEF Open
  <2> QED
    BY <1>0, <1>00, <2>6, <2>7, ReaderInv
<1>3. CASE OpenNothing \/ Close
  <2>1. st' = Closed /\ UNCHANGED <<disk, job, past>> /\ secbuf' \in {secbuf, Junk}
        /\ (DiskReady \/ UNCHANGED memory)
    BY <1>3 DEF OpenNothing, Close
  <2> QED
    BY <1>0, <1>00, <2>1, ReaderInv
<1>4. CASE ReadFails
  <2>1. ~AtEnd(st) /\ st' = Moved(st) /\ secbuf' = Junk /\ UNCHANGED <<disk, memory, job, past>>
    BY <1>4 DEF ReadFails
  <2> QED
    BY <1>0, <1>00, <2>1, MovedType, ReaderInv
<1>5. CASE ReadByte
  <2>1. UNCHANGED <<disk, memory, job, past>>
    BY <1>5 DEF ReadByte
  <2>2. CASE st.pos < st.avail
    <3>1. st' = Heard(st, secbuf) /\ secbuf' = secbuf
      BY <1>5, <2>2 DEF ReadByte
    <3> QED
      BY <1>0, <1>00, <2>1, <3>1, HeardType, ReaderInv
  <2>3. CASE ~(st.pos < st.avail) /\ AtEnd(st)
    <3>1. st' = [st EXCEPT !.ended = TRUE] /\ secbuf' = secbuf
      BY <1>5, <2>3 DEF ReadByte
    <3>2. st' \in Streams
      BY <1>0, <3>1 DEF Streams
    <3> QED
      BY <1>0, <1>00, <2>1, <3>1, <3>2, ReaderInv
  <2>4. CASE ~(st.pos < st.avail) /\ ~AtEnd(st)
    <3>1. /\ secbuf' = SectorAt(Moved(st).gran, Moved(st).sec + 1)
          /\ st' = Heard(NextSector(st), secbuf')
      BY <1>5, <2>4 DEF ReadByte
    <3>2. secbuf' \in Int \X Int
      BY <1>0, <2>4, <3>1, MovedType DEF SectorAt, Inv, TypeOK
    <3> QED
      BY <1>00, <2>1, <2>4, <3>1, <3>2, NextSectorType, HeardType, ReaderInv
  <2> QED
    BY <2>2, <2>3, <2>4
<1> QED
  BY <1>1, <1>2, <1>3, <1>4, <1>5 DEF Reading

LEMMA InvStep == Inv /\ [Next]_vars => Inv'
<1> SUFFICES ASSUME Inv, [Next]_vars PROVE Inv'
  OBVIOUS
<1>1. CASE \E n \in Names, len \in Lens : Begin(n, len)
  BY <1>1, BeginInv
<1>2. CASE Refuse
  <2>1. st' = st /\ secbuf' = Junk /\ UNCHANGED <<disk, job, past>> /\ DiskReady
    BY <1>2 DEF Refuse
  <2>2. StreamOK'
    BY <2>1 DEF Inv, StreamOK
  <2> QED
    BY <2>1, <2>2, RawTypes, ReaderInv
<1>3. CASE UNCHANGED vars
  <2>1. UNCHANGED <<disk, memory, secbuf, st, job, past>>
    BY <1>3 DEF vars
  <2>2. StreamOK' /\ secbuf' \in Int \X Int
    BY <2>1 DEF Inv, StreamOK, TypeOK
  <2> QED
    BY <2>1, <2>2, ReaderInv
<1> QED
  BY <1>1, <1>2, <1>3, WritingInv, FaultsInv, ReadingInv DEF Next

LEMMA InvAlways == Spec => []Inv
  BY InitInv, InvStep, PTL DEF Spec

\* Whatever is written, read, cut off or failed, table, directory, buffer and
\* stream keep the types the filesystem stores in them: every link it puts in
\* the table is a byte the table can hold.
THEOREM TypeCorrect == Spec => []TypeOK
<1>1. Inv => TypeOK
  BY DEF Inv
<1> QED
  BY InvAlways, <1>1, PTL

\* On every disk, however the writes fail and the power goes, the string pool
\* keeps its granule and its sectors: a chain that starts elsewhere never
\* reaches it, so it is never freed, never taken and never written.
THEOREM ThePoolSurvives == Spec => []PoolSurvives
<1>1. Inv => PoolSurvives
  BY DEF Inv, DiskOK, Apart, PoolSurvives
<1> QED
  BY InvAlways, <1>1, PTL

-----------------------------------------------------------------------------
(* Chains *)

Kept(t, g, S) == g \in S /\ \A x \in S : Links(t, x) => t[x] \in S

\* A set of granules with g that keeps to the links holds the chain from g.
LEMMA ChainWithin ==
  ASSUME NEW t, NEW g, NEW S \in SUBSET Gran, Kept(t, g, S)
  PROVE  Chain(t, g) \subseteq S
  BY DEF Chain, Kept

LEMMA ChainStarts ==
  ASSUME NEW t, NEW g \in Gran
  PROVE  g \in Chain(t, g) /\ Chain(t, g) \subseteq Gran
  BY DEF Chain

\* The chain keeps to the links itself.
LEMMA ChainKept ==
  ASSUME NEW t \in Tables, NEW g \in Gran
  PROVE  Kept(t, g, Chain(t, g))
<1> SUFFICES ASSUME NEW x \in Chain(t, g), Links(t, x) PROVE t[x] \in Chain(t, g)
  BY ChainStarts DEF Kept
<1>1. x \in Gran /\ t[x] \in Gran
  BY ChainStarts, LinkLeads
<1>2. ASSUME NEW S \in SUBSET Gran, g \in S, \A y \in S : Links(t, y) => t[y] \in S
      PROVE  t[x] \in S
  BY <1>2 DEF Chain
<1> QED
  BY <1>1, <1>2 DEF Chain

\* Tables that agree along the chain have the same chain.
LEMMA SameChain ==
  ASSUME NEW t \in Tables, NEW u \in Tables, NEW g \in Gran,
         \A x \in Chain(t, g) : u[x] = t[x]
  PROVE  Chain(u, g) = Chain(t, g)
<1>1. Chain(u, g) \subseteq Chain(t, g)
  <2>1. Kept(t, g, Chain(t, g)) /\ Chain(t, g) \in SUBSET Gran
    BY ChainKept, ChainStarts
  <2>2. Kept(u, g, Chain(t, g))
    BY <2>1 DEF Kept, Links
  <2> QED
    BY <2>1, <2>2, ChainWithin
<1>2. Chain(t, g) \subseteq Chain(u, g)
  <2>1. Kept(u, g, Chain(u, g)) /\ Chain(u, g) \in SUBSET Gran
    BY ChainKept, ChainStarts
  <2>2. Kept(t, g, Chain(u, g))
    BY <1>1, <2>1 DEF Kept, Links
  <2> QED
    BY <2>1, <2>2, ChainWithin
<1> QED
  BY <1>1, <1>2

-----------------------------------------------------------------------------
(* A file on a disk: from granule a, under table t, the sectors d hold the whole
   of write id, z bytes of it, b of them in the last sector.  The second
   number in a granule's first sector says how far into the file it is. *)

FileOn(t, d, a, b, id, z) ==
    /\ a \in Gran /\ d[a][1] = <<id, 1>>
    /\ \A g \in Chain(t, a) :
          /\ t[g] # None /\ SectorsIn(t[g]) \in 1 .. GRAN_SECS
          /\ d[g][1][1] = id /\ d[g][1][2] \in Nat \ {0}
          /\ \A s \in 1 .. SectorsIn(t[g]) : d[g][s] = <<id, d[g][1][2] + s - 1>>
          /\ IF IsLast(t[g])
             THEN z = SEC_SIZE * (d[g][1][2] + SectorsIn(t[g]) - 2) + b
             ELSE /\ t[g] \in Gran /\ d[t[g]][1] = <<id, d[g][1][2] + GRAN_SECS>>
                  /\ SEC_SIZE * (d[g][1][2] + GRAN_SECS - 1) <= z

\* So the entry spells the file.
LEMMA FileSpells ==
  ASSUME NEW t, NEW e, NEW id, FileOn(t, data, e.first, e.lastb, id, size[id])
  PROVE  Spells(t, e, id) /\ data[e.first][1][1] = id /\ e.first \in Gran
<1>1. \A n \in 1 .. GRAN_SECS : n <= GRAN_SECS
  BY Constants, SMT
<1> QED
  BY <1>1 DEF Spells, FileOn

\* What is changed elsewhere, on the disk or in the table, leaves a file whole.
LEMMA FileKept ==
  ASSUME NEW t \in Tables, NEW u \in Tables, NEW d, NEW c, NEW a, NEW b, NEW id, NEW z,
         FileOn(t, d, a, b, id, z),
         \A g \in Chain(t, a) : u[g] = t[g] /\ c[g] = d[g]
  PROVE  FileOn(u, c, a, b, id, z) /\ Chain(u, a) = Chain(t, a)
<1>1. a \in Gran /\ a \in Chain(t, a)
  BY ChainStarts DEF FileOn
<1>2. Chain(u, a) = Chain(t, a)
  BY <1>1, SameChain
<1>3. \A g \in Chain(t, a) : Links(t, g) => t[g] \in Chain(t, a)
  BY <1>1, ChainKept DEF Kept
<1>4. \A g \in Chain(t, a) : ~IsLast(t[g]) => c[t[g]] = d[t[g]]
  <2> SUFFICES ASSUME NEW g \in Chain(t, a), ~IsLast(t[g]) PROVE c[t[g]] = d[t[g]]
    OBVIOUS
  <2>1. t[g] \in Gran
    BY DEF FileOn
  <2>2. Links(t, g)
    BY <2>1, GranulesAssumption, SMT DEF Links, Gran
  <2> QED
    BY <1>3, <2>2
<1>5. ASSUME NEW g \in Chain(t, a)
      PROVE  /\ u[g] # None /\ SectorsIn(u[g]) \in 1 .. GRAN_SECS
             /\ c[g][1][1] = id /\ c[g][1][2] \in Nat \ {0}
             /\ \A s \in 1 .. SectorsIn(u[g]) : c[g][s] = <<id, c[g][1][2] + s - 1>>
             /\ IF IsLast(u[g])
                THEN z = SEC_SIZE * (c[g][1][2] + SectorsIn(u[g]) - 2) + b
                ELSE /\ u[g] \in Gran /\ c[u[g]][1] = <<id, c[g][1][2] + GRAN_SECS>>
                     /\ SEC_SIZE * (c[g][1][2] + GRAN_SECS - 1) <= z
  <2>1. u[g] = t[g] /\ c[g] = d[g] /\ (~IsLast(t[g]) => c[t[g]] = d[t[g]])
    BY <1>4
  <2> QED
    BY <2>1 DEF FileOn
<1>6. c[a] = d[a] /\ d[a][1] = <<id, 1>>
  BY <1>1 DEF FileOn
<1> QED
  BY <1>1, <1>2, <1>5, <1>6 DEF FileOn

\* No granule is in two files.
LEMMA FilesApart ==
  ASSUME NEW t, NEW d, NEW a, NEW b, NEW i, NEW y, FileOn(t, d, a, b, i, y),
         NEW aa, NEW bb, NEW j, NEW z, FileOn(t, d, aa, bb, j, z), i # j
  PROVE  Chain(t, a) \cap Chain(t, aa) = {}
  BY DEF FileOn

-----------------------------------------------------------------------------
(* The invariant of the files, as long as no replacement was cut short *)

Entered == {s \in 1 .. Slots : dir[s].name \in Names}

\* The entry's file is whole on the disk; the table in memory has its chain.
ReadsWhole(s) == FileOn(dfat, data, dir[s].first, dir[s].lastb,
                        saved[dir[s].name], size[saved[dir[s].name]])
Agrees(s) == \A g \in Chain(dfat, dir[s].first) : fat[g] = dfat[g]

\* A write that has not put its first sector on the disk.
Untouched == job.pc = "data" /\ job.k <= 1

OneEntryEach == \A r, s \in Entered : dir[r].name = dir[s].name => r = s

EntriesWhole ==
    \A s \in Entered :
        /\ dir[s].first \in Gran /\ saved[dir[s].name] \in 1 .. Len(size)
        /\ ~Replacing(dir[s].name) \/ Untouched => ReadsWhole(s)
        /\ ~Replacing(dir[s].name) /\ ready => Agrees(s)

NamesKnown ==
    /\ \A n \in Names : Holding(n) = {} => saved[n] = 0
    /\ \A n, m \in Names : saved[n] = saved[m] /\ saved[n] # 0 => n = m

\* The granules S, in their order, are the new file's: each leads to the next,
\* and the last counts the sectors that are left.
Rank(S, g) == Cardinality({h \in S : h < g})
Linked(t, S, len) ==
    \A g \in S :
        \/ t[g] \in S /\ Follows(S, g, t[g])
        \/ /\ ~\E h \in S : Follows(S, g, h)
           /\ t[g] = Last((Chunk(S, g, len) - 1) \div SEC_SIZE + 1)

\* What the job has written is the file as far as it goes.
Here(S, g, s) == data[g][s] = <<job.id, GRAN_SECS * Rank(S, g) + s>>
Behind(g, s) == g < job.gran \/ (g = job.gran /\ s < job.sec)
Progress(S) ==
    /\ job.pc = "data" =>
          /\ job.gran \in S /\ job.sec \in 1 .. SectorsIn(fat[job.gran])
          /\ job.k = GRAN_SECS * Rank(S, job.gran) + job.sec
    /\ \A g \in S : \A s \in 1 .. SectorsIn(fat[g]) :
          job.pc # "data" \/ Behind(g, s) => Here(S, g, s)

Claimed(S) ==
    /\ S \subseteq Gran \ {PoolGran} /\ Cardinality(S) = Need(job.len)
    /\ job.first \in S /\ \A g \in S : job.first <= g
    /\ Linked(fat, S, job.len)

\* The files of other names have none of them.
Clear(S) == \A s \in Entered : dir[s].name # job.name => Chain(dfat, dir[s].first) \cap S = {}

JobUnderWay ==
    job.pc # "idle" =>
        /\ ~st.open
        /\ job.id = Len(size) /\ job.id # 0 /\ size[job.id] = job.len
        /\ \A n \in Names : saved[n] # job.id
        /\ Directed(job.name) /\ job.slot = SlotFor(job.name) /\ job.old = OldGran(job.name)
        /\ job.pc = "entry" => dfat = fat
        /\ \E S \in SUBSET Gran : Claimed(S) /\ Progress(S) /\ Clear(S)

FilesInv == OneEntryEach /\ EntriesWhole /\ NamesKnown /\ JobUnderWay

LEMMA FilesBegin == Init => FilesInv
<1> SUFFICES ASSUME Init PROVE FilesInv
  OBVIOUS
<1>1. Entered = {}
  <2>1. PoolEntry.name \notin Names /\ Free.name \notin Names
    BY Texts DEF PoolEntry, Free
  <2> QED
    BY <2>1 DEF Entered, Init
<1>2. job.pc = "idle" /\ \A n \in Names : saved[n] = 0
  BY RawTypes DEF Init
<1> QED
  BY <1>1, <1>2 DEF FilesInv, OneEntryEach, EntriesWhole, NamesKnown, JobUnderWay

\* A file in whose chain nothing changes stays whole.
LEMMA EntryStays ==
  ASSUME Inv, Inv', NEW s, ReadsWhole(s), dir'[s] = dir[s],
         saved'[dir[s].name] = saved[dir[s].name],
         size'[saved[dir[s].name]] = size[saved[dir[s].name]],
         \A g \in Chain(dfat, dir[s].first) :
             dfat'[g] = dfat[g] /\ data'[g] = data[g] /\ (ready' => fat'[g] = dfat'[g])
  PROVE  /\ ReadsWhole(s)' /\ (ready' => Agrees(s)')
         /\ Chain(dfat', dir'[s].first) = Chain(dfat, dir[s].first)
<1>1. dfat \in Tables /\ dfat' \in Tables
  BY DEF Inv, TypeOK, Tables
<1> DEFINE a == dir[s].first
           b == dir[s].lastb
           id == saved[dir[s].name]
           z == size[id]
<1>2. FileOn(dfat, data, a, b, id, z)
  BY DEF ReadsWhole
<1>3. \A g \in Chain(dfat, a) : dfat'[g] = dfat[g] /\ data'[g] = data[g]
  OBVIOUS
<1>4. FileOn(dfat', data', a, b, id, z) /\ Chain(dfat', a) = Chain(dfat, a)
  BY <1>1, <1>2, <1>3, FileKept
<1> QED
  BY <1>4 DEF ReadsWhole, Agrees

\* The table in use has the chains of the files that nobody replaces.
LEMMA TableAgrees ==
  ASSUME FilesInv, NEW s \in Entered, ~Replacing(dir[s].name)
  PROVE  \A g \in Chain(dfat, dir[s].first) : Table[g] = dfat[g]
  BY DEF FilesInv, EntriesWhole, Agrees, Table

\* A step of a reader, and a write refused, leave every file as it was.
LEMMA QuietFiles ==
  ASSUME Inv, Inv', FilesInv, job.pc = "idle", UNCHANGED <<disk, job, past>>,
         DiskReady \/ UNCHANGED memory
  PROVE  FilesInv'
<1>1. UNCHANGED <<dfat, dir, data, job, size, saved, torn>> /\ Entered' = Entered
  BY DEF disk, past, Entered
<1>2. \A n : ~Replacing(n) /\ ~Replacing(n)'
  BY <1>1 DEF Replacing
<1>3. ASSUME NEW s \in Entered
      PROVE  ReadsWhole(s)' /\ (ready' => Agrees(s)')
  <2>1. ReadsWhole(s) /\ (ready => Agrees(s))
    BY <1>2 DEF FilesInv, EntriesWhole
  <2>2. \A g \in Chain(dfat, dir[s].first) : ready' => fat'[g] = dfat'[g]
    BY <1>1, <1>2, <2>1, TableAgrees DEF DiskReady, memory, Agrees
  <2> QED
    BY <1>1, <2>1, <2>2, EntryStays
<1>4. EntriesWhole'
  <2>1. \A s \in Entered : dir[s].first \in Gran /\ saved[dir[s].name] \in 1 .. Len(size)
    BY DEF FilesInv, EntriesWhole
  <2> QED
    BY <1>1, <1>3, <2>1 DEF EntriesWhole
<1>5. OneEntryEach' /\ NamesKnown' /\ JobUnderWay'
  BY <1>1 DEF FilesInv, OneEntryEach, NamesKnown, JobUnderWay, Holding
<1> QED
  BY <1>4, <1>5 DEF FilesInv

-----------------------------------------------------------------------------
(* The granules of a new file *)

LEMMA RankType ==
  ASSUME NEW S \in SUBSET Gran, NEW g \in Gran
  PROVE  Rank(S, g) \in Nat /\ IsFiniteSet(S) /\ IsFiniteSet({h \in S : h < g})
<1>1. {h \in S : h < g} \in SUBSET Gran
  OBVIOUS
<1> QED
  BY <1>1, GranIsFinite, FS_CardinalityType DEF Rank

\* The granule after g is one rank on.
LEMMA RankNext ==
  ASSUME NEW S \in SUBSET Gran, NEW g \in S, NEW h, Follows(S, g, h)
  PROVE  Rank(S, h) = Rank(S, g) + 1
<1>1. S \subseteq Int
  BY SMT DEF Gran
<1>2. {i \in S : i < h} = {i \in S : i < g} \cup {g}
  <2>1. h \in S /\ h > g /\ \A i \in S : i > g => h <= i
    BY DEF Follows
  <2>2. \A i \in S : i < h <=> i < g \/ i = g
    BY <1>1, <2>1, SMT
  <2> QED
    BY <2>2
<1>3. g \notin {i \in S : i < g} /\ IsFiniteSet({i \in S : i < g})
  BY <1>1, RankType, SMT
<1> QED
  BY <1>2, <1>3, FS_AddElement DEF Rank

\* The last is the one that nothing follows: all the others are below.
LEMMA NothingAbove ==
  ASSUME NEW S \in SUBSET Gran, NEW g \in S, ~\E h \in S : Follows(S, g, h)
  PROVE  \A i \in S : i <= g
<1>1. S \subseteq Nat
  BY SMT DEF Gran
<1> DEFINE U == {i \in S : i > g}
<1>2. ASSUME U # {} PROVE FALSE
  <2>1. U \subseteq Nat
    BY <1>1
  <2>2. Lowest(U) \in U /\ \A y \in U : Lowest(U) <= y
    BY <1>2, <2>1, LowestIsLowest
  <2>3. Follows(S, g, Lowest(U))
    BY <2>2 DEF Follows
  <2> QED
    BY <2>2, <2>3
<1> QED
  BY <1>1, <1>2, SMT

LEMMA RankBelow ==
  ASSUME NEW S \in SUBSET Gran, NEW g \in S
  PROVE  /\ Rank(S, g) + 1 <= Cardinality(S) /\ Cardinality(S) \in Nat
         /\ (\A i \in S : i <= g) => Cardinality(S) = Rank(S, g) + 1
<1>1. S \subseteq Int
  BY SMT DEF Gran
<1> DEFINE B == {i \in S : i < g}
<1>2. g \notin B /\ IsFiniteSet(B) /\ IsFiniteSet(S) /\ B \cup {g} \subseteq S
  BY <1>1, RankType, SMT
<1>3. Cardinality(B \cup {g}) = Cardinality(B) + 1
  BY <1>2, FS_AddElement
<1>4. Cardinality(B \cup {g}) <= Cardinality(S) /\ Cardinality(S) \in Nat
  BY <1>2, FS_Subset, FS_CardinalityType
<1>5. (\A i \in S : i <= g) => S = B \cup {g}
  <2>1. \A i \in S : i <= g => i < g \/ i = g
    BY <1>1, SMT
  <2> QED
    BY <2>1
<1> HIDE DEF B
<1>6. Rank(S, g) = Cardinality(B)
  BY DEF Rank, B
<1> QED
  BY <1>3, <1>4, <1>5, <1>6

LEMMA RankFirst ==
  ASSUME NEW S \in SUBSET Gran, NEW f \in S, \A g \in S : f <= g
  PROVE  Rank(S, f) = 0
<1>1. {h \in S : h < f} = {}
  <2>1. \A h \in S : h \in Int /\ ~(h < f)
    BY SMT DEF Gran
  <2> QED
    BY <2>1
<1> QED
  BY <1>1, FS_EmptySet DEF Rank

-----------------------------------------------------------------------------
(* Granules and sectors counted *)

LEMMA DivMod ==
  ASSUME NEW v \in Nat, NEW m \in Nat \ {0}
  PROVE  /\ v \div m \in Nat /\ v % m \in Nat /\ v % m < m
         /\ v = m * (v \div m) + (v % m)
  OBVIOUS

\* Only one quotient and one remainder.
LEMMA DivIs ==
  ASSUME NEW v \in Nat, NEW m \in Nat \ {0}, NEW q \in Nat, NEW r \in Nat, r < m, v = m * q + r
  PROVE  v \div m = q /\ v % m = r
<1> DEFINE d == v \div m
           e == v % m
<1>1. d \in Nat /\ e \in Nat /\ e < m /\ v = m * d + e
  BY DivMod
<1> HIDE DEF d, e
<1>2. CASE d < q
  <2>1. m * (d + 1) <= m * q /\ m * (d + 1) = m * d + m
    BY <1>1, <1>2, Scale
  <2> QED
    BY <2>1, <1>1
<1>3. CASE q < d
  <2>1. m * (q + 1) <= m * d /\ m * (q + 1) = m * q + m
    BY <1>1, <1>3, Scale
  <2> QED
    BY <2>1, <1>1
<1>4. CASE q = d
  BY <1>1, <1>4
<1>5. d = q /\ e = r
  BY <1>1, <1>2, <1>3, <1>4
<1> QED
  BY <1>5 DEF d, e

\* The granules needed hold the file, and all but the last are filled.
LEMMA Needed ==
  ASSUME NEW len \in Lens
  PROVE  /\ Need(len) \in Nat \ {0} /\ len \in Nat \ {0}
         /\ \A r \in Nat : r + 1 < Need(len) => GRAN_BYTES * (r + 1) <= len - 1
         /\ \A r \in Nat : r + 1 = Need(len) =>
               /\ GRAN_BYTES * r <= len - 1 /\ len - GRAN_BYTES * r <= GRAN_BYTES
<1>1. len \in Nat \ {0} /\ len - 1 \in Nat /\ GRAN_BYTES \in Nat \ {0}
  BY Constants, SMT
<1> DEFINE w == (len - 1) \div GRAN_BYTES
           e == (len - 1) % GRAN_BYTES
<1>2. w \in Nat /\ e \in Nat /\ e < GRAN_BYTES /\ len - 1 = GRAN_BYTES * w + e
  BY <1>1, DivMod
<1>3. Need(len) = w + 1
  BY DEF Need
<1> HIDE DEF w, e
<1> DEFINE p == GRAN_BYTES * w
<1>4. p \in Nat /\ p <= len - 1 /\ len - p <= GRAN_BYTES
  BY <1>1, <1>2, SMT
<1>5. \A r \in Nat : r + 1 <= w => GRAN_BYTES * (r + 1) <= p
  <2> TAKE r \in Nat
  <2> HAVE r + 1 <= w
  <2>1. r + 1 \in Nat
    OBVIOUS
  <2> QED
    BY <1>1, <1>2, <2>1, Scale
<1> HIDE DEF p
<1>6. \A r \in Nat : GRAN_BYTES * (r + 1) \in Nat
  BY <1>1, SMT
<1>7. ASSUME NEW r \in Nat, r + 1 < Need(len) PROVE GRAN_BYTES * (r + 1) <= len - 1
  BY <1>1, <1>2, <1>3, <1>4, <1>5, <1>6, <1>7
<1>8. ASSUME NEW r \in Nat, r + 1 = Need(len)
      PROVE  GRAN_BYTES * r <= len - 1 /\ len - GRAN_BYTES * r <= GRAN_BYTES
  <2>1. r = w
    BY <1>2, <1>3, <1>8
  <2> QED
    BY <1>4, <2>1 DEF p
<1> QED
  BY <1>1, <1>2, <1>3, <1>7, <1>8

\* What the table says of a granule g of the file: it leads on, and is full ...
Onward(t, S, g) ==
    /\ t[g] \in S /\ Follows(S, g, t[g]) /\ Links(t, g) /\ ~IsLast(t[g]) /\ t[g] # None
    /\ SectorsIn(t[g]) = GRAN_SECS

\* ... or it is the last, and counts the sectors of what is left of the file.
Ending(t, S, len, g) ==
    /\ \A i \in S : i <= g
    /\ IsLast(t[g]) /\ ~Links(t, g) /\ t[g] # None
    /\ SectorsIn(t[g]) = (len - GRAN_BYTES * Rank(S, g) - 1) \div SEC_SIZE + 1
    /\ SectorsIn(t[g]) \in 1 .. GRAN_SECS

LEMMA LastCounts ==
  ASSUME NEW c \in 1 .. GRAN_SECS
  PROVE  IsLast(Last(c)) /\ SectorsIn(Last(c)) = c /\ Last(c) # None
<1>1. c \in 1 .. 62
  BY Constants, SMT
<1>2. Last(c) = 192 + c
  BY DEF Last
<1>3. (192 + c) % 64 = c
  <2>1. 192 + c \in Nat /\ 64 \in Nat \ {0} /\ 3 \in Nat /\ c \in Nat /\ c < 64
        /\ 192 + c = 64 * 3 + c
    BY <1>1, SMT
  <2> QED
    BY <2>1, DivIs
<1> QED
  BY <1>1, <1>2, <1>3, SMT DEF IsLast, SectorsIn, None

LEMMA LinkedSays ==
  ASSUME NEW t, NEW S \in SUBSET Gran, NEW len \in Lens,
         Cardinality(S) = Need(len), Linked(t, S, len), NEW g \in S
  PROVE  Onward(t, S, g) \/ Ending(t, S, len, g)
<1>1. CASE t[g] \in S /\ Follows(S, g, t[g])
  <2>1. t[g] \in 0 .. (NUM_GRAN - 1) /\ NUM_GRAN \in 1 .. 191
    BY <1>1, GranulesAssumption DEF Gran
  <2>2. t[g] < 192 /\ t[g] < NUM_GRAN /\ t[g] # 255
    BY <2>1, SMT
  <2>3. ~IsLast(t[g])
    BY <2>1, <2>2, SMT DEF IsLast
  <2> QED
    BY <1>1, <2>2, <2>3 DEF Onward, Links, SectorsIn, None
<1>2. CASE /\ ~\E h \in S : Follows(S, g, h)
           /\ t[g] = Last((Chunk(S, g, len) - 1) \div SEC_SIZE + 1)
  <2>1. \A i \in S : i <= g
    BY <1>2, NothingAbove
  <2>2. Rank(S, g) \in Nat /\ Rank(S, g) + 1 = Need(len)
    BY <2>1, RankBelow, RankType
  <2> DEFINE left == len - GRAN_BYTES * Rank(S, g)
  <2>3. len \in Nat /\ GRAN_BYTES * Rank(S, g) \in Nat
    BY <2>2, Needed, Constants, SMT
  <2>4. left \in 1 .. GRAN_BYTES
    <3>1. GRAN_BYTES * Rank(S, g) <= len - 1 /\ left <= GRAN_BYTES
      BY <2>2, Needed
    <3> DEFINE p == GRAN_BYTES * Rank(S, g)
    <3>2. p \in Nat /\ p <= len - 1 /\ len - p <= GRAN_BYTES
      BY <2>3, <3>1
    <3> HIDE DEF p
    <3>3. len - p \in 1 .. GRAN_BYTES
      BY <2>3, <3>2, Constants, SMT
    <3> QED
      BY <3>3 DEF p
  <2>5. Chunk(S, g, len) = IF left > GRAN_BYTES THEN GRAN_BYTES ELSE left
    BY DEF Chunk, Rank
  <2> HIDE DEF left
  <2>6. Chunk(S, g, len) = left
    BY <2>4, <2>5, Constants, SMT
  <2> DEFINE c == (left - 1) \div SEC_SIZE + 1
  <2>7. c \in 1 .. GRAN_SECS
    BY <2>4, LastSectors
  <2>8. t[g] = Last(c)
    BY <1>2, <2>6
  <2> HIDE DEF c
  <2>9. IsLast(t[g]) /\ SectorsIn(t[g]) = c /\ t[g] # None /\ ~Links(t, g)
    BY <2>7, <2>8, LastCounts DEF Links
  <2> QED
    BY <2>1, <2>7, <2>9 DEF Ending, c, left
<1> QED
  BY <1>1, <1>2 DEF Linked

\* The last sector's bytes and the full ones before it make up the file.
LEMMA BytesAddUp ==
  ASSUME NEW len \in Nat \ {0}, NEW r \in Nat,
         GRAN_BYTES * r <= len - 1,
         NEW c, c = (len - GRAN_BYTES * r - 1) \div SEC_SIZE + 1
  PROVE  len = SEC_SIZE * (GRAN_SECS * r + c - 1) + Lastb(len)
<1> DEFINE B == SEC_SIZE
           p == GRAN_BYTES * r
           a == len - p - 1
           q == a \div B
           m == a % B
           u == GRAN_SECS * r
<1>1. p \in Nat /\ u \in Nat /\ p = B * u /\ B \in Nat \ {0} /\ a \in Nat
  <2>1. B \in Nat \ {0} /\ GRAN_SECS \in Nat /\ GRAN_BYTES = GRAN_SECS * B
    BY Constants, SMT DEF GRAN_BYTES
  <2>2. p \in Nat /\ u \in Nat /\ p = B * u
    BY <2>1, SMT
  <2> HIDE DEF p
  <2>3. len - p - 1 \in Nat
    <3>1. p <= len - 1
      BY DEF p
    <3> QED
      BY <2>2, <3>1, SMT
  <2> QED
    BY <2>1, <2>2, <2>3
<1> HIDE DEF B, u
<1>2. q \in Nat /\ m \in Nat /\ m < B /\ a = B * q + m
  BY <1>1, DivMod
<1>3. c = q + 1
  BY DEF B
<1>4. len = p + a + 1
  <2> HIDE DEF p
  <2> QED
    BY <1>1, SMT
<1> HIDE DEF q, m, a, p
<1>5. B * (u + q) \in Nat /\ B * (u + q) = p + B * q /\ u + q \in Nat /\ B * q \in Nat
  BY <1>1, <1>2, SMT
<1>6. len = B * (u + q) + (m + 1)
  BY <1>1, <1>2, <1>4, <1>5, SMT
<1>7. Lastb(len) = m + 1
  <2>1. CASE m + 1 < B
    <3> DEFINE w == u + q
               e == m + 1
    <3>0. w \in Nat /\ e \in Nat /\ e < B /\ len = B * w + e
      BY <1>2, <1>5, <1>6, <2>1
    <3> HIDE DEF w, e
    <3>00. len % B = e
      BY <1>1, <3>0, DivIs
    <3>1. len % B = m + 1
      BY <3>00 DEF e
    <3> QED
      BY <1>2, <3>1 DEF Lastb, B
  <2>2. CASE m + 1 = B
    <3>1. len = B * (u + q + 1) + 0 /\ u + q + 1 \in Nat
      BY <1>1, <1>2, <1>5, <1>6, <2>2, SMT
    <3>2. len % B = 0
      BY <1>1, <3>1, DivIs
    <3> QED
      BY <2>2, <3>2 DEF Lastb, B
  <2> QED
    BY <1>1, <1>2, <2>1, <2>2, SMT
<1>8. u + c - 1 = u + q
  BY <1>1, <1>2, <1>3
<1> QED
  BY <1>6, <1>7, <1>8 DEF B, u

\* All its sectors written, the new file is whole under the new table.
LEMMA JobIsWhole ==
  ASSUME Inv, job.pc \in {"fat", "entry"}, NEW S \in SUBSET Gran, Claimed(S), Progress(S)
  PROVE  FileOn(fat, data, job.first, Lastb(job.len), job.id, job.len)
<1>1. job.len \in Lens /\ job.len \in Nat \ {0} /\ job.first \in Gran /\ fat \in Tables
  BY Constants DEF Inv, JobOK, TypeOK, Tables
<1>2. \A g \in S : Onward(fat, S, g) \/ Ending(fat, S, job.len, g)
  BY <1>1, LinkedSays DEF Claimed
<1>3. \A g \in S : SectorsIn(fat[g]) \in 1 .. GRAN_SECS /\ fat[g] # None
  BY <1>2, Constants, SMT DEF Onward, Ending
<1>4. \A g \in S, s \in 1 .. GRAN_SECS : s <= SectorsIn(fat[g]) => Here(S, g, s)
  BY <1>3, SMT DEF Progress
<1>5. \A g \in S : data[g][1] = <<job.id, GRAN_SECS * Rank(S, g) + 1>>
  <2>1. 1 \in 1 .. GRAN_SECS /\ \A n \in 1 .. GRAN_SECS : 1 <= n
    BY Constants, SMT
  <2> QED
    BY <1>3, <1>4, <2>1 DEF Here
<1>6. Chain(fat, job.first) \subseteq S
  <2>1. Kept(fat, job.first, S)
    BY <1>2 DEF Kept, Onward, Ending, Claimed
  <2> QED
    BY <2>1, ChainWithin
<1>7. data[job.first][1] = <<job.id, 1>>
  <2>1. Rank(S, job.first) = 0 /\ job.first \in S
    BY RankFirst DEF Claimed
  <2>2. GRAN_SECS * 0 + 1 = 1
    BY Constants, SMT
  <2> QED
    BY <1>5, <2>1, <2>2
<1>8. ASSUME NEW g \in S
      PROVE  /\ fat[g] # None /\ SectorsIn(fat[g]) \in 1 .. GRAN_SECS
             /\ data[g][1][1] = job.id /\ data[g][1][2] \in Nat \ {0}
             /\ \A s \in 1 .. SectorsIn(fat[g]) : data[g][s] = <<job.id, data[g][1][2] + s - 1>>
             /\ IF IsLast(fat[g])
                THEN job.len = SEC_SIZE * (data[g][1][2] + SectorsIn(fat[g]) - 2) + Lastb(job.len)
                ELSE /\ fat[g] \in Gran
                     /\ data[fat[g]][1] = <<job.id, data[g][1][2] + GRAN_SECS>>
                     /\ SEC_SIZE * (data[g][1][2] + GRAN_SECS - 1) <= job.len
  <2> DEFINE r == Rank(S, g)
             v == data[g][1][2]
             u == GRAN_SECS * r
             c == SectorsIn(fat[g])
  <2>1. r \in Nat /\ GRAN_SECS \in Nat
    <3>1. g \in Gran
      OBVIOUS
    <3>2. GRAN_SECS \in Nat
      BY Constants, SMT
    <3> QED
      BY <3>1, <3>2, RankType
  <2>2. u \in Nat
    BY <2>1, SMT
  <2>3. c \in 1 .. GRAN_SECS
    BY <1>3
  <2>4. v = u + 1 /\ data[g][1][1] = job.id
    BY <1>5
  <2>5. ASSUME NEW s \in 1 .. c
        PROVE  data[g][s] = <<job.id, v + s - 1>>
    <3>1. s \in 1 .. GRAN_SECS /\ s <= c
      BY <2>1, <2>3, SMT
    <3>2. data[g][s] = <<job.id, u + s>>
      BY <1>4, <3>1 DEF Here
    <3> HIDE DEF u, c, v
    <3>3. u + s = v + s - 1
      BY <2>2, <2>4, <3>1, SMT
    <3> QED
      BY <3>2, <3>3
  <2>6. CASE Ending(fat, S, job.len, g)
    <3>1. r + 1 = Need(job.len)
      BY <2>6, RankBelow DEF Ending, Claimed
    <3>2. GRAN_BYTES * r <= job.len - 1
      BY <1>1, <2>1, <3>1, Needed
    <3>3. c = (job.len - GRAN_BYTES * r - 1) \div SEC_SIZE + 1
      BY <2>6 DEF Ending
    <3>4. job.len = SEC_SIZE * (u + c - 1) + Lastb(job.len)
      <4> HIDE DEF r, c
      <4> QED
        BY <1>1, <2>1, <3>2, <3>3, BytesAddUp
    <3>5. u + c - 1 = v + c - 2
      <4> HIDE DEF u, c, v
      <4> QED
        BY <2>1, <2>2, <2>3, <2>4, SMT
    <3>6. IsLast(fat[g])
      BY <2>6 DEF Ending
    <3>7. v \in Nat \ {0}
      <4> HIDE DEF u, v
      <4> QED
        BY <2>2, <2>4, SMT
    <3> QED
      BY <1>3, <2>4, <2>5, <3>4, <3>5, <3>6, <3>7
  <2>7. CASE Onward(fat, S, g)
    <3> DEFINE h == fat[g]
    <3>1. h \in S /\ h \in Gran /\ Follows(S, g, h) /\ ~IsLast(h)
      BY <2>7 DEF Onward
    <3>2. Rank(S, h) = r + 1
      BY <3>1, RankNext
    <3>3. data[h][1] = <<job.id, GRAN_SECS * (r + 1) + 1>>
      BY <1>5, <3>1, <3>2
    <3>4. GRAN_SECS * (r + 1) = u + GRAN_SECS
      BY <2>1, SMT
    <3>5. GRAN_BYTES * (r + 1) <= job.len
      <4>1. r + 1 + 1 <= Need(job.len) /\ Need(job.len) \in Nat
        BY <3>1, <3>2, RankBelow DEF Claimed
      <4>2. r + 1 < Need(job.len)
        BY <2>1, <4>1
      <4>3. GRAN_BYTES * (r + 1) <= job.len - 1
        BY <1>1, <2>1, <4>2, Needed
      <4>4. GRAN_BYTES * (r + 1) \in Nat
        BY <2>1, Constants, SMT
      <4> QED
        BY <1>1, <4>3, <4>4, SMT
    <3>6. GRAN_BYTES * (r + 1) = SEC_SIZE * (u + GRAN_SECS)
      <4>1. GRAN_BYTES * (r + 1) = SEC_SIZE * (GRAN_SECS * (r + 1))
        BY <2>1, Constants, SMT DEF GRAN_BYTES
      <4> QED
        BY <3>4, <4>1
    <3>7. v + GRAN_SECS - 1 = u + GRAN_SECS /\ v \in Nat \ {0}
          /\ GRAN_SECS * (r + 1) + 1 = v + GRAN_SECS
      <4> DEFINE w == GRAN_SECS * (r + 1)
      <4>1. w = u + GRAN_SECS
        BY <3>4
      <4> HIDE DEF w, u, v
      <4>2. v + GRAN_SECS - 1 = u + GRAN_SECS /\ v \in Nat \ {0} /\ w + 1 = v + GRAN_SECS
        BY <2>1, <2>2, <2>4, <4>1, SMT
      <4> QED
        BY <4>2 DEF w
    <3> QED
      BY <1>3, <2>4, <2>5, <3>1, <3>3, <3>5, <3>6, <3>7
  <2> QED
    BY <1>2, <2>6, <2>7
<1> QED
  BY <1>1, <1>6, <1>7, <1>8 DEF FileOn

-----------------------------------------------------------------------------
(* The steps of a write, and the files *)

LEMMA WrittenThere ==
  ASSUME Inv, NEW g \in Gran, NEW s \in 1 .. GRAN_SECS, NEW v
  PROVE  /\ Written(g, s, v)[g][s] = v
         /\ \A h \in Gran : h # g => Written(g, s, v)[h] = data[h]
         /\ \A r \in 1 .. GRAN_SECS : r # s => Written(g, s, v)[g][r] = data[g][r]
<1>1. data \in [Gran -> [1 .. GRAN_SECS -> Int \X Int]]
  BY DEF Inv, TypeOK
<1> DEFINE new == [data[g] EXCEPT ![s] = v]
<1>2. Written(g, s, v) = [data EXCEPT ![g] = new]
  BY <1>1 DEF Written
<1>3. new[s] = v /\ \A r \in 1 .. GRAN_SECS : r # s => new[r] = data[g][r]
  <2>1. data[g] \in [1 .. GRAN_SECS -> Int \X Int]
    BY <1>1
  <2> QED
    BY <2>1
<1> HIDE DEF new
<1> QED
  BY <1>1, <1>2, <1>3

\* A write touches no file of another name, on the disk or in the table.
LEMMA OthersStay ==
  ASSUME Inv, Inv', FilesInv, job.pc # "idle", NEW S \in SUBSET Gran, Clear(S),
         NEW s \in Entered, dir[s].name # job.name, dir'[s] = dir[s],
         saved'[dir[s].name] = saved[dir[s].name], size' = size,
         dfat' \in {dfat, fat}, \A g \in Gran \ S : data'[g] = data[g],
         UNCHANGED memory \/ ready' = FALSE
  PROVE  /\ ReadsWhole(s)' /\ (ready' => Agrees(s)')
         /\ Chain(dfat', dir'[s].first) = Chain(dfat, dir[s].first)
         /\ dir'[s].first \in Gran /\ saved'[dir'[s].name] \in 1 .. Len(size')
<1>1. ready /\ ~Replacing(dir[s].name)
  BY DEF Inv, JobOK, Replacing
<1>2. /\ ReadsWhole(s) /\ Agrees(s)
      /\ dir[s].first \in Gran /\ saved[dir[s].name] \in 1 .. Len(size)
  BY <1>1 DEF FilesInv, EntriesWhole
<1>3. \A g \in Chain(dfat, dir[s].first) : g \in Gran /\ g \notin S
  BY <1>2, ChainStarts DEF Clear
<1>4. \A g \in Chain(dfat, dir[s].first) :
          dfat'[g] = dfat[g] /\ data'[g] = data[g] /\ (ready' => fat'[g] = dfat'[g])
  BY <1>2, <1>3 DEF Agrees, memory
<1> QED
  BY <1>2, <1>4, EntryStays

\* A write of a new name has no entry yet.
LEMMA NoEntryYet ==
  ASSUME FilesInv, job.pc # "idle", job.old \notin Gran, NEW s \in Entered
  PROVE  dir[s].name # job.name
<1> SUFFICES ASSUME dir[s].name = job.name PROVE FALSE
  OBVIOUS
<1>1. s \in Holding(job.name) /\ Holding(job.name) \subseteq Nat
  BY SMT DEF Entered, Holding
<1> DEFINE r == Lowest(Holding(job.name))
<1>2. r \in Holding(job.name)
  BY <1>1, LowestIsLowest
<1>3. r \in Entered
  BY <1>2 DEF Holding, Entered
<1>4. dir[r].first \in Gran
  BY <1>3 DEF FilesInv, EntriesWhole
<1> QED
  BY <1>1, <1>4 DEF OldGran, FilesInv, JobUnderWay

\* A write that is cut short, and tears nothing, leaves the files of all.
LEMMA CutShort ==
  ASSUME Inv, Inv', FilesInv, job.pc # "idle", job' = Idle,
         NEW S \in SUBSET Gran, Clear(S), job.old \notin Gran,
         UNCHANGED <<dir, saved, size>>, dfat' \in {dfat, fat},
         \A g \in Gran \ S : data'[g] = data[g], UNCHANGED memory \/ ready' = FALSE
  PROVE  FilesInv'
<1>1. Entered' = Entered /\ job'.pc = "idle"
  BY RawTypes DEF Entered
<1>2. EntriesWhole'
  <2> SUFFICES ASSUME NEW s \in Entered'
               PROVE  /\ dir'[s].first \in Gran /\ saved'[dir'[s].name] \in 1 .. Len(size')
                      /\ ReadsWhole(s)' /\ (ready' => Agrees(s)')
    BY DEF EntriesWhole
  <2>1. dir[s].name # job.name /\ s \in Entered
    BY <1>1, NoEntryYet
  <2> QED
    BY <2>1, OthersStay
<1>3. OneEntryEach' /\ NamesKnown' /\ JobUnderWay'
  BY <1>1 DEF FilesInv, OneEntryEach, NamesKnown, JobUnderWay, Holding
<1> QED
  BY <1>2, <1>3 DEF FilesInv

\* The next sector is written, and the job goes on along its chain.
LEMMA PutSectorFiles ==
  ASSUME Inv, Inv', FilesInv, PutSector
  PROVE  FilesInv'
<1>1. /\ job.pc = "data" /\ data' = Written(job.gran, job.sec, <<job.id, job.k>>)
      /\ UNCHANGED <<dfat, dir, ready, fat, st, size, saved>> /\ UNCHANGED memory
      /\ job \in [pc : {"idle", "data", "fat", "entry"}, name : Names \cup {"free"},
                  len : Nat, id : Nat, slot : Nat, first : Bytes, gran : Bytes,
                  sec : Nat, k : Nat, old : Bytes]
      /\ job.name \in Names /\ job.len \in Lens /\ job.gran \in Gran
  BY DEF PutSector, memory, past, Inv, JobOK
<1>2. PICK S \in SUBSET Gran : Claimed(S) /\ Progress(S) /\ Clear(S)
  BY <1>1 DEF FilesInv, JobUnderWay
<1> DEFINE g == job.gran
           r == Rank(S, g)
<1>3. /\ g \in S /\ job.sec \in 1 .. SectorsIn(fat[g]) /\ job.k = GRAN_SECS * r + job.sec
      /\ Onward(fat, S, g) \/ Ending(fat, S, job.len, g)
  BY <1>1, <1>2, LinkedSays DEF Progress, Claimed
<1>4. \A h \in S : SectorsIn(fat[h]) \in 1 .. GRAN_SECS
  <2>1. \A h \in S : Onward(fat, S, h) \/ Ending(fat, S, job.len, h)
    BY <1>1, <1>2, LinkedSays DEF Claimed
  <2> QED
    BY <2>1, Constants, SMT DEF Onward, Ending
<1>0. GRAN_SECS \in Nat /\ r \in Nat /\ GRAN_SECS * r \in Nat
  <2>1. GRAN_SECS \in Nat
    BY Constants, SMT
  <2>2. r \in Nat
    BY <1>1, RankType
  <2> HIDE DEF r
  <2> QED
    BY <2>1, <2>2
<1>5. job.sec \in 1 .. GRAN_SECS /\ job.sec \in Nat
  BY <1>0, <1>3, <1>4
<1>6. /\ data'[g][job.sec] = <<job.id, GRAN_SECS * r + job.sec>>
      /\ \A h \in Gran : h # g => data'[h] = data[h]
      /\ \A s \in 1 .. GRAN_SECS : s # job.sec => data'[g][s] = data[g][s]
  BY <1>1, <1>3, <1>5, WrittenThere
\* What is behind the job once it has moved on is what was, and this sector.
<1>7. ASSUME job'.id = job.id, NEW h \in S, NEW s \in 1 .. SectorsIn(fat[h]),
             Behind(h, s) \/ (h = g /\ s = job.sec)
      PROVE  Here(S, h, s)'
  <2>1. s \in 1 .. GRAN_SECS
    BY <1>0, <1>4
  <2>2. CASE h = g /\ s = job.sec
    BY <1>6, <1>7, <2>2 DEF Here, Rank
  <2>3. CASE ~(h = g /\ s = job.sec)
    <3>1. Here(S, h, s)
      BY <1>2, <1>7, <2>3 DEF Progress
    <3>2. data'[h][s] = data[h][s]
      BY <1>6, <2>1, <2>3
    <3> QED
      BY <1>7, <3>1, <3>2 DEF Here, Rank
  <2> QED
    BY <2>2, <2>3
<1>8. /\ job'.id = job.id /\ job'.name = job.name /\ job'.len = job.len /\ job'.slot = job.slot
      /\ job'.first = job.first /\ job'.old = job.old /\ job'.pc \in {"data", "fat"}
      /\ Progress(S)'
  <2>1. CASE job.sec < SectorsIn(fat[g])
    <3>1. job' = [job EXCEPT !.sec = job.sec + 1, !.k = job.k + 1]
      BY <1>1, <2>1 DEF PutSector
    <3>2. /\ job'.id = job.id /\ job'.name = job.name /\ job'.len = job.len
          /\ job'.slot = job.slot /\ job'.first = job.first /\ job'.old = job.old
          /\ job'.pc = "data" /\ job'.gran = g /\ job'.sec = job.sec + 1 /\ job'.k = job.k + 1
      BY <1>1, <3>1
    <3>3. job'.sec \in 1 .. SectorsIn(fat[g])
      BY <1>3, <1>4, <2>1, <3>2, SMT
    <3>4. job'.k = GRAN_SECS * r + job'.sec
      <4> DEFINE u == GRAN_SECS * r
      <4>1. u \in Nat /\ job.k = u + job.sec
        BY <1>0, <1>3
      <4> HIDE DEF u
      <4>2. job'.k = u + job'.sec
        BY <1>5, <3>2, <4>1
      <4> QED
        BY <4>2 DEF u
    <3>5. ASSUME NEW h \in S, NEW s \in 1 .. SectorsIn(fat[h]), Behind(h, s)'
          PROVE  Here(S, h, s)'
      <4>1. h < g \/ (h = g /\ s < job.sec + 1)
        BY <3>2, <3>5 DEF Behind
      <4>2. s \in Nat
        BY <1>4, SMT
      <4>3. Behind(h, s) \/ (h = g /\ s = job.sec)
        BY <1>5, <4>1, <4>2, SMT DEF Behind
      <4> QED
        BY <1>7, <3>2, <4>3
    <3> QED
      BY <1>1, <1>3, <3>2, <3>3, <3>4, <3>5 DEF Progress, Rank
  <2>2. CASE ~(job.sec < SectorsIn(fat[g])) /\ Links(fat, g)
    <3> DEFINE n == fat[g]
    <3>1. job' = [job EXCEPT !.gran = n, !.sec = 1, !.k = job.k + 1]
      BY <1>1, <2>2 DEF PutSector
    <3>2. /\ job'.id = job.id /\ job'.name = job.name /\ job'.len = job.len
          /\ job'.slot = job.slot /\ job'.first = job.first /\ job'.old = job.old
          /\ job'.pc = "data" /\ job'.gran = n /\ job'.sec = 1 /\ job'.k = job.k + 1
      BY <1>1, <3>1
    <3>3. n \in S /\ Follows(S, g, n) /\ SectorsIn(fat[g]) = GRAN_SECS
      BY <1>3, <2>2 DEF Onward, Ending
    <3>4. job.sec = GRAN_SECS
      BY <1>0, <1>3, <1>5, <2>2, <3>3, SMT
    <3>5. job'.k = GRAN_SECS * Rank(S, n) + 1
      <4>1. r \in Nat /\ GRAN_SECS \in Nat
        BY <1>0
      <4>2. Rank(S, n) = r + 1
        BY <1>3, <3>3, RankNext
      <4>3. GRAN_SECS * (r + 1) = GRAN_SECS * r + GRAN_SECS
        BY <4>1, SMT
      <4> QED
        BY <1>3, <3>2, <3>4, <4>2, <4>3
    <3>6. ASSUME NEW h \in S, NEW s \in 1 .. SectorsIn(fat[h]), Behind(h, s)'
          PROVE  Here(S, h, s)'
      <4>1. s \in 1 .. GRAN_SECS /\ s \in Nat /\ h \in Nat /\ g \in Nat /\ n \in Nat
        <5>1. Gran \subseteq Nat
          BY SMT DEF Gran
        <5>2. s \in 1 .. GRAN_SECS /\ s \in Nat
          BY <1>0, <1>4
        <5> QED
          BY <1>1, <5>2, <3>3, <5>1
      <4>2. h < n \/ (h = n /\ s < 1)
        BY <3>2, <3>6 DEF Behind
      <4>3. h <= g
        BY <3>3, <4>1, <4>2, SMT DEF Follows
      <4>4. Behind(h, s) \/ (h = g /\ s = job.sec)
        BY <1>0, <3>4, <4>1, <4>3, SMT DEF Behind
      <4> QED
        BY <1>7, <3>2, <4>4
    <3>7. job'.sec \in 1 .. SectorsIn(fat[n])
      BY <1>4, <3>2, <3>3, SMT
    <3> QED
      BY <1>1, <3>2, <3>3, <3>5, <3>6, <3>7 DEF Progress, Rank
  <2>3. CASE ~(job.sec < SectorsIn(fat[g])) /\ ~Links(fat, g)
    <3>1. job' = [job EXCEPT !.pc = "fat"]
      BY <1>1, <2>3 DEF PutSector
    <3>2. /\ job'.id = job.id /\ job'.name = job.name /\ job'.len = job.len
          /\ job'.slot = job.slot /\ job'.first = job.first /\ job'.old = job.old
          /\ job'.pc = "fat"
      BY <1>1, <3>1
    <3>3. Ending(fat, S, job.len, g)
      BY <1>3, <2>3 DEF Onward
    <3>4. ASSUME NEW h \in S, NEW s \in 1 .. SectorsIn(fat[h])
          PROVE  Here(S, h, s)'
      <4>1. s \in 1 .. GRAN_SECS /\ s \in Nat /\ h \in Nat /\ g \in Nat
        <5>1. Gran \subseteq Nat
          BY SMT DEF Gran
        <5>2. s \in 1 .. GRAN_SECS /\ s \in Nat
          BY <1>0, <1>4
        <5> QED
          BY <1>1, <5>2, <5>1
      <4>2. h <= g
        BY <3>3 DEF Ending
      <4>3. h = g => s <= job.sec
        BY <1>3, <1>4, <1>5, <2>3, <4>1, SMT
      <4>4. Behind(h, s) \/ (h = g /\ s = job.sec)
        BY <1>5, <4>1, <4>2, <4>3, SMT DEF Behind
      <4> QED
        BY <1>7, <3>2, <4>4
    <3> QED
      BY <1>1, <3>2, <3>4 DEF Progress
  <2> QED
    BY <2>1, <2>2, <2>3
<1>9. Entered' = Entered /\ \A x : Holding(x)' = Holding(x)
  BY <1>1 DEF Entered, Holding
<1>10. \A s \in Entered : dir[s].name # job.name =>
          /\ ReadsWhole(s)' /\ (ready' => Agrees(s)')
          /\ Chain(dfat', dir'[s].first) = Chain(dfat, dir[s].first)
  <2>1. \A h \in Gran \ S : data'[h] = data[h]
    BY <1>3, <1>6
  <2> QED
    BY <1>1, <1>2, <2>1, OthersStay
<1>11. EntriesWhole'
  <2> SUFFICES ASSUME NEW s \in Entered
               PROVE  /\ dir'[s].first \in Gran /\ saved'[dir'[s].name] \in 1 .. Len(size')
                      /\ (~Replacing(dir[s].name)' \/ Untouched' => ReadsWhole(s)')
                      /\ (~Replacing(dir[s].name)' /\ ready' => Agrees(s)')
    BY <1>1, <1>9 DEF EntriesWhole
  <2>1. dir'[s].first \in Gran /\ saved'[dir'[s].name] \in 1 .. Len(size')
    BY <1>1 DEF FilesInv, EntriesWhole
  <2>2. CASE dir[s].name # job.name
    BY <1>10, <2>1, <2>2
  <2>3. CASE dir[s].name = job.name
    <3>1. job.old \in Gran
      BY <1>1, <2>3, NoEntryYet
    <3>2. Replacing(dir[s].name)'
      <4>1. job'.pc # "idle"
        BY <1>8
      <4> QED
        BY <4>1, <1>1, <1>8, <2>3, <3>1 DEF Replacing
    <3>3. ~Untouched'
      <4>1. CASE job'.pc = "data"
        <5>1. job'.k = job.k + 1
          BY <1>1, <4>1 DEF PutSector
        <5>2. job.k \in Nat /\ job.k >= 1
          <6> DEFINE u == GRAN_SECS * r
          <6>1. u \in Nat
            BY <1>0
          <6> HIDE DEF u
          <6>2. job.k = u + job.sec
            BY <1>3 DEF u
          <6> QED
            BY <1>5, <6>1, <6>2, SMT
        <5> QED
          BY <5>1, <5>2, SMT DEF Untouched
      <4>2. CASE job'.pc = "fat"
        BY <4>2 DEF Untouched
      <4> QED
        BY <1>8, <4>1, <4>2
    <3> QED
      BY <2>1, <3>2, <3>3
  <2> QED
    BY <2>2, <2>3
<1>12. JobUnderWay'
  <2>1. Claimed(S)'
    BY <1>1, <1>2, <1>8 DEF Claimed, Linked, Follows, Chunk
  <2>2. Clear(S)'
    BY <1>1, <1>2, <1>8, <1>9, <1>10 DEF Clear
  <2>3. /\ ~st'.open /\ job'.id = Len(size') /\ job'.id # 0 /\ size'[job'.id] = job'.len
        /\ \A n \in Names : saved'[n] # job'.id
        /\ job'.old = OldGran(job.name)' /\ job'.slot = SlotFor(job.name)'
        /\ Directed(job.name)'
    BY <1>1, <1>8, <1>9 DEF FilesInv, JobUnderWay, OldGran, SlotFor, Directed
  <2>4. \E T \in SUBSET Gran : Claimed(T)' /\ Progress(T)' /\ Clear(T)'
    BY <1>8, <2>1, <2>2
  <2> QED
    BY <1>8, <2>3, <2>4 DEF JobUnderWay
<1>13. OneEntryEach' /\ NamesKnown'
  BY <1>1, <1>9 DEF FilesInv, OneEntryEach, NamesKnown
<1> QED
  BY <1>11, <1>12, <1>13 DEF FilesInv

\* The table goes to the disk: every chain it has is as it was.
LEMMA PutTableFiles ==
  ASSUME Inv, Inv', FilesInv, PutTable
  PROVE  FilesInv'
<1>1. /\ job.pc = "fat" /\ job' = [job EXCEPT !.pc = "entry"] /\ dfat' = fat
      /\ UNCHANGED <<dir, data, ready, fat, st, size, saved>> /\ UNCHANGED memory
      /\ job \in [pc : {"idle", "data", "fat", "entry"}, name : Names \cup {"free"},
                  len : Nat, id : Nat, slot : Nat, first : Bytes, gran : Bytes,
                  sec : Nat, k : Nat, old : Bytes]
  BY DEF PutTable, memory, past, Inv, JobOK
<1>2. PICK S \in SUBSET Gran : Claimed(S) /\ Progress(S) /\ Clear(S)
  BY <1>1 DEF FilesInv, JobUnderWay
<1>3. /\ job'.id = job.id /\ job'.name = job.name /\ job'.len = job.len /\ job'.slot = job.slot
      /\ job'.first = job.first /\ job'.old = job.old /\ job'.pc = "entry"
  BY <1>1
<1>4. Entered' = Entered /\ \A x : Holding(x)' = Holding(x)
  BY <1>1 DEF Entered, Holding
<1>5. \A s \in Entered : dir[s].name # job.name =>
          /\ ReadsWhole(s)' /\ (ready' => Agrees(s)')
          /\ Chain(dfat', dir'[s].first) = Chain(dfat, dir[s].first)
  BY <1>1, <1>2, OthersStay
<1>6. EntriesWhole'
  <2> SUFFICES ASSUME NEW s \in Entered
               PROVE  /\ dir'[s].first \in Gran /\ saved'[dir'[s].name] \in 1 .. Len(size')
                      /\ (~Replacing(dir[s].name)' \/ Untouched' => ReadsWhole(s)')
                      /\ (~Replacing(dir[s].name)' /\ ready' => Agrees(s)')
    BY <1>1, <1>4 DEF EntriesWhole
  <2>1. dir'[s].first \in Gran /\ saved'[dir'[s].name] \in 1 .. Len(size')
    BY <1>1 DEF FilesInv, EntriesWhole
  <2>2. CASE dir[s].name # job.name
    BY <1>5, <2>1, <2>2
  <2>3. CASE dir[s].name = job.name
    <3>1. job.old \in Gran
      BY <1>1, <2>3, NoEntryYet
    <3>2. Replacing(dir[s].name)' /\ ~Untouched'
      BY <1>1, <1>3, <2>3, <3>1 DEF Replacing, Untouched
    <3> QED
      BY <2>1, <3>2
  <2> QED
    BY <2>2, <2>3
<1>7. JobUnderWay'
  <2>1. Claimed(S)'
    BY <1>1, <1>2, <1>3 DEF Claimed, Linked, Follows, Chunk
  <2>2. Clear(S)'
    BY <1>1, <1>2, <1>3, <1>4, <1>5 DEF Clear
  <2>3. Progress(S)'
    BY <1>1, <1>2, <1>3 DEF Progress, Here, Rank
  <2>4. /\ ~st'.open /\ job'.id = Len(size') /\ job'.id # 0 /\ size'[job'.id] = job'.len
        /\ \A n \in Names : saved'[n] # job'.id
        /\ job'.old = OldGran(job.name)' /\ job'.slot = SlotFor(job.name)'
        /\ Directed(job.name)'
    BY <1>1, <1>3, <1>4 DEF FilesInv, JobUnderWay, OldGran, SlotFor, Directed
  <2>5. \E T \in SUBSET Gran : Claimed(T)' /\ Progress(T)' /\ Clear(T)'
    BY <2>1, <2>2, <2>3
  <2> QED
    BY <1>1, <1>3, <2>4, <2>5 DEF JobUnderWay
<1>8. OneEntryEach' /\ NamesKnown'
  BY <1>1, <1>4 DEF FilesInv, OneEntryEach, NamesKnown
<1> QED
  BY <1>6, <1>7, <1>8 DEF FilesInv

\* The entry is the name's own, or a free one and the name had none.
LEMMA SlotIsFree ==
  ASSUME Inv, FilesInv, job.pc # "idle"
  PROVE  /\ job.name \in Names /\ job.slot \in 1 .. Slots
         /\ dir[job.slot].name \in {job.name, "free"}
         /\ \A s \in Entered : dir[s].name = job.name => s = job.slot
<1>1. job.name \in Names /\ job.slot \in 1 .. Slots
  BY DEF Inv, JobOK
<1>2. /\ Holding(job.name) # {} \/ Holding("free") # {}
      /\ job.slot = IF Holding(job.name) # {} THEN Lowest(Holding(job.name))
                    ELSE Lowest(Holding("free"))
  BY DEF FilesInv, JobUnderWay, SlotFor, Directed
<1>3. \A x : Holding(x) \subseteq Nat
  BY SMT DEF Holding
<1>4. dir[job.slot].name \in {job.name, "free"}
  <2>1. job.slot \in Holding(job.name) \/ job.slot \in Holding("free")
    BY <1>2, <1>3, LowestIsLowest
  <2> QED
    BY <2>1 DEF Holding
<1>5. ASSUME NEW s \in Entered, dir[s].name = job.name PROVE s = job.slot
  <2>1. s \in Holding(job.name)
    BY <1>5 DEF Holding, Entered
  <2>2. job.slot \in Holding(job.name)
    BY <1>2, <1>3, <2>1, LowestIsLowest
  <2>3. job.slot \in Entered /\ dir[job.slot].name = job.name
    BY <1>1, <2>2 DEF Entered, Holding
  <2> QED
    BY <1>5, <2>3 DEF FilesInv, OneEntryEach
<1> QED
  BY <1>1, <1>4, <1>5

\* The entry reaches the disk: from then on the name has the new file.
LEMMA EnterFiles ==
  ASSUME Inv, Inv', FilesInv, job.pc = "entry", job' = Idle, Enter,
         UNCHANGED <<dfat, data, memory, st, size>>
  PROVE  FilesInv'
<1> DEFINE q == job.slot
           m == job.name
<1>1. /\ m \in Names /\ q \in 1 .. Slots /\ dir[q].name \in {m, "free"}
      /\ \A s \in Entered : dir[s].name = m => s = q
      /\ job.first \in Gran /\ ready
  BY SlotIsFree DEF Inv, JobOK
<1>2. /\ dir'[q] = NewEntry /\ \A s \in 1 .. Slots : s # q => dir'[s] = dir[s]
      /\ saved'[m] = job.id /\ \A n \in Names : n # m => saved'[n] = saved[n]
  <2>1. dir \in [1 .. Slots -> Entry \cup {Free, PoolEntry}] /\ saved \in [Names -> Nat]
    BY DEF Inv, TypeOK
  <2>2. dir' = [dir EXCEPT ![q] = NewEntry] /\ saved' = [saved EXCEPT ![m] = job.id]
    BY DEF Enter
  <2> HIDE DEF q, m
  <2> QED
    BY <1>1, <2>1, <2>2
<1>3. /\ NewEntry.name = m /\ NewEntry.first = job.first /\ NewEntry.lastb = Lastb(job.len)
      /\ UNCHANGED <<dfat, data, fat, ready, size>>
  BY DEF NewEntry, memory
<1>4. /\ q \in Entered' /\ dir'[q].name = m
      /\ \A s \in Entered' : s # q => s \in Entered /\ dir'[s] = dir[s] /\ dir[s].name # m
  BY <1>1, <1>2, <1>3 DEF Entered
<1>5. job'.pc = "idle" /\ dfat = fat
      /\ job.id = Len(size) /\ size[job.id] = job.len /\ \A n \in Names : saved[n] # job.id
  BY RawTypes DEF FilesInv, JobUnderWay
<1>6. PICK S \in SUBSET Gran : Claimed(S) /\ Progress(S) /\ Clear(S)
  BY DEF FilesInv, JobUnderWay
<1>7. EntriesWhole'
  <2> SUFFICES ASSUME NEW s \in Entered'
               PROVE  /\ dir'[s].first \in Gran /\ saved'[dir'[s].name] \in 1 .. Len(size')
                      /\ ReadsWhole(s)' /\ (ready' => Agrees(s)')
    BY DEF EntriesWhole
  <2>1. CASE s = q
    <3>1. FileOn(fat, data, job.first, Lastb(job.len), job.id, job.len)
      BY <1>6, JobIsWhole
    <3>2. ReadsWhole(s)'
      BY <1>2, <1>3, <1>5, <2>1, <3>1 DEF ReadsWhole
    <3>3. Agrees(s)'
      BY <1>3, <1>5 DEF Agrees
    <3>4. job.id \in 1 .. Len(size)
      <4>1. job.id \in Nat /\ Len(size) \in Nat /\ size \in Seq(Lens)
        BY DEF Inv, JobOK, TypeOK
      <4>2. job.id # 0
        BY DEF FilesInv, JobUnderWay
      <4> QED
        BY <1>5, <4>1, <4>2
    <3> QED
      BY <1>1, <1>2, <1>3, <2>1, <3>2, <3>3, <3>4
  <2>2. CASE s # q
    <3>1. s \in Entered /\ dir'[s] = dir[s] /\ dir[s].name # m /\ dir[s].name \in Names
      BY <1>4, <2>2 DEF Entered
    <3>2. saved'[dir[s].name] = saved[dir[s].name]
      BY <1>2, <3>1
    <3> QED
      BY <1>3, <1>6, <3>1, <3>2, OthersStay
  <2> QED
    BY <2>1, <2>2
<1>8. OneEntryEach'
  <2> SUFFICES ASSUME NEW r \in Entered', NEW s \in Entered', dir'[r].name = dir'[s].name
               PROVE  r = s
    BY DEF OneEntryEach
  <2>1. CASE r = q \/ s = q
    BY <1>4, <2>1
  <2>2. CASE r # q /\ s # q
    BY <1>4, <2>2 DEF FilesInv, OneEntryEach
  <2> QED
    BY <2>1, <2>2
<1>9. NamesKnown'
  <2>1. ASSUME NEW n \in Names, Holding(n)' = {} PROVE saved'[n] = 0
    <3>1. n # m
      BY <1>1, <1>4, <2>1 DEF Holding
    <3>2. Holding(n) = {}
      <4> SUFFICES ASSUME NEW s \in Holding(n) PROVE FALSE
        OBVIOUS
      <4>1. s \in 1 .. Slots /\ dir[s].name = n
        BY DEF Holding
      <4>2. s # q
        BY <1>1, <3>1, <4>1, Texts
      <4> QED
        BY <1>2, <2>1, <4>1, <4>2 DEF Holding
    <3> QED
      BY <1>2, <3>1, <3>2 DEF FilesInv, NamesKnown
  <2>2. \A n, i \in Names : saved'[n] = saved'[i] /\ saved'[n] # 0 => n = i
    BY <1>2, <1>5 DEF FilesInv, NamesKnown
  <2> QED
    BY <2>1, <2>2 DEF NamesKnown
<1>10. JobUnderWay'
  BY <1>5 DEF JobUnderWay
<1> QED
  BY <1>7, <1>8, <1>9, <1>10 DEF FilesInv

\* What was taken is linked, in its order.
LEMMA AllocatedLinks ==
  ASSUME NEW t, NEW len, NEW S, S = Taken(t, len)
  PROVE  /\ Linked(Allocated(t, len), S, len)
         /\ \A g \in Gran : g \notin S => Allocated(t, len)[g] = t[g]
<1>1. S \subseteq Gran
  BY DEF Taken, Blanks
<1>2. \A g \in Gran : Allocated(t, len)[g] =
         IF g \notin S THEN t[g]
         ELSE IF \E h \in S : Follows(S, g, h) THEN CHOOSE h \in S : Follows(S, g, h)
         ELSE Last((Chunk(S, g, len) - 1) \div SEC_SIZE + 1)
  BY DEF Allocated
<1>3. ASSUME NEW g \in S
      PROVE  LET v == Allocated(t, len)[g]
             IN  \/ v \in S /\ Follows(S, g, v)
                 \/ /\ ~\E h \in S : Follows(S, g, h)
                    /\ v = Last((Chunk(S, g, len) - 1) \div SEC_SIZE + 1)
  <2>1. g \in Gran
    BY <1>1
  <2>2. CASE \E h \in S : Follows(S, g, h)
    BY <1>2, <2>1, <2>2
  <2>3. CASE ~\E h \in S : Follows(S, g, h)
    BY <1>2, <2>1, <2>3
  <2> QED
    BY <2>2, <2>3
<1> QED
  BY <1>2, <1>3 DEF Linked

\* A file that is written anew costs no other file a granule.
LEMMA OthersSpared ==
  ASSUME Inv, FilesInv, job.pc = "idle", NEW n \in Names, NEW len \in Lens,
         NEW s \in Entered, dir[s].name # n
  PROVE  \A g \in Chain(dfat, dir[s].first) :
             /\ g \notin Taken(Afresh(n), len)
             /\ Allocated(Afresh(n), len)[g] = dfat[g]
<1> DEFINE a == dir[s].first
           id == saved[dir[s].name]
<1>1. \A x : ~Replacing(x)
  BY DEF Replacing
<1>2. \A r \in Entered : /\ ReadsWhole(r) /\ dir[r].first \in Gran
                         /\ saved[dir[r].name] \in 1 .. Len(size)
                         /\ \A g \in Chain(dfat, dir[r].first) : Table[g] = dfat[g]
  BY <1>1, TableAgrees DEF FilesInv, EntriesWhole
<1>3. dfat \in Tables /\ Table \in Tables
  BY DEF Inv, TypeOK, Tables, Table
<1>4. \A r \in Entered :
         /\ FileOn(Table, data, dir[r].first, dir[r].lastb, saved[dir[r].name],
                   size[saved[dir[r].name]])
         /\ Chain(Table, dir[r].first) = Chain(dfat, dir[r].first)
  <2> TAKE r \in Entered
  <2>1. \A g \in Chain(dfat, dir[r].first) : Table[g] = dfat[g] /\ data[g] = data[g]
    BY <1>2
  <2>2. FileOn(dfat, data, dir[r].first, dir[r].lastb, saved[dir[r].name],
               size[saved[dir[r].name]])
    BY <1>2 DEF ReadsWhole
  <2> QED
    BY <1>3, <2>1, <2>2, FileKept
<1>5. \A g \in Chain(dfat, a) : g \notin OldChain(OldGran(n))
  <2> SUFFICES ASSUME OldGran(n) \in Gran
               PROVE  Chain(Table, a) \cap Chain(Table, OldGran(n)) = {}
    BY <1>4 DEF OldChain
  <2>1. Holding(n) # {} /\ OldGran(n) = dir[Lowest(Holding(n))].first
    BY Constants DEF OldGran
  <2> DEFINE r == Lowest(Holding(n))
  <2>2. r \in Holding(n)
    <3>1. Holding(n) \subseteq Nat
      BY SMT DEF Holding
    <3> QED
      BY <2>1, <3>1, LowestIsLowest
  <2>3. r \in Entered /\ dir[r].name = n
    BY <2>2 DEF Holding, Entered
  <2>4. saved[n] # id
    <3>1. saved[n] \in 1 .. Len(size) /\ dir[s].name \in Names
      BY <1>2, <2>3 DEF Entered
    <3>2. saved[n] # 0
      BY <3>1
    <3> QED
      BY <3>1, <3>2 DEF FilesInv, NamesKnown
  <2>5. FileOn(Table, data, a, dir[s].lastb, id, size[id])
    BY <1>4
  <2>6. FileOn(Table, data, dir[r].first, dir[r].lastb, saved[n], size[saved[n]])
    BY <1>4, <2>3
  <2> HIDE DEF a, id, r
  <2>7. Chain(Table, a) \cap Chain(Table, dir[r].first) = {}
    BY <2>4, <2>5, <2>6, FilesApart
  <2> QED
    BY <2>1, <2>7 DEF r
<1>6. ASSUME NEW g \in Chain(dfat, a)
      PROVE  g \in Gran /\ Afresh(n)[g] = dfat[g] /\ dfat[g] # None
  <2>1. g \in Gran
    BY <1>2, ChainStarts
  <2>2. dfat[g] # None
    BY <1>2 DEF ReadsWhole, FileOn
  <2>3. Afresh(n)[g] = Table[g]
    BY <1>5, <2>1 DEF Afresh, Freed
  <2> QED
    BY <1>2, <2>1, <2>2, <2>3
<1>7. \A g \in Chain(dfat, a) : g \notin Taken(Afresh(n), len)
  BY <1>6 DEF Taken, Blanks
<1> QED
  BY <1>6, <1>7, AllocatedLinks

LEMMA SavedBefore ==
  ASSUME Inv, FilesInv, NEW n \in Names
  PROVE  saved[n] \in 0 .. Len(size)
<1>1. Len(size) \in Nat
  BY DEF Inv, TypeOK
<1>2. CASE Holding(n) = {}
  BY <1>1, <1>2 DEF FilesInv, NamesKnown
<1>3. CASE Holding(n) # {}
  <2>1. PICK r \in Holding(n) : TRUE
    BY <1>3
  <2>2. r \in Entered /\ dir[r].name = n
    BY <2>1 DEF Holding, Entered
  <2>3. saved[n] \in 1 .. Len(size)
    BY <2>2 DEF FilesInv, EntriesWhole
  <2> QED
    BY <1>1, <2>3
<1> QED
  BY <1>2, <1>3

\* A write is begun: in memory the old chain is freed and the new one claimed;
\* the disk has every file still, the old one of this name as well.
LEMMA BeginFiles ==
  ASSUME Inv, Inv', FilesInv, NEW n \in Names, NEW len \in Lens, Begin(n, len), torn = {}, torn' = {}
  PROVE  FilesInv'
<1>1. /\ job.pc = "idle" /\ ~st.open /\ Directed(n)
      /\ UNCHANGED <<dfat, dir, data, st, saved>>
      /\ fat' = Allocated(Afresh(n), len) /\ size' = Append(size, len)
  BY DEF Begin, disk
<1>2. /\ size \in Seq(Lens) /\ Len(size') = Len(size) + 1 /\ Len(size) \in Nat
      /\ size'[Len(size) + 1] = len /\ \A i \in 1 .. Len(size) : size'[i] = size[i]
  BY <1>1 DEF Inv, TypeOK
<1>3. Entered' = Entered /\ \A x : Holding(x)' = Holding(x)
  BY <1>1 DEF Entered, Holding
<1>4. \A x : ~Replacing(x)
  BY <1>1 DEF Replacing
<1>5. ASSUME NEW s \in Entered
      PROVE  /\ dir'[s].first \in Gran /\ saved'[dir'[s].name] \in 1 .. Len(size')
             /\ size'[saved[dir[s].name]] = size[saved[dir[s].name]]
             /\ ReadsWhole(s) /\ ReadsWhole(s)'
  <2>1. dir[s].first \in Gran /\ saved[dir[s].name] \in 1 .. Len(size) /\ ReadsWhole(s)
    BY <1>4 DEF FilesInv, EntriesWhole
  <2>2. size'[saved[dir[s].name]] = size[saved[dir[s].name]]
    BY <1>2, <2>1
  <2>3. saved[dir[s].name] \in 1 .. Len(size')
    BY <1>2, <2>1
  <2> QED
    BY <1>1, <2>1, <2>2, <2>3 DEF ReadsWhole
<1>6. ASSUME NEW s \in Entered, dir[s].name # n
      PROVE  Agrees(s)'
  <2>1. \A g \in Chain(dfat, dir[s].first) : fat'[g] = dfat[g]
    BY <1>1, <1>6, OthersSpared
  <2> QED
    BY <1>1, <2>1 DEF Agrees
<1>7. OneEntryEach' /\ NamesKnown'
  BY <1>1, <1>3 DEF FilesInv, OneEntryEach, NamesKnown
<1>8. CASE job' = Idle /\ OldGran(n) \notin Gran
  <2>1. \A s \in Entered : dir[s].name # n
    <3> SUFFICES ASSUME NEW s \in Entered, dir[s].name = n PROVE FALSE
      OBVIOUS
    <3>1. s \in Holding(n) /\ Holding(n) \subseteq Nat
      BY SMT DEF Entered, Holding
    <3>2. Lowest(Holding(n)) \in Holding(n)
      BY <3>1, LowestIsLowest
    <3>3. Lowest(Holding(n)) \in Entered
      BY <3>2 DEF Holding, Entered
    <3> QED
      BY <1>8, <3>1, <3>3 DEF OldGran, FilesInv, EntriesWhole
  <2>2. EntriesWhole'
    BY <1>1, <1>3, <1>5, <1>6, <2>1 DEF EntriesWhole
  <2>3. JobUnderWay'
    BY <1>8, RawTypes DEF JobUnderWay
  <2> QED
    BY <1>7, <2>2, <2>3 DEF FilesInv
<1>9. CASE job' = NewJob(n, len) /\ Cardinality(Taken(Afresh(n), len)) = Need(len)
  <2>1. PICK S : S = Taken(Afresh(n), len)
    OBVIOUS
  <2>2. /\ job'.pc = "data" /\ job'.name = n /\ job'.len = len /\ job'.id = Len(size) + 1
        /\ job'.slot = SlotFor(n) /\ job'.first = Lowest(S) /\ job'.gran = Lowest(S)
        /\ job'.sec = 1 /\ job'.k = 1 /\ job'.old = OldGran(n)
    BY <1>9, <2>1 DEF NewJob
  <2>3. S \in SUBSET Gran /\ S \subseteq Gran \ {PoolGran}
    <3>1. n # "pool"
      BY Texts
    <3>2. OldGran(n) \in Bytes \ {PoolGran}
      BY <3>1, HeldEntry, Constants DEF OldGran, Bytes
    <3>3. Apart(Afresh(n))
      BY <3>2, FreedIsApart DEF Afresh, Bytes, Inv, DiskOK
    <3> QED
      BY <2>1, <3>3, TakenAreBlank
  <2>4. Lowest(S) \in S /\ \A g \in S : Lowest(S) <= g
    <3>1. Cardinality(S) # 0
      BY <1>9, <2>1, Needed
    <3>2. S # {} /\ S \subseteq Nat
      <4>1. Gran \subseteq Nat
        BY SMT DEF Gran
      <4> QED
        BY <2>3, <3>1, <4>1, FS_EmptySet
    <3> QED
      BY <3>2, LowestIsLowest
  <2>5. Linked(fat', S, len)
    BY <1>1, <2>1, AllocatedLinks
  <2>6. Claimed(S)'
    <3>1. /\ S \subseteq Gran \ {PoolGran} /\ Cardinality(S) = Need(job'.len)
          /\ job'.first \in S /\ \A g \in S : job'.first <= g
          /\ Linked(fat', S, job'.len)
      BY <1>9, <2>1, <2>2, <2>3, <2>4, <2>5
    <3> QED
      BY <3>1 DEF Claimed, Linked, Follows, Chunk
  <2>7. Progress(S)'
    <3>1. \A g \in S : SectorsIn(fat'[g]) \in 1 .. GRAN_SECS
      <4>1. \A g \in S : Onward(fat', S, g) \/ Ending(fat', S, len, g)
        BY <1>9, <2>1, <2>3, <2>5, LinkedSays
      <4> QED
        BY <4>1, Constants, SMT DEF Onward, Ending
    <3>2. GRAN_SECS \in Nat
      BY Constants, SMT
    <3>3. job'.sec \in 1 .. SectorsIn(fat'[job'.gran])
      BY <2>2, <2>4, <3>1, <3>2
    <3>4. job'.k = GRAN_SECS * Rank(S, job'.gran) + job'.sec
      <4>1. Rank(S, job'.gran) = 0
        BY <2>2, <2>3, <2>4, RankFirst
      <4> QED
        BY <2>2, <3>2, <4>1
    <3>5. ASSUME NEW g \in S, NEW s \in 1 .. SectorsIn(fat'[g])
          PROVE  ~(g < job'.gran \/ (g = job'.gran /\ s < job'.sec))
      <4>1. g \in Nat /\ job'.gran \in Nat /\ job'.gran <= g
        <5>1. Gran \subseteq Nat
          BY SMT DEF Gran
        <5> QED
          BY <2>2, <2>3, <2>4, <5>1
      <4>2. s \in Nat /\ ~(s < 1)
        BY <3>1, <3>2
      <4> QED
        BY <2>2, <4>1, <4>2, SMT
    <3>6. job'.gran \in S
      BY <2>2, <2>4
    <3> QED
      BY <2>2, <3>3, <3>4, <3>5, <3>6 DEF Progress, Behind, Rank
  <2>8. Clear(S)'
    <3>1. \A s \in Entered : dir[s].name # n => Chain(dfat, dir[s].first) \cap S = {}
      BY <1>1, <2>1, OthersSpared
    <3> QED
      BY <1>1, <1>3, <2>2, <3>1 DEF Clear
  <2>9. JobUnderWay'
    <3>1. job'.id # 0 /\ \A x \in Names : saved'[x] # job'.id
      BY <1>1, <1>2, <2>2, SavedBefore
    <3>2. /\ ~st'.open /\ job'.id = Len(size') /\ size'[job'.id] = job'.len
          /\ job'.old = OldGran(n)' /\ job'.slot = SlotFor(n)' /\ Directed(n)'
      BY <1>1, <1>2, <1>3, <2>2 DEF OldGran, SlotFor, Directed
    <3>3. \E T \in SUBSET Gran : Claimed(T)' /\ Progress(T)' /\ Clear(T)'
      BY <2>3, <2>6, <2>7, <2>8
    <3> QED
      BY <2>2, <3>1, <3>2, <3>3 DEF JobUnderWay
  <2>10. EntriesWhole'
    <3>1. ASSUME NEW s \in Entered, ~Replacing(dir[s].name)'
          PROVE  dir[s].name # n
      <4> SUFFICES ASSUME dir[s].name = n PROVE FALSE
        OBVIOUS
      <4>1. s \in Holding(n) /\ Holding(n) \subseteq Nat
        BY SMT DEF Entered, Holding
      <4>2. Lowest(Holding(n)) \in Holding(n)
        BY <4>1, LowestIsLowest
      <4>3. Lowest(Holding(n)) \in Entered
        BY <4>2 DEF Holding, Entered
      <4>4. OldGran(n) \in Gran
        BY <4>1, <4>3 DEF OldGran, FilesInv, EntriesWhole
      <4> QED
        BY <1>1, <2>2, <3>1, <4>4 DEF Replacing
    <3> QED
      BY <1>1, <1>3, <1>5, <1>6, <3>1 DEF EntriesWhole
  <2> QED
    BY <1>7, <2>9, <2>10 DEF FilesInv
<1> QED
  BY <1>8, <1>9 DEF Begin, TornBy

\* A fault: what was cut short is the file's own, or nothing was.
LEMMA FaultFiles ==
  ASSUME Inv, Inv', FilesInv, Faults, torn = {}, torn' = {}
  PROVE  FilesInv'
<1>1. CASE \E landed \in BOOLEAN : Fail(landed)
  <2>1. PICK landed \in BOOLEAN : Fail(landed)
    BY <1>1
  <2>2. /\ job.pc # "idle" /\ job' = Idle /\ UNCHANGED <<memory, st, size>>
        /\ data' = (IF landed /\ job.pc = "data"
                    THEN Written(job.gran, job.sec, <<job.id, job.k>>) ELSE data)
        /\ dfat' = (IF landed /\ job.pc = "fat" THEN fat ELSE dfat)
    BY <2>1 DEF Fail
  <2>3. CASE landed /\ job.pc = "entry"
    <3>1. Enter /\ UNCHANGED <<dfat, data, memory, st, size>>
      BY <2>1, <2>2, <2>3 DEF Fail
    <3> QED
      BY <2>2, <2>3, <3>1, EnterFiles
  <2>4. CASE ~(landed /\ job.pc = "entry")
    <3>1. UNCHANGED <<dir, saved>> /\ TornBy(job.name, job.old)
      BY <2>1, <2>4 DEF Fail
    <3>2. job.old \notin Gran
      BY <3>1 DEF TornBy
    <3>3. PICK S \in SUBSET Gran : Claimed(S) /\ Progress(S) /\ Clear(S)
      BY <2>2 DEF FilesInv, JobUnderWay
    <3>4. \A g \in Gran \ S : data'[g] = data[g]
      <4>1. CASE landed /\ job.pc = "data"
        <5>1. job.gran \in S /\ job.gran \in Gran /\ job.sec \in 1 .. GRAN_SECS
          <6>1. job.gran \in S /\ job.sec \in 1 .. SectorsIn(fat[job.gran])
            BY <3>3, <4>1 DEF Progress
          <6>2. job.len \in Lens
            BY <2>2 DEF Inv, JobOK
          <6>3. Onward(fat, S, job.gran) \/ Ending(fat, S, job.len, job.gran)
            BY <3>3, <6>1, <6>2, LinkedSays DEF Claimed
          <6>4. SectorsIn(fat[job.gran]) \in 1 .. GRAN_SECS /\ GRAN_SECS \in Nat
            BY <6>3, Constants, SMT DEF Onward, Ending
          <6> QED
            BY <6>1, <6>4
        <5> QED
          BY <2>2, <4>1, <5>1, WrittenThere
      <4>2. CASE ~(landed /\ job.pc = "data")
        BY <2>2, <4>2
      <4> QED
        BY <4>1, <4>2
    <3> QED
      BY <2>2, <3>1, <3>2, <3>3, <3>4, CutShort
  <2> QED
    BY <2>3, <2>4
<1>2. CASE PowerOff
  <2>1. ready' = FALSE /\ job' = Idle /\ UNCHANGED <<dfat, dir, data, size, saved>>
    BY <1>2 DEF PowerOff, disk
  <2>2. Entered' = Entered /\ job'.pc = "idle" /\ \A x : Holding(x)' = Holding(x)
    BY <2>1, RawTypes DEF Entered, Holding
  <2>3. \A s \in Entered : ~Replacing(dir[s].name) \/ Untouched
    <3> SUFFICES ASSUME NEW s \in Entered, Replacing(dir[s].name) PROVE Untouched
      OBVIOUS
    <3>1. job.pc # "idle" /\ job.old \in Gran
      BY DEF Replacing
    <3>2. ~(job.k > 1 \/ job.pc # "data")
      BY <1>2, <3>1 DEF PowerOff, TornBy
    <3>3. job.k \in Nat
      BY DEF Inv, JobOK
    <3> QED
      BY <3>2, <3>3, SMT DEF Untouched
  <2>4. EntriesWhole'
    BY <2>1, <2>2, <2>3 DEF FilesInv, EntriesWhole, ReadsWhole
  <2>5. OneEntryEach' /\ NamesKnown' /\ JobUnderWay'
    BY <2>1, <2>2 DEF FilesInv, OneEntryEach, NamesKnown, JobUnderWay
  <2> QED
    BY <2>4, <2>5 DEF FilesInv
<1> QED
  BY <1>1, <1>2 DEF Faults

\* Nothing mends a torn file.
LEMMA StaysTorn == ASSUME [Next]_vars, torn # {} PROVE torn' # {}
  BY DEF Next, Begin, Refuse, Writing, PutSector, PutTable, PutEntry, Faults, Fail, PowerOff,
         Reading, ReadAll, OpenNothing, ReadByte, ReadFails, Close, RawSector, Open,
         TornBy, vars, past

LEMMA StutterFiles ==
  ASSUME FilesInv, UNCHANGED <<dfat, dir, data, ready, fat, st, job, size, saved>>
  PROVE  FilesInv'
<1>1. Entered' = Entered /\ \A x : Holding(x)' = Holding(x)
  BY DEF Entered, Holding
<1>2. \A s : /\ ReadsWhole(s)' = ReadsWhole(s) /\ Agrees(s)' = Agrees(s)
             /\ Replacing(s)' = Replacing(s)
  BY DEF ReadsWhole, Agrees, Replacing
<1>3. Untouched' = Untouched
  BY DEF Untouched
<1>4. OneEntryEach' /\ EntriesWhole' /\ NamesKnown'
  BY <1>1, <1>2, <1>3 DEF FilesInv, OneEntryEach, EntriesWhole, NamesKnown
<1>5. ASSUME NEW S \in SUBSET Gran, Claimed(S), Progress(S), Clear(S)
      PROVE  Claimed(S)' /\ Progress(S)' /\ Clear(S)'
  <2>1. Claimed(S)'
    BY <1>5 DEF Claimed, Linked, Follows, Chunk
  <2>2. Progress(S)'
    BY <1>5 DEF Progress, Here, Behind, Rank
  <2>3. Clear(S)'
    BY <1>1, <1>5 DEF Clear
  <2> QED
    BY <2>1, <2>2, <2>3
<1>6. JobUnderWay'
  <2>1. SlotFor(job.name)' = SlotFor(job.name) /\ OldGran(job.name)' = OldGran(job.name)
        /\ (Directed(job.name) => Directed(job.name)')
    BY <1>1 DEF SlotFor, OldGran, Directed
  <2> QED
    BY <1>5, <2>1 DEF FilesInv, JobUnderWay
<1> QED
  BY <1>4, <1>6 DEF FilesInv

LEMMA FilesStep ==
  ASSUME Inv, Inv', torn = {} => FilesInv, [Next]_vars
  PROVE  torn' = {} => FilesInv'
<1> SUFFICES ASSUME torn' = {} PROVE FilesInv'
  OBVIOUS
<1>1. torn = {} /\ FilesInv
  BY StaysTorn
<1>2. job.pc # "idle" => ~st.open
  BY <1>1 DEF FilesInv, JobUnderWay
<1>3. CASE \E n \in Names, len \in Lens : Begin(n, len)
  BY <1>1, <1>3, BeginFiles
<1>4. CASE Refuse \/ Reading \/ UNCHANGED vars
  <2>1. CASE job.pc = "idle"
    <3>1. UNCHANGED <<disk, job, past>> /\ (DiskReady \/ UNCHANGED memory)
      BY <1>4 DEF Refuse, Reading, ReadAll, OpenNothing, ReadByte, ReadFails, Close,
                  RawSector, Open, vars
    <3> QED
      BY <1>1, <2>1, <3>1, QuietFiles
  <2>2. CASE job.pc # "idle"
    <3>1. UNCHANGED vars
      BY <1>2, <1>4, <2>2 DEF Refuse, Reading, ReadAll, OpenNothing, ReadByte, ReadFails,
                  Close, RawSector, Open
    <3>2. UNCHANGED <<dfat, dir, data, ready, fat, st, job, size, saved>>
      BY <3>1 DEF vars, disk, memory, past
    <3> QED
      BY <1>1, <3>2, StutterFiles
  <2> QED
    BY <2>1, <2>2
<1>5. CASE Writing
  <2>1. CASE PutEntry
    BY <1>1, <2>1, EnterFiles DEF PutEntry
  <2> QED
    BY <1>1, <1>5, <2>1, PutSectorFiles, PutTableFiles DEF Writing
<1>6. CASE Faults
  BY <1>1, <1>6, FaultFiles
<1> QED
  BY <1>3, <1>4, <1>5, <1>6 DEF Next

LEMMA FilesAlways == Spec => [](Inv /\ (torn = {} => FilesInv))
<1>1. Init => Inv /\ (torn = {} => FilesInv)
  BY InitInv, FilesBegin
<1>2. Inv /\ (torn = {} => FilesInv) /\ [Next]_vars => (Inv /\ (torn = {} => FilesInv))'
  BY InvStep, FilesStep
<1> QED
  BY <1>1, <1>2, PTL DEF Spec

\* A name whose entry reads whole holds what was last written under it.
LEMMA HoldsSaved ==
  ASSUME Inv, FilesInv, NEW n \in Names, ~Replacing(n)
  PROVE  Holds(dfat, n) = saved[n] /\ (ready => Holds(fat, n) = saved[n])
<1>1. CASE Holding(n) = {}
  BY <1>1 DEF Holds, FilesInv, NamesKnown
<1>2. CASE Holding(n) # {}
  <2> DEFINE s == Lowest(Holding(n))
             e == dir[s]
             id == saved[n]
  <2>1. s \in Entered /\ dir[s].name = n
    <3>1. Holding(n) \subseteq Nat
      BY SMT DEF Holding
    <3>2. s \in Holding(n)
      BY <1>2, <3>1, LowestIsLowest
    <3> QED
      BY <3>2 DEF Holding, Entered
  <2>2. ReadsWhole(s) /\ (ready => Agrees(s)) /\ id \in 1 .. Len(size) /\ e.first \in Gran
    BY <2>1 DEF FilesInv, EntriesWhole
  <2>3. FileOn(dfat, data, e.first, e.lastb, id, size[id])
    BY <2>1, <2>2 DEF ReadsWhole
  <2>4. ready => FileOn(fat, data, e.first, e.lastb, id, size[id])
    <3> SUFFICES ASSUME ready PROVE FileOn(fat, data, e.first, e.lastb, id, size[id])
      OBVIOUS
    <3>1. \A g \in Chain(dfat, e.first) : fat[g] = dfat[g] /\ data[g] = data[g]
      BY <2>2 DEF Agrees
    <3>2. dfat \in Tables /\ fat \in Tables
      BY DEF Inv, TypeOK, Tables
    <3> HIDE DEF e, id
    <3> QED
      BY <2>3, <3>1, <3>2, FileKept
  <2>5. id \in DOMAIN size
    BY <2>2 DEF Inv, TypeOK
  <2>6. ASSUME NEW t, FileOn(t, data, e.first, e.lastb, id, size[id])
        PROVE  Holds(t, n) = id
    <3>1. Spells(t, e, id) /\ data[e.first][1][1] = id /\ e.first \in Gran
      <4> HIDE DEF e, id
      <4> QED
        BY <2>6, FileSpells
    <3> QED
      BY <1>2, <2>5, <3>1 DEF Holds
  <2> HIDE DEF e
  <2> QED
    BY <2>3, <2>4, <2>6
<1> QED
  BY <1>1, <1>2

\* As long as no replacement has been cut short, every file reads back whole as
\* it was last written, from the disk and by the table in memory, on a disk of
\* any geometry, whatever failed before and at every step of another's write.
THEOREM TheFilesAreWhole == Spec => []FilesAreWhole
<1>1. Inv /\ (torn = {} => FilesInv) => FilesAreWhole
  BY HoldsSaved DEF FilesAreWhole
<1> QED
  BY <1>1, FilesAlways, PTL

-----------------------------------------------------------------------------
(* The cabinet *)

Contents == [n \in Names |-> IF Replacing(n) THEN saved[n] ELSE Holds(dfat, n)]

LEMMA ContentsAreSaved == Inv /\ FilesInv => Contents = saved
<1> SUFFICES ASSUME Inv, FilesInv PROVE Contents = saved
  OBVIOUS
<1>1. saved \in [Names -> Nat]
  BY DEF Inv, TypeOK
<1>2. \A n \in Names : Contents[n] = saved[n]
  BY HoldsSaved DEF Contents
<1> QED
  BY <1>1, <1>2 DEF Contents

\* And after a step as before it.
LEMMA ContentsStaySaved == (Inv /\ FilesInv => Contents = saved)'
  BY ContentsAreSaved, PTL

LEMMA SavedSteps == ASSUME [Next]_vars PROVE saved' = saved \/ (job.pc # "idle" /\ Enter)
  BY DEF Next, Begin, Refuse, Writing, PutSector, PutTable, PutEntry, Faults, Fail, PowerOff,
         Reading, ReadAll, OpenNothing, ReadByte, ReadFails, Close, RawSector, Open,
         vars, past

LEMMA CabinetBegins == Init => C!Init
<1> SUFFICES ASSUME Init PROVE C!Init
  OBVIOUS
<1>1. torn = {} /\ saved = [n \in Names |-> 0]
  BY DEF Init
<1>2. Contents = saved
  BY InitInv, FilesBegin, ContentsAreSaved
<1> QED
  BY <1>1, <1>2 DEF C!Init, Contents

LEMMA CabinetSteps ==
  ASSUME Inv, Inv', torn = {} => FilesInv, torn' = {} => FilesInv', [Next]_vars
  PROVE  [C!Next]_<<Contents, torn>>
<1>1. CASE torn' # {}
  BY <1>1 DEF C!Next, C!Tear
<1>2. CASE torn' = {}
  <2>1. torn = {} /\ FilesInv /\ FilesInv'
    BY <1>2, StaysTorn
  <2>2. Contents = saved /\ Contents' = saved'
    <3>1. Contents' = saved'
      BY <2>1, ContentsStaySaved
    <3> QED
      BY <2>1, <3>1, ContentsAreSaved
  <2>3. CASE saved' = saved
    BY <1>2, <2>1, <2>2, <2>3
  <2>4. CASE job.pc # "idle" /\ Enter
    <3>0. job.name \in Names
      BY <2>4 DEF Inv, JobOK
    <3> PICK m \in Names : m = job.name
      BY <3>0
    <3>1. m \in Names /\ saved \in [Names -> Nat] /\ job.id \in Nat /\ Len(size) \in Nat
      <4>1. saved \in [Names -> Nat] /\ size \in Seq(Lens)
        BY DEF Inv, TypeOK
      <4>2. job.id \in Nat
        BY DEF Inv, JobOK
      <4> QED
        BY <4>1, <4>2
    <3>2. saved' = [saved EXCEPT ![m] = job.id]
      BY <2>4 DEF Enter
    <3>3. saved[m] \in 0 .. Len(size) /\ job.id = Len(size) /\ saved[m] # job.id
      BY <2>1, <2>4, <3>1, SavedBefore DEF FilesInv, JobUnderWay
    <3>4. saved'[m] = job.id /\ saved'[m] > saved[m]
      BY <3>1, <3>2, <3>3
    <3>5. Contents'[m] > Contents[m] /\ Contents' = [Contents EXCEPT ![m] = Contents'[m]]
      BY <2>2, <3>2, <3>4
    <3>6. C!Store(m)
      BY <1>2, <2>1, <3>5 DEF C!Store, Contents
    <3> QED
      BY <3>1, <3>6 DEF C!Next
  <2> QED
    BY <2>3, <2>4, SavedSteps
<1> QED
  BY <1>1, <1>2

\* Granule by granule and fault by fault, the files behave as core/storage.h has
\* it: a name keeps what it holds until the whole of a newer write takes its
\* place at once, as long as no replacement was cut short.
THEOREM GranulesImplementCabinet == Spec => ImplementsCabinet
<1>1. Inv /\ Inv' /\ (torn = {} => FilesInv) /\ (torn = {} => FilesInv)' /\ [Next]_vars
      => [C!Next]_<<[n \in Names |-> IF Replacing(n) THEN saved[n] ELSE Holds(dfat, n)], torn>>
  BY CabinetSteps DEF Contents
<1>2. Init => C!Init
  BY CabinetBegins
<1> QED
  BY <1>1, <1>2, FilesAlways, PTL DEF Spec, ImplementsCabinet, C!Spec

-----------------------------------------------------------------------------
(* The stream gives its file *)

\* The sectors a stream x has fetched; and x, with b in the buffer, as far into
\* the file of entry s as it has given bytes.
Fetched(x) == data[x.gran][1][2] - 1 + x.sec
Counted(x) == IF IsLast(fat[x.gran]) /\ x.sec = SectorsIn(fat[x.gran])
              THEN x.lastbytes ELSE SEC_SIZE
Playing(x, b, s) ==
    /\ x.id = saved[dir[s].name] /\ x.lastbytes = dir[s].lastb
    /\ x.gran \in Chain(dfat, dir[s].first) /\ x.sec \in 0 .. SectorsIn(fat[x.gran])
    /\ x.heard + SEC_SIZE = SEC_SIZE * Fetched(x) + x.pos
    /\ x.sec = 0 => x.pos = SEC_SIZE /\ x.avail <= SEC_SIZE
    /\ x.sec > 0 => /\ x.avail = Counted(x) /\ x.pos <= x.avail
                    /\ x.pos < x.avail => b = <<x.id, Fetched(x)>>

StreamInv ==
    st.open =>
        /\ ready /\ job.pc = "idle"
        /\ st.pure /\ (st.ended => st.heard = size[st.id])
        /\ \E s \in Entered : Playing(st, secbuf, s)

\* What a granule of a whole file says, in the table that is read by.
Says(g, s) ==
    LET v == data[g][1][2]
        n == SectorsIn(fat[g])
        id == saved[dir[s].name]
    IN  /\ g \in Gran /\ n \in 1 .. GRAN_SECS /\ v \in Nat \ {0}
        /\ \A k \in 1 .. n : data[g][k] = <<id, v + k - 1>>
        /\ IsLast(fat[g]) => /\ ~Links(fat, g)
                             /\ size[id] = SEC_SIZE * (v + n - 2) + dir[s].lastb
        /\ ~IsLast(fat[g]) => /\ Links(fat, g) /\ n = GRAN_SECS
                              /\ fat[g] \in Chain(dfat, dir[s].first)
                              /\ data[fat[g]][1][2] = v + GRAN_SECS
                              /\ SEC_SIZE * (v + GRAN_SECS - 1) <= size[id]

LEMMA GranuleSays ==
  ASSUME Inv, FilesInv, job.pc = "idle", ready, NEW s \in Entered,
         NEW g \in Chain(dfat, dir[s].first)
  PROVE  Says(g, s) /\ fat[g] = dfat[g]
<1>1. ReadsWhole(s) /\ Agrees(s) /\ dir[s].first \in Gran
  BY DEF FilesInv, EntriesWhole, Replacing
<1>2. fat[g] = dfat[g] /\ g \in Gran
  BY <1>1, ChainStarts DEF Agrees
<1>3. ~IsLast(fat[g]) => /\ Links(fat, g) /\ fat[g] \in Chain(dfat, dir[s].first)
                         /\ SectorsIn(fat[g]) = GRAN_SECS
  <2> SUFFICES ASSUME ~IsLast(fat[g])
               PROVE  /\ Links(fat, g) /\ fat[g] \in Chain(dfat, dir[s].first)
                      /\ SectorsIn(fat[g]) = GRAN_SECS
    OBVIOUS
  <2>1. dfat[g] \in Gran
    BY <1>1, <1>2 DEF ReadsWhole, FileOn
  <2>2. Links(dfat, g) /\ Links(fat, g)
    BY <1>2, <2>1, GranulesAssumption, SMT DEF Links, Gran
  <2>3. dfat \in Tables
    BY DEF Inv, TypeOK, Tables
  <2> QED
    BY <1>1, <1>2, <2>2, <2>3, ChainKept DEF Kept, SectorsIn
<1> QED
  BY <1>1, <1>2, <1>3 DEF ReadsWhole, FileOn, Says, Links

LEMMA LastbFits == ASSUME Inv, NEW s \in Entered PROVE dir[s].lastb \in 1 .. SEC_SIZE
<1>1. dir[s] \in Entry \cup {Free, PoolEntry} /\ dir[s].name \in Names
  BY DEF Inv, TypeOK, Entered
<1>2. dir[s] \in Entry
  BY <1>1, Texts DEF Free, PoolEntry
<1> QED
  BY <1>2 DEF Entry

\* No more is given than the file has.
LEMMA HeardWithin ==
  ASSUME Inv, FilesInv, job.pc = "idle", ready, NEW s \in Entered,
         NEW x \in Streams, NEW b, Playing(x, b, s)
  PROVE  x.heard <= size[x.id]
<1> DEFINE g == x.gran
           v == data[g][1][2]
           n == SectorsIn(fat[g])
           z == size[x.id]
           k == Fetched(x)
           B == SEC_SIZE
<1>1. /\ n \in 1 .. GRAN_SECS /\ v \in Nat \ {0} /\ k = v - 1 + x.sec /\ x.sec \in 0 .. n
      /\ IsLast(fat[g]) => z = B * (v + n - 2) + x.lastbytes
      /\ ~IsLast(fat[g]) => n = GRAN_SECS /\ B * (v + GRAN_SECS - 1) <= z
      /\ x.lastbytes \in 1 .. B
  BY GranuleSays, LastbFits DEF Playing, Says, Fetched
<1>2. B \in Nat \ {0} /\ GRAN_SECS \in Nat
  BY Constants, SMT
<1>3. /\ x.heard + B = B * k + x.pos
      /\ x.sec = 0 => x.pos = B
      /\ x.sec > 0 => x.pos <= Counted(x)
      /\ Counted(x) = IF IsLast(fat[g]) /\ x.sec = n THEN x.lastbytes ELSE B
  BY DEF Playing, Counted
<1>4. x.heard \in Nat /\ x.pos \in Nat /\ x.sec \in Nat
  BY DEF Streams
<1> HIDE DEF g, v, n, z, k, B
<1>5. n \in Nat /\ n >= 1 /\ v \in Nat /\ v >= 1 /\ k \in Nat /\ x.sec <= n
  BY <1>1, <1>2, <1>4
<1>6. CASE IsLast(fat[g]) /\ x.sec = n
  <2>1. x.pos <= x.lastbytes
    BY <1>3, <1>5, <1>6
  <2>2. k = (v + n - 2) + 1 /\ v + n - 2 \in Nat
    BY <1>1, <1>5, <1>6
  <2> DEFINE w == v + n - 2
             p == B * w
  <2>3. p \in Nat /\ B * k = p + B
    <3> HIDE DEF w
    <3> QED
      BY <1>2, <2>2 DEF w
  <2>4. z = p + x.lastbytes
    BY <1>1, <1>6
  <2> HIDE DEF p
  <2> QED
    BY <1>1, <1>2, <1>3, <1>4, <2>1, <2>3, <2>4 DEF z
<1>7. CASE ~(IsLast(fat[g]) /\ x.sec = n)
  <2>1. x.pos <= B
    BY <1>2, <1>3, <1>4, <1>7
  <2>2. x.heard <= B * k
    <3> DEFINE p == B * k
    <3>1. p \in Nat /\ x.heard + B = p + x.pos
      BY <1>2, <1>3, <1>5
    <3> HIDE DEF p
    <3>2. x.heard <= p
      BY <1>2, <1>4, <2>1, <3>1
    <3> QED
      BY <3>2 DEF p
  <2>3. B * k \in Nat
    BY <1>2, <1>5
  <2>4. CASE IsLast(fat[g])
    <3> DEFINE w == v + n - 2
    <3>1. k <= w /\ w \in Nat
      BY <1>1, <1>5, <1>7, <2>4
    <3> HIDE DEF w
    <3>2. B * k <= B * w
      BY <1>2, <1>5, <3>1, Scale
    <3> DEFINE p == B * w
    <3>3. p \in Nat /\ z = p + x.lastbytes
      BY <1>1, <1>2, <2>4, <3>1 DEF w
    <3> DEFINE o == B * k
    <3>4. o \in Nat /\ o <= p /\ x.heard <= o
      BY <2>2, <2>3, <3>2
    <3> HIDE DEF p, o
    <3> QED
      BY <1>1, <1>2, <1>4, <3>3, <3>4 DEF z
  <2>5. CASE ~IsLast(fat[g])
    <3> DEFINE w == v + GRAN_SECS - 1
    <3>1. k <= w /\ w \in Nat
      BY <1>1, <1>2, <1>5, <2>5
    <3> HIDE DEF w
    <3>2. B * k <= B * w
      BY <1>2, <1>5, <3>1, Scale
    <3>3. B * w <= z
      BY <1>1, <2>5 DEF w
    <3>4. size[x.id] \in Nat
      <4>1. size \in Seq(Lens) /\ x.id \in 1 .. Len(size)
        BY DEF Inv, TypeOK, Playing, FilesInv, EntriesWhole
      <4>2. Lens \subseteq Nat
        BY Constants
      <4>3. size[x.id] \in Lens
        BY <4>1
      <4> QED
        BY <4>2, <4>3
    <3> DEFINE o == B * k
               p == B * w
    <3>5. o \in Nat /\ p \in Nat /\ o <= p /\ x.heard <= o /\ p <= z
      BY <1>2, <2>2, <2>3, <3>1, <3>2, <3>3
    <3> HIDE DEF p, o
    <3> QED
      BY <1>4, <3>4, <3>5 DEF z
  <2> QED
    BY <2>4, <2>5
<1> QED
  BY <1>6, <1>7

\* Its buffer used up and the file not at its end, the stream stands before a
\* sector that is the file's next.
LEMMA MovedOn ==
  ASSUME Inv, FilesInv, job.pc = "idle", ready, NEW s \in Entered, st.open,
         Playing(st, secbuf, s), st.pos >= st.avail, ~AtEnd(st)
  PROVE  LET m == Moved(st)
         IN  /\ m \in Streams /\ m.gran \in Chain(dfat, dir[s].first)
             /\ m.sec \in 0 .. (SectorsIn(fat[m.gran]) - 1)
             /\ m.pos = SEC_SIZE /\ m.heard = SEC_SIZE * Fetched(m)
             /\ m.open = st.open /\ m.id = st.id /\ m.lastbytes = st.lastbytes
             /\ m.pure = st.pure /\ m.ended = st.ended /\ m.avail = st.avail
             /\ (m.sec > 0 => m = st)
             /\ m.avail <= SEC_SIZE
<1> DEFINE g == st.gran
           v == data[g][1][2]
           n == SectorsIn(fat[g])
<1>0. st \in Streams
  BY DEF Inv, StreamOK, Streams
<1>1. Says(g, s) /\ fat[g] = dfat[g] /\ SEC_SIZE \in Nat \ {0} /\ GRAN_SECS \in Nat
  <2>1. GRAN_SECS \in Nat
    BY Constants, SMT
  <2> QED
    BY <2>1, GranuleSays, Constants DEF Playing
<1>2. g \in Gran /\ n \in 1 .. GRAN_SECS /\ v \in Nat \ {0} /\ st.sec \in 0 .. n
  BY <1>1 DEF Says, Playing
<1>3. st.lastbytes \in 1 .. SEC_SIZE
  BY LastbFits DEF Playing
<1>4. st.heard \in Nat /\ st.pos \in Nat /\ st.avail \in Nat /\ st.sec \in Nat /\ st.sec <= n /\ n \in Nat
  BY <1>0, <1>1, <1>2 DEF Streams
<1>5. st.avail <= SEC_SIZE
  <2>1. Counted(st) <= SEC_SIZE
    BY <1>1, <1>3 DEF Counted
  <2> QED
    BY <1>4, <2>1 DEF Playing
<1>6. AtGranuleEnd(st) <=> st.sec = n
  BY <1>4 DEF AtGranuleEnd
<1>7. ~(IsLast(fat[g]) /\ st.sec = n)
  <2> SUFFICES ASSUME IsLast(fat[g]), st.sec = n PROVE FALSE
    OBVIOUS
  <2>1. ~Links(fat, g)
    BY <1>1 DEF Says
  <2> QED
    BY <1>6, <2>1 DEF AtEnd
<1>8. st.pos = SEC_SIZE
  <2>1. CASE st.sec = 0
    BY <2>1 DEF Playing
  <2>2. CASE st.sec > 0
    <3>1. st.avail = SEC_SIZE /\ st.pos <= st.avail
      BY <1>7, <2>2 DEF Playing, Counted
    <3> QED
      BY <1>1, <1>4, <3>1
  <2> QED
    BY <1>4, <2>1, <2>2
<1>9. st.heard = SEC_SIZE * Fetched(st)
  <2> DEFINE p == SEC_SIZE * Fetched(st)
  <2>1. p \in Nat
    <3>1. Fetched(st) \in Nat
      BY <1>2, <1>4 DEF Fetched
    <3> QED
      BY <1>1, <3>1
  <2>2. st.heard + SEC_SIZE = p + st.pos
    BY DEF Playing
  <2> HIDE DEF p
  <2>3. st.heard = p
    BY <1>1, <1>4, <1>8, <2>1, <2>2
  <2> QED
    BY <2>3 DEF p
<1>10. CASE st.sec = n /\ Links(fat, g)
  <2> DEFINE h == fat[g]
             m == [st EXCEPT !.gran = h, !.sec = 0]
  <2>1. Moved(st) = m
    BY <1>6, <1>10 DEF Moved
  <2>2. ~IsLast(fat[g]) /\ n = GRAN_SECS /\ h \in Chain(dfat, dir[s].first)
        /\ data[h][1][2] = v + GRAN_SECS
    BY <1>1, <1>10 DEF Says
  <2>3. SectorsIn(fat[h]) \in 1 .. GRAN_SECS
    BY <2>2, GranuleSays DEF Says
  <2>4. m \in Streams /\ m.gran = h /\ m.sec = 0 /\ m.pos = st.pos /\ m.heard = st.heard
        /\ m.open = st.open /\ m.id = st.id /\ m.lastbytes = st.lastbytes
        /\ m.pure = st.pure /\ m.ended = st.ended /\ m.avail = st.avail
    <3>1. h \in Bytes
      <4>1. h \in Gran
        BY <1>2, <1>10, InvTables, LinkLeads
      <4>2. Gran \subseteq Bytes
        BY Constants, SMT DEF Bytes
      <4> QED
        BY <4>1, <4>2
    <3> HIDE DEF h
    <3> QED
      BY <1>0, <3>1 DEF Streams
  <2>5. Fetched(m) = Fetched(st)
    <3>1. Fetched(m) = data[h][1][2] - 1 + 0
      BY <2>4 DEF Fetched
    <3>2. Fetched(st) = v - 1 + GRAN_SECS
      BY <1>10, <2>2 DEF Fetched
    <3> HIDE DEF h, v
    <3> QED
      BY <1>1, <1>2, <2>2, <3>1, <3>2
  <2>6. 0 \in 0 .. (SectorsIn(fat[h]) - 1)
    BY <1>1, <2>3
  <2> HIDE DEF m, h
  <2> QED
    BY <1>5, <1>8, <1>9, <2>1, <2>2, <2>4, <2>5, <2>6
<1>11. CASE ~(st.sec = n /\ Links(fat, g))
  <2>1. Moved(st) = st
    BY <1>6, <1>11 DEF Moved
  <2>2. st.sec # n
    BY <1>2, <1>6, <1>11 DEF AtEnd
  <2>3. st.sec \in 0 .. (n - 1)
    BY <1>4, <2>2
  <2> QED
    BY <1>0, <1>5, <1>8, <1>9, <2>1, <2>3 DEF Playing
<1> QED
  BY <1>10, <1>11

\* The next byte out of a buffer that holds the sector the stream is in.
LEMMA NextByte ==
  ASSUME NEW x \in Streams, NEW b, NEW k \in Nat, b = <<x.id, k + 1>>,
         x.heard = SEC_SIZE * k + x.pos, x.pos < SEC_SIZE
  PROVE  IsNextByte(x, b)
<1>1. x.heard \in Nat /\ x.pos \in Nat /\ SEC_SIZE \in Nat \ {0}
  BY Constants DEF Streams
<1>2. x.heard \div SEC_SIZE = k /\ x.heard % SEC_SIZE = x.pos
  BY <1>1, DivIs
<1> QED
  BY <1>2 DEF IsNextByte

LEMMA HeardFields ==
  ASSUME NEW x \in Streams, NEW b, IsNextByte(x, b)
  PROVE  LET y == Heard(x, b)
         IN  /\ y \in Streams /\ y.pos = x.pos + 1 /\ y.heard = x.heard + 1 /\ y.pure = x.pure
             /\ y.open = x.open /\ y.gran = x.gran /\ y.sec = x.sec /\ y.avail = x.avail
             /\ y.lastbytes = x.lastbytes /\ y.id = x.id /\ y.ended = x.ended
<1>1. Heard(x, b) = [x EXCEPT !.pos = x.pos + 1, !.heard = x.heard + 1,
                              !.pure = x.pure /\ IsNextByte(x, b)]
  BY DEF Heard, Streams
<1>2. x.pure \in BOOLEAN /\ (x.pure /\ IsNextByte(x, b)) = x.pure
  BY DEF Streams
<1> QED
  BY <1>1, <1>2, HeardType DEF Streams

\* What a step of the reader leaves: the disk, the table, and its own invariant
\* if the stream is where it should be.
LEMMA StreamGoesOn ==
  ASSUME Inv, Inv', FilesInv, job.pc = "idle", ready, NEW s \in Entered,
         UNCHANGED <<disk, memory, job, past>>,
         Playing(st', secbuf', s), st'.pure, st'.ended => st'.heard = size[st'.id]
  PROVE  StreamInv'
<1>1. UNCHANGED <<dfat, dir, data, ready, fat, job, size, saved>>
  BY DEF disk, memory, past
<1>2. Entered' = Entered
  BY <1>1 DEF Entered
<1>3. Playing(st, secbuf, s)'
  BY <1>1 DEF Playing, Fetched, Counted
<1> QED
  BY <1>1, <1>2, <1>3 DEF StreamInv

LEMMA ReadByteStream ==
  ASSUME Inv, Inv', FilesInv, StreamInv, ReadByte
  PROVE  StreamInv'
<1>0. /\ st.open /\ ready /\ job.pc = "idle" /\ st.pure /\ (st.ended => st.heard = size[st.id])
      /\ st \in Streams /\ UNCHANGED <<disk, memory, job, past>>
  BY DEF ReadByte, StreamInv, Inv, StreamOK, Streams
<1> PICK s \in Entered : Playing(st, secbuf, s)
  BY <1>0 DEF StreamInv
<1>1. /\ SEC_SIZE \in Nat \ {0} /\ GRAN_SECS \in Nat /\ Says(st.gran, s)
      /\ st.lastbytes \in 1 .. SEC_SIZE
  <2>1. GRAN_SECS \in Nat
    BY Constants, SMT
  <2> QED
    BY <1>0, <2>1, GranuleSays, LastbFits, Constants DEF Playing
<1>2. /\ st.pos \in Nat /\ st.heard \in Nat /\ st.avail \in Nat /\ st.sec \in Nat
      /\ st' \in Streams
  BY <1>0 DEF Streams, Inv, StreamOK
\* A byte more, and it is still within the file: the file had not ended.
<1>3. ASSUME Playing(st', secbuf', s), st'.heard = st.heard + 1, st'.id = st.id
      PROVE  ~st.ended
  <2>1. st'.heard <= size[st'.id]
    BY <1>0, <1>2, <1>3, HeardWithin
  <2>2. st.ended => st.heard = size[st.id]
    BY <1>0
  <2> QED
    BY <1>2, <1>3, <2>1, <2>2
<1>4. CASE st.pos < st.avail
  <2>1. st' = Heard(st, secbuf) /\ secbuf' = secbuf
    BY <1>4 DEF ReadByte
  <2>2. st.sec > 0
    BY <1>1, <1>2, <1>4 DEF Playing
  <2>3. st.avail = Counted(st) /\ secbuf = <<st.id, Fetched(st)>> /\ st.avail <= SEC_SIZE
    BY <1>1, <1>4, <2>2 DEF Playing, Counted
  <2> DEFINE k == Fetched(st) - 1
  <2>4. k \in Nat /\ Fetched(st) = k + 1
    <3>1. data[st.gran][1][2] \in Nat \ {0}
      BY <1>1 DEF Says
    <3>2. Fetched(st) = data[st.gran][1][2] - 1 + st.sec
      BY DEF Fetched
    <3> QED
      BY <1>2, <2>2, <3>1, <3>2
  <2>5. st.heard = SEC_SIZE * k + st.pos
    <3>1. st.heard + SEC_SIZE = SEC_SIZE * (k + 1) + st.pos
      BY <2>4 DEF Playing
    <3> HIDE DEF k
    <3>2. SEC_SIZE * (k + 1) = SEC_SIZE * k + SEC_SIZE /\ SEC_SIZE * k \in Nat
      BY <1>1, <2>4
    <3> QED
      BY <1>1, <1>2, <3>1, <3>2
  <2>6. IsNextByte(st, secbuf)
    <3> HIDE DEF k
    <3>1. st.pos < SEC_SIZE
      BY <1>1, <1>2, <1>4, <2>3
    <3> QED
      BY <1>0, <2>3, <2>4, <2>5, <3>1, NextByte
  <2>7. /\ st'.pos = st.pos + 1 /\ st'.heard = st.heard + 1 /\ st'.pure = st.pure
        /\ st'.gran = st.gran /\ st'.sec = st.sec /\ st'.avail = st.avail
        /\ st'.lastbytes = st.lastbytes /\ st'.id = st.id /\ st'.ended = st.ended
    BY <1>0, <2>1, <2>6, HeardFields
  <2>8. Playing(st', secbuf', s)
    <3>1. Fetched(st') = Fetched(st) /\ Counted(st') = Counted(st)
      BY <2>7 DEF Fetched, Counted
    <3>2. st'.heard + SEC_SIZE = SEC_SIZE * Fetched(st) + st'.pos
      <4> DEFINE p == SEC_SIZE * Fetched(st)
      <4>1. p \in Nat /\ st.heard + SEC_SIZE = p + st.pos
        <5>1. Fetched(st) \in Nat
          <6> HIDE DEF k
          <6> QED
            BY <2>4
        <5> QED
          BY <1>1, <5>1 DEF Playing
      <4> HIDE DEF p
      <4>2. st'.heard + SEC_SIZE = p + st'.pos
        BY <1>1, <1>2, <2>7, <4>1
      <4> QED
        BY <4>2 DEF p
    <3>3. st'.pos <= st'.avail
      BY <1>2, <1>4, <2>7
    <3> QED
      BY <1>2, <2>1, <2>2, <2>3, <2>7, <3>1, <3>2, <3>3 DEF Playing
  <2> QED
    BY <1>0, <1>3, <2>7, <2>8, StreamGoesOn
<1>5. CASE ~(st.pos < st.avail) /\ AtEnd(st)
  <2>1. st' = [st EXCEPT !.ended = TRUE] /\ secbuf' = secbuf
    BY <1>5 DEF ReadByte
  <2>2. /\ st'.pos = st.pos /\ st'.heard = st.heard /\ st'.pure = st.pure
        /\ st'.gran = st.gran /\ st'.sec = st.sec /\ st'.avail = st.avail
        /\ st'.lastbytes = st.lastbytes /\ st'.id = st.id
    BY <1>0, <2>1 DEF Streams
  <2>3. Playing(st', secbuf', s)
    BY <2>1, <2>2 DEF Playing, Fetched, Counted
  <2> DEFINE g == st.gran
             v == data[g][1][2]
             n == SectorsIn(fat[g])
             w == v + n - 2
             p == SEC_SIZE * w
  <2>4. /\ g \in Gran /\ n \in 1 .. GRAN_SECS /\ v \in Nat \ {0} /\ st.sec \in 0 .. n
        /\ IsLast(fat[g]) /\ size[st.id] = p + st.lastbytes
    <3>1. g \in Gran
      BY <1>1 DEF Says
    <3>2. IsLast(fat[g])
      BY <1>1, <1>5, <3>1 DEF AtEnd, Says
    <3> QED
      BY <1>1, <3>2 DEF Says, Playing
  <2>5. st.sec = n /\ st.sec > 0
    <3>1. st.sec >= n
      BY <1>5, <2>4 DEF AtEnd, AtGranuleEnd
    <3> HIDE DEF g, n, p, v
    <3> QED
      BY <1>1, <1>2, <2>4, <3>1
  <2>6. st.pos = st.lastbytes
    <3>1. st.avail = st.lastbytes /\ st.pos <= st.avail
      BY <2>4, <2>5 DEF Playing, Counted
    <3> QED
      BY <1>2, <1>5, <3>1
  <2>7. st.heard + SEC_SIZE = SEC_SIZE * (w + 1) + st.lastbytes
    <3>1. Fetched(st) = v - 1 + n
      BY <2>5 DEF Fetched
    <3>2. v - 1 + n = w + 1
      <4> HIDE DEF g, n, v
      <4> QED
        BY <1>1, <2>4
    <3> QED
      BY <2>6, <3>1, <3>2 DEF Playing
  <2>8. w \in Nat
    <3> HIDE DEF g, n, v
    <3> QED
      BY <1>1, <2>4
  <2>9. SEC_SIZE * (w + 1) = p + SEC_SIZE /\ p \in Nat
    <3> HIDE DEF w
    <3> QED
      BY <1>1, <2>8
  <2>10. st.heard = size[st.id]
    <3> HIDE DEF p, w
    <3> QED
      BY <1>1, <1>2, <2>4, <2>7, <2>9
  <2> HIDE DEF g, v, n, w, p
  <2> QED
    BY <1>0, <2>2, <2>3, <2>10, StreamGoesOn
<1>6. CASE ~(st.pos < st.avail) /\ ~AtEnd(st)
  <2> DEFINE m == Moved(st)
             b == SectorAt(m.gran, m.sec + 1)
             x == NextSector(st)
             a == IF IsLast(fat[m.gran]) /\ m.sec = SectorsIn(fat[m.gran]) - 1
                  THEN m.lastbytes ELSE SEC_SIZE
  <2>1. st' = Heard(x, b) /\ secbuf' = b
    BY <1>6 DEF ReadByte
  <2>2. /\ m \in Streams /\ m.gran \in Chain(dfat, dir[s].first)
        /\ m.sec \in 0 .. (SectorsIn(fat[m.gran]) - 1)
        /\ m.pos = SEC_SIZE /\ m.heard = SEC_SIZE * Fetched(m)
        /\ m.open = st.open /\ m.id = st.id /\ m.lastbytes = st.lastbytes
        /\ m.pure = st.pure /\ m.ended = st.ended
    <3>1. st.pos >= st.avail
      BY <1>2, <1>6
    <3> QED
      BY <1>0, <1>6, <3>1, MovedOn
  <2>3. Says(m.gran, s)
    BY <1>0, <2>2, GranuleSays
  <2>4. x = [m EXCEPT !.avail = a, !.sec = m.sec + 1, !.pos = 0] /\ x \in Streams
    BY <1>6, <2>2, NextSectorType DEF NextSector, Streams
  <2> HIDE DEF m
  <2>5. /\ x.pos = 0 /\ x.sec = m.sec + 1 /\ x.avail = a /\ x.gran = m.gran /\ x.heard = m.heard
        /\ x.open = st.open /\ x.id = st.id /\ x.lastbytes = st.lastbytes
        /\ x.pure = st.pure /\ x.ended = st.ended
    <3> HIDE DEF a, x
    <3> QED
      BY <2>2, <2>4 DEF Streams
  <2> HIDE DEF x, b, a
  <2> DEFINE v == data[m.gran][1][2]
             n == SectorsIn(fat[m.gran])
             k == Fetched(m)
  <2>6. /\ n \in 1 .. GRAN_SECS /\ v \in Nat \ {0} /\ n \in Nat /\ m.sec \in Nat /\ m.sec + 1 <= n
        /\ m.sec + 1 \in 1 .. n /\ m.sec + 1 \in 1 .. GRAN_SECS
    <3>1. n \in 1 .. GRAN_SECS /\ v \in Nat \ {0} /\ m.sec \in 0 .. (n - 1)
      BY <2>2, <2>3 DEF Says
    <3> HIDE DEF n, v
    <3> QED
      BY <1>1, <3>1
  <2>7. k = v - 1 + m.sec /\ k \in Nat /\ k + 1 = v + (m.sec + 1) - 1
    <3>1. k = v - 1 + m.sec
      BY DEF Fetched
    <3> HIDE DEF k, v, n
    <3> QED
      BY <2>6, <3>1
  <2>8. b = <<st.id, k + 1>>
    <3>1. b = data[m.gran][m.sec + 1]
      BY <2>6 DEF SectorAt, b
    <3>2. data[m.gran][m.sec + 1] = <<st.id, v + (m.sec + 1) - 1>>
      BY <2>3, <2>6 DEF Says, Playing
    <3> HIDE DEF k, v
    <3> QED
      BY <2>7, <3>1, <3>2
  <2>9. SEC_SIZE * k \in Nat /\ x.heard = SEC_SIZE * k
    <3>1. x.heard = SEC_SIZE * k
      BY <2>2, <2>5
    <3> HIDE DEF k
    <3> QED
      BY <1>1, <2>7, <3>1
  <2>10. IsNextByte(x, b)
    <3> HIDE DEF k
    <3>1. b = <<x.id, k + 1>> /\ x.heard = SEC_SIZE * k + x.pos /\ x.pos < SEC_SIZE
      BY <1>1, <2>5, <2>8, <2>9
    <3> QED
      BY <2>4, <2>7, <3>1, NextByte
  <2>11. /\ st'.pos = 1 /\ st'.heard = x.heard + 1 /\ st'.pure = st.pure
         /\ st'.gran = m.gran /\ st'.sec = m.sec + 1 /\ st'.avail = a
         /\ st'.lastbytes = st.lastbytes /\ st'.id = st.id /\ st'.ended = st.ended
    <3>1. x.pos + 1 = 1
      BY <2>5
    <3> DEFINE y == Heard(x, b)
    <3>2. /\ y.pos = x.pos + 1 /\ y.heard = x.heard + 1 /\ y.pure = x.pure
          /\ y.gran = x.gran /\ y.sec = x.sec /\ y.avail = x.avail
          /\ y.lastbytes = x.lastbytes /\ y.id = x.id /\ y.ended = x.ended
      BY <2>4, <2>10, HeardFields, ZenonT(60)
    <3>3. st' = y
      BY <2>1
    <3> HIDE DEF y
    <3> QED
      BY <2>5, <3>1, <3>2, <3>3
  <2>12. Playing(st', secbuf', s)
    <3>1. Fetched(st') = k + 1
      <4>1. Fetched(st') = v - 1 + (m.sec + 1)
        BY <2>11 DEF Fetched
      <4> HIDE DEF k, v, n
      <4> QED
        BY <2>6, <2>7, <4>1
    <3>2. Counted(st') = a
      <4>1. m.sec = n - 1 <=> m.sec + 1 = n
        <5> HIDE DEF n
        <5> QED
          BY <2>6
      <4> QED
        BY <2>2, <2>11, <4>1 DEF Counted, a
    <3>3. a \in 1 .. SEC_SIZE
      BY <1>1, <2>2 DEF a
    <3>4. st'.heard + SEC_SIZE = SEC_SIZE * (k + 1) + st'.pos
      <4>1. SEC_SIZE * (k + 1) = SEC_SIZE * k + SEC_SIZE
        <5> HIDE DEF k
        <5> QED
          BY <1>1, <2>7
      <4> DEFINE p == SEC_SIZE * k
      <4>2. p \in Nat /\ st'.heard = p + 1 /\ SEC_SIZE * (k + 1) = p + SEC_SIZE
        BY <2>9, <2>11, <4>1
      <4> HIDE DEF p, k
      <4> QED
        BY <1>1, <2>11, <4>2
    <3>5. st'.sec \in 0 .. n /\ st'.sec > 0
      <4> HIDE DEF n, k, v
      <4> QED
        BY <2>6, <2>11
    <3>6. st'.pos <= st'.avail
      BY <1>1, <2>11, <3>3
    <3>7. secbuf' = <<st'.id, k + 1>>
      BY <2>1, <2>8, <2>11
    <3>8. st'.id = saved[dir[s].name] /\ st'.lastbytes = dir[s].lastb
      BY <2>11 DEF Playing
    <3>9. st'.gran \in Chain(dfat, dir[s].first) /\ st'.sec \in 0 .. SectorsIn(fat[st'.gran])
      BY <2>2, <2>11, <3>5
    <3>10. st'.sec # 0 /\ st'.avail = Counted(st')
      BY <1>2, <2>11, <3>2, <3>5
    <3> HIDE DEF k, v, n
    <3> QED
      BY <3>1, <3>4, <3>5, <3>6, <3>7, <3>8, <3>9, <3>10 DEF Playing
  <2>13. ~st.ended
    <3>1. st'.heard = st.heard + 1
      <4>1. m.heard = st.heard
        BY <1>0, <1>6 DEF Moved, Streams, m
      <4> QED
        BY <2>5, <2>11, <4>1
    <3> QED
      BY <1>3, <2>11, <2>12, <3>1
  <2> QED
    BY <1>0, <2>11, <2>12, <2>13, StreamGoesOn
<1> QED
  BY <1>4, <1>5, <1>6

\* The drive fails: the stream stands before the sector it could not fetch.
LEMMA ReadFailsStream ==
  ASSUME Inv, Inv', FilesInv, StreamInv, ReadFails
  PROVE  StreamInv'
<1>0. /\ st.open /\ ready /\ job.pc = "idle" /\ st.pure /\ (st.ended => st.heard = size[st.id])
      /\ st \in Streams /\ UNCHANGED <<disk, memory, job, past>>
      /\ st' = Moved(st) /\ st.pos >= st.avail /\ ~AtEnd(st)
  BY DEF ReadFails, StreamInv, Inv, StreamOK, Streams
<1> PICK s \in Entered : Playing(st, secbuf, s)
  BY <1>0 DEF StreamInv
<1>1. /\ st' \in Streams /\ st'.gran \in Chain(dfat, dir[s].first)
      /\ st'.sec \in 0 .. (SectorsIn(fat[st'.gran]) - 1)
      /\ st'.pos = SEC_SIZE /\ st'.heard = SEC_SIZE * Fetched(st')
      /\ st'.id = st.id /\ st'.lastbytes = st.lastbytes
      /\ st'.pure = st.pure /\ st'.ended = st.ended /\ st'.avail = st.avail
      /\ (st'.sec > 0 => st' = st) /\ st'.avail <= SEC_SIZE
  BY <1>0, MovedOn
<1>2. st'.heard = st.heard
  BY <1>0 DEF Moved, Streams
<1>3. st'.sec \in 0 .. SectorsIn(fat[st'.gran])
  <2>1. SectorsIn(fat[st'.gran]) \in Nat
    <3>1. SectorsIn(fat[st'.gran]) \in 1 .. GRAN_SECS /\ GRAN_SECS \in Nat
      <4>1. Says(st'.gran, s)
        BY <1>0, <1>1, GranuleSays, Zenon
      <4> QED
        BY <4>1, Constants DEF Says
    <3> QED
      BY <3>1
  <2> QED
    BY <1>1, <2>1
<1>4. st'.sec > 0 => /\ st'.avail = Counted(st') /\ st'.pos <= st'.avail
                     /\ ~(st'.pos < st'.avail)
  <2>1. st'.sec > 0 => st'.avail = Counted(st') /\ st'.pos <= st'.avail
    BY <1>1 DEF Playing
  <2>2. ~(st'.pos < st'.avail)
    BY <1>1, Constants DEF Streams
  <2> QED
    BY <2>1, <2>2
<1>5. st'.heard + SEC_SIZE = SEC_SIZE * Fetched(st') + st'.pos
  BY <1>1
<1>6. Playing(st', secbuf', s)
  BY <1>1, <1>3, <1>4, <1>5 DEF Playing
<1> QED
  BY <1>0, <1>1, <1>2, <1>6, StreamGoesOn

\* Opened, it stands before the first sector of the entry's file.
LEMMA OpenStream ==
  ASSUME Inv, Inv', FilesInv, NEW n \in Names, Open(n)
  PROVE  StreamInv'
<1>0. Lowest(Holding(n)) \in Entered /\ dir[Lowest(Holding(n))].name = n
  <2>1. Holding(n) \subseteq Nat
    BY SMT DEF Holding
  <2>2. Lowest(Holding(n)) \in Holding(n)
    BY <2>1, LowestIsLowest DEF Open
  <2> QED
    BY <2>2 DEF Holding, Entered
<1> PICK s \in Entered : s = Lowest(Holding(n))
  BY <1>0
<1> DEFINE e == dir[s]
<1>1. /\ job.pc = "idle" /\ Holding(n) # {} /\ ready' = TRUE
      /\ st' = [Closed EXCEPT !.open = TRUE, !.gran = e.first, !.pos = SEC_SIZE,
                              !.lastbytes = e.lastb, !.id = saved[n]]
      /\ UNCHANGED <<dfat, dir, data, job, size, saved>>
  BY DEF Open, DiskReady, disk, past
<1>2. e.name = n
  BY <1>0
<1>3. e.first \in Gran /\ data[e.first][1] = <<saved[n], 1>>
  BY <1>1, <1>2 DEF FilesInv, EntriesWhole, Replacing, ReadsWhole, FileOn
<1>4. s \in Entered'
  BY <1>1 DEF Entered
<1>5. /\ st'.open /\ st'.gran = e.first /\ st'.sec = 0 /\ st'.pos = SEC_SIZE /\ st'.avail = 0
      /\ st'.lastbytes = e.lastb /\ st'.id = saved[n] /\ st'.heard = 0
      /\ st'.pure = TRUE /\ st'.ended = FALSE
  <2> HIDE DEF e
  <2> QED
    BY <1>1 DEF Closed
<1>6. Fetched(st)' = 0
  <2>1. data'[st'.gran][1] = <<saved[n], 1>>
    BY <1>1, <1>3, <1>5
  <2>2. Fetched(st)' = data'[st'.gran][1][2] - 1 + st'.sec
    BY DEF Fetched
  <2> QED
    BY <1>5, <2>1, <2>2
<1>7. (st.heard)' + SEC_SIZE = SEC_SIZE * Fetched(st)' + st'.pos
  BY <1>5, <1>6, Constants
<1>8. 0 \in 0 .. SectorsIn(fat'[st'.gran])
  <2>1. fat'[st'.gran] \in 0 .. 255
    <3>1. st'.gran \in Gran
      BY <1>3, <1>5
    <3> QED
      BY <3>1, SMTT(60) DEF Inv, TypeOK
  <2>2. SectorsIn(fat'[st'.gran]) \in Nat
    BY <2>1, Constants, SMT DEF SectorsIn, IsLast
  <2> QED
    BY <2>2
<1>9. e.first \in Chain(dfat, e.first)
  BY <1>3, ChainStarts
<1>10. Playing(st, secbuf, s)'
  <2>1. /\ (st.id = saved[dir[s].name])' /\ (st.lastbytes = dir[s].lastb)'
        /\ (st.gran \in Chain(dfat, dir[s].first))'
    BY <1>1, <1>2, <1>5, <1>9
  <2>2. (st.sec \in 0 .. SectorsIn(fat[st.gran]))'
    BY <1>5, <1>8
  <2>3. (st.sec = 0 => st.pos = SEC_SIZE /\ st.avail <= SEC_SIZE)' /\ ~(st.sec > 0)'
    BY <1>5, Constants
  <2> QED
    BY <1>7, <2>1, <2>2, <2>3 DEF Playing
<1> QED
  BY <1>1, <1>4, <1>5, <1>10 DEF StreamInv

LEMMA StreamStep ==
  ASSUME Inv, Inv', torn = {} => FilesInv /\ StreamInv, [Next]_vars
  PROVE  torn' = {} => StreamInv'
<1> SUFFICES ASSUME torn' = {} PROVE StreamInv'
  OBVIOUS
<1>1. FilesInv /\ StreamInv
  BY StaysTorn
<1>2. job.pc # "idle" => ~st.open
  BY <1>1 DEF FilesInv, JobUnderWay
<1>3. ASSUME st' = st, ~st.open PROVE StreamInv'
  BY <1>3 DEF StreamInv
<1>4. ASSUME st' = Closed PROVE StreamInv'
  BY <1>4 DEF StreamInv, Closed
<1>5. CASE (\E n \in Names, len \in Lens : Begin(n, len)) \/ Refuse \/ ReadAll
  BY <1>3, <1>5 DEF Begin, Refuse, ReadAll
<1>6. CASE Writing \/ \E landed \in BOOLEAN : Fail(landed)
  BY <1>2, <1>3, <1>6 DEF Writing, PutSector, PutTable, PutEntry, Fail
<1>7. CASE PowerOff \/ OpenNothing \/ Close
  BY <1>4, <1>7 DEF PowerOff, OpenNothing, Close
<1>8. CASE RawSector \/ UNCHANGED vars
  <2>1. CASE st.open
    <3>1. UNCHANGED <<dfat, dir, data, ready, fat, secbuf, st, job, size, saved>>
      BY <1>1, <1>8, <2>1 DEF RawSector, DiskReady, Table, StreamInv, vars, disk, memory, past
    <3>2. Entered' = Entered
      BY <3>1 DEF Entered
    <3>3. \A s : Playing(st, secbuf, s)' = Playing(st, secbuf, s)
      BY <3>1 DEF Playing, Fetched, Counted
    <3> QED
      BY <1>1, <3>1, <3>2, <3>3 DEF StreamInv
  <2>2. CASE ~st.open
    BY <1>3, <1>8, <2>2 DEF RawSector, vars
  <2> QED
    BY <2>1, <2>2
<1>9. CASE ReadByte \/ ReadFails \/ \E n \in Names : Open(n)
  BY <1>1, <1>9, ReadByteStream, ReadFailsStream, OpenStream
<1> QED
  BY <1>5, <1>6, <1>7, <1>8, <1>9 DEF Next, Faults, Reading

\* As long as no replacement has been cut short, a stream gives the bytes of
\* the file it was opened on, in order and to the last, on a disk of any
\* geometry, however often the drive fails it and whatever is fetched from the
\* string pool in between.
THEOREM TheStreamIsItsFile == Spec => []StreamIsItsFile
<1> DEFINE All == Inv /\ (torn = {} => FilesInv /\ StreamInv)
<1>1. Init => All
  <2> SUFFICES ASSUME Init PROVE All
    OBVIOUS
  <2>1. ~st.open
    BY DEF Init, Closed
  <2> QED
    BY <2>1, InitInv, FilesBegin DEF StreamInv
<1>2. All /\ [Next]_vars => All'
  BY InvStep, FilesStep, StreamStep
<1>3. All => StreamIsItsFile
  <2> SUFFICES ASSUME All, st.open, torn = {}
               PROVE  /\ st.pure /\ st.heard <= size[st.id]
                      /\ st.ended => st.heard = size[st.id]
    BY DEF StreamIsItsFile
  <2>1. st \in Streams
    BY DEF Inv, StreamOK, Streams
  <2> QED
    BY <2>1, HeardWithin DEF StreamInv
<1> QED
  BY <1>1, <1>2, <1>3, PTL DEF Spec

-----------------------------------------------------------------------------
(* A write comes to the end of its chain, whatever the rest of the disk has   *)
(* become: the chain it follows is the one it claimed.                        *)

\* The granules up to a whole number of them, and the sectors of what is left.
LEMMA SectorsAre ==
  ASSUME NEW len \in Nat \ {0}, NEW r \in Nat, GRAN_BYTES * r <= len - 1
  PROVE  /\ (len - GRAN_BYTES * r - 1) \div SEC_SIZE \in Nat
         /\ Sectors(len) = GRAN_SECS * r + ((len - GRAN_BYTES * r - 1) \div SEC_SIZE + 1)
<1> DEFINE B == SEC_SIZE
           p == GRAN_BYTES * r
           u == GRAN_SECS * r
           a == len - p - 1
           q == a \div B
           m == a % B
<1>1. p \in Nat /\ u \in Nat /\ p = B * u /\ B \in Nat \ {0}
  <2>1. B \in Nat \ {0} /\ GRAN_SECS \in Nat /\ GRAN_BYTES = GRAN_SECS * B
    BY Constants, SMT DEF GRAN_BYTES
  <2> QED
    BY <2>1, SMT
<1>2. p <= len - 1
  OBVIOUS
<1> HIDE DEF B, p, u
<1>3. a \in Nat /\ len - 1 = p + a
  BY <1>1, <1>2
<1> HIDE DEF a
<1>4. q \in Nat /\ m \in Nat /\ m < B /\ a = B * q + m
  BY <1>1, <1>3, DivMod
<1> HIDE DEF q, m
<1> DEFINE w == u + q
<1>5. w \in Nat /\ B * w = B * u + B * q
  BY <1>1, <1>4
<1>6. len - 1 = B * w + m /\ len - 1 \in Nat
  <2> HIDE DEF w
  <2>1. B * q \in Nat /\ B * u \in Nat /\ B * w \in Nat
    BY <1>1, <1>4, <1>5
  <2> QED
    BY <1>1, <1>3, <1>4, <1>5, <2>1
<1> HIDE DEF w
<1>7. (len - 1) \div B = w
  BY <1>1, <1>4, <1>5, <1>6, DivIs
<1>8. Sectors(len) = u + (q + 1)
  <2>1. Sectors(len) = w + 1
    BY <1>7 DEF Sectors, B
  <2> QED
    BY <1>1, <1>4, <2>1 DEF w
<1> QED
  BY <1>4, <1>8 DEF q, a, p, u, B

\* Where a write is on the granules S: the first part of Progress.
March(S) ==
    /\ job.gran \in S /\ job.sec \in 1 .. SectorsIn(fat[job.gran])
    /\ job.k = GRAN_SECS * Rank(S, job.gran) + job.sec
Chained == job.pc = "data" => \E S \in SUBSET Gran : Claimed(S) /\ March(S)

\* It is never past the file's last sector, and is there when the chain ends.
LEMMA MarchWithin ==
  ASSUME Inv, job.pc = "data", NEW S \in SUBSET Gran, Claimed(S), March(S)
  PROVE  /\ job.k \in Nat /\ Sectors(job.len) \in Nat /\ job.k <= Sectors(job.len)
         /\ Ending(fat, S, job.len, job.gran) /\ ~(job.sec < SectorsIn(fat[job.gran]))
               => job.k = Sectors(job.len)
<1> DEFINE g == job.gran
           r == Rank(S, g)
           n == Sectors(job.len)
           c == SectorsIn(fat[g])
           u == GRAN_SECS * r
<1>1. /\ job.len \in Lens /\ job.len \in Nat \ {0} /\ g \in S /\ g \in Gran
      /\ Onward(fat, S, g) \/ Ending(fat, S, job.len, g)
  BY LinkedSays, Constants, ZenonT(60) DEF Inv, JobOK, March, Claimed
<1>2. GRAN_SECS \in Nat \ {0} /\ r \in Nat /\ u \in Nat
  <2>1. GRAN_SECS \in Nat \ {0} /\ r \in Nat
    <3>1. GRAN_SECS \in Nat \ {0}
      BY Constants, SMT
    <3>2. r \in Nat
      BY <1>1, RankType, Zenon
    <3> QED
      BY <3>1, <3>2
  <2> HIDE DEF r
  <2> QED
    BY <2>1
<1>3. job.k = u + job.sec /\ job.sec \in 1 .. c
  BY DEF March
<1>4. CASE Ending(fat, S, job.len, g)
  <2>1. r + 1 = Need(job.len)
    BY <1>1, <1>4, RankBelow DEF Ending, Claimed
  <2>2. GRAN_BYTES * r <= job.len - 1
    BY <1>1, <1>2, <2>1, Needed
  <2>3. n = u + c /\ c \in Nat
    <3>1. c = (job.len - GRAN_BYTES * r - 1) \div SEC_SIZE + 1
      BY <1>4 DEF Ending
    <3> HIDE DEF r, c
    <3> QED
      BY <1>1, <1>2, <2>2, <3>1, SectorsAre
  <2> HIDE DEF u, c, n
  <2> QED
    BY <1>2, <1>3, <2>3 DEF n, c
<1>5. CASE Onward(fat, S, g)
  <2>1. r + 1 < Need(job.len)
    <3>1. Rank(S, fat[g]) = r + 1 /\ fat[g] \in S
      BY <1>1, <1>5, RankNext DEF Onward
    <3>2. r + 1 + 1 <= Need(job.len) /\ Need(job.len) \in Nat
      BY <3>1, RankBelow DEF Claimed
    <3> QED
      BY <1>2, <3>2
  <2>2. GRAN_BYTES * (r + 1) <= job.len - 1 /\ r + 1 \in Nat
    BY <1>1, <1>2, <2>1, Needed
  <2> DEFINE q == (job.len - GRAN_BYTES * (r + 1) - 1) \div SEC_SIZE
  <2>3. n = GRAN_SECS * (r + 1) + (q + 1) /\ q \in Nat
    BY <1>1, <2>2, SectorsAre
  <2>4. GRAN_SECS * (r + 1) = u + GRAN_SECS
    <3> HIDE DEF r
    <3> QED
      BY <1>2
  <2>5. c = GRAN_SECS /\ ~Ending(fat, S, job.len, g)
    BY <1>5 DEF Onward, Ending
  <2> HIDE DEF q, u, c, n
  <2> DEFINE e == GRAN_SECS * (r + 1)
  <2>6. n = e + (q + 1) /\ e = u + GRAN_SECS
    BY <2>3, <2>4
  <2> HIDE DEF e
  <2> QED
    BY <1>2, <1>3, <2>3, <2>5, <2>6 DEF n, c
<1> QED
  BY <1>1, <1>4, <1>5

\* The granules claimed for a new file are linked, and the write is at their first.
LEMMA BeginChained ==
  ASSUME Inv, NEW n \in Names, NEW len \in Lens, Begin(n, len)
  PROVE  Chained'
<1> SUFFICES ASSUME job'.pc = "data"
             PROVE  \E S \in SUBSET Gran : Claimed(S)' /\ March(S)'
  BY DEF Chained
<1>1. /\ job' = NewJob(n, len) /\ Cardinality(Taken(Afresh(n), len)) = Need(len)
      /\ fat' = Allocated(Afresh(n), len)
  BY DEF Begin, Idle
<1>2. PICK S : S = Taken(Afresh(n), len)
  OBVIOUS
<1>3. /\ job'.len = len /\ job'.first = Lowest(S) /\ job'.gran = Lowest(S)
      /\ job'.sec = 1 /\ job'.k = 1
  BY <1>1, <1>2 DEF NewJob
<1>4. S \in SUBSET Gran /\ S \subseteq Gran \ {PoolGran}
  <2>1. n # "pool"
    BY Texts
  <2>2. OldGran(n) \in Bytes \ {PoolGran}
    BY <2>1, HeldEntry, Constants DEF OldGran, Bytes
  <2>3. Apart(Afresh(n))
    BY <2>2, FreedIsApart DEF Afresh, Bytes, Inv, DiskOK
  <2> QED
    BY <1>2, <2>3, TakenAreBlank
<1>5. Lowest(S) \in S /\ \A g \in S : Lowest(S) <= g
  <2>1. Cardinality(S) # 0
    BY <1>1, <1>2, Needed
  <2>2. S # {} /\ S \subseteq Nat
    <3>1. Gran \subseteq Nat
      BY SMT DEF Gran
    <3> QED
      BY <1>4, <2>1, <3>1, FS_EmptySet
  <2> QED
    BY <2>2, LowestIsLowest
<1>6. Linked(fat', S, len)
  BY <1>1, <1>2, AllocatedLinks
<1>7. Claimed(S)'
  <2>1. /\ S \subseteq Gran \ {PoolGran} /\ Cardinality(S) = Need(job'.len)
        /\ job'.first \in S /\ \A g \in S : job'.first <= g
        /\ Linked(fat', S, job'.len)
    BY <1>1, <1>2, <1>3, <1>4, <1>5, <1>6
  <2> QED
    BY <2>1 DEF Claimed, Linked, Follows, Chunk
<1>8. March(S)'
  <2>1. \A g \in S : SectorsIn(fat'[g]) \in 1 .. GRAN_SECS
    <3>1. \A g \in S : Onward(fat', S, g) \/ Ending(fat', S, len, g)
      BY <1>1, <1>2, <1>4, <1>6, LinkedSays
    <3> QED
      BY <3>1, Constants, SMT DEF Onward, Ending
  <2>2. GRAN_SECS \in Nat
    BY Constants, SMT
  <2>3. job'.sec \in 1 .. SectorsIn(fat'[job'.gran])
    BY <1>3, <1>5, <2>1, <2>2
  <2>4. job'.k = GRAN_SECS * Rank(S, job'.gran) + job'.sec
    <3>1. Rank(S, job'.gran) = 0
      BY <1>3, <1>4, <1>5, RankFirst
    <3> QED
      BY <1>3, <2>2, <3>1
  <2>5. job'.gran \in S
    BY <1>3, <1>5
  <2> QED
    BY <2>3, <2>4, <2>5 DEF March, Rank
<1> QED
  BY <1>4, <1>7, <1>8

\* A sector further along the chain, or a granule on; or the chain is at its end.
LEMMA PutSectorChained ==
  ASSUME Inv, Chained, PutSector
  PROVE  /\ Chained'
         /\ \/ job'.pc = "data" /\ job'.k = job.k + 1
            \/ job'.pc = "fat" /\ job.k = Sectors(job.len)
         /\ job'.len = job.len
<1>1. /\ job.pc = "data" /\ UNCHANGED fat
      /\ job \in [pc : {"idle", "data", "fat", "entry"}, name : Names \cup {"free"},
                  len : Nat, id : Nat, slot : Nat, first : Bytes, gran : Bytes,
                  sec : Nat, k : Nat, old : Bytes]
      /\ job.len \in Lens
  BY DEF PutSector, memory, Inv, JobOK
<1>2. PICK S \in SUBSET Gran : Claimed(S) /\ March(S)
  BY <1>1 DEF Chained
<1> DEFINE g == job.gran
           r == Rank(S, g)
           c == SectorsIn(fat[g])
<1>3. /\ g \in S /\ job.sec \in 1 .. c /\ job.k = GRAN_SECS * r + job.sec
      /\ Onward(fat, S, g) \/ Ending(fat, S, job.len, g)
  BY <1>1, <1>2, LinkedSays DEF March, Claimed
<1>4. \A h \in S : SectorsIn(fat[h]) \in 1 .. GRAN_SECS
  <2>1. \A h \in S : Onward(fat, S, h) \/ Ending(fat, S, job.len, h)
    BY <1>1, <1>2, LinkedSays DEF Claimed
  <2> QED
    BY <2>1, Constants, SMT DEF Onward, Ending
<1>0. GRAN_SECS \in Nat /\ r \in Nat /\ GRAN_SECS * r \in Nat
  <2>1. GRAN_SECS \in Nat /\ r \in Nat
    <3>1. GRAN_SECS \in Nat
      BY Constants, SMT
    <3>2. g \in Gran
      BY <1>3
    <3>3. r \in Nat
      BY <3>2, RankType, Zenon
    <3> QED
      BY <3>1, <3>3
  <2> HIDE DEF r
  <2> QED
    BY <2>1
<1>5. job'.len = job.len /\ job'.first = job.first
  BY <1>1 DEF PutSector
<1>6. Claimed(S)'
  BY <1>1, <1>2, <1>5 DEF Claimed, Linked, Follows, Chunk
<1>7. CASE job.sec < c
  <2>1. job'.pc = "data" /\ job'.gran = g /\ job'.sec = job.sec + 1 /\ job'.k = job.k + 1
    BY <1>1, <1>7 DEF PutSector
  <2>2. job'.sec \in 1 .. c
    BY <1>0, <1>3, <1>4, <1>7, <2>1
  <2>3. job'.k = GRAN_SECS * r + job'.sec
    <3> DEFINE u == GRAN_SECS * r
    <3>1. u \in Nat /\ job.k = u + job.sec /\ job.sec \in Nat
      BY <1>0, <1>1, <1>3
    <3> HIDE DEF u
    <3>2. job'.k = u + job'.sec
      BY <2>1, <3>1
    <3> QED
      BY <3>2 DEF u
  <2>4. March(S)'
    BY <1>1, <1>3, <2>1, <2>2, <2>3 DEF March, Rank
  <2> QED
    BY <1>5, <1>6, <2>1, <2>4 DEF Chained
<1>8. CASE ~(job.sec < c) /\ Links(fat, g)
  <2> DEFINE n == fat[g]
  <2>1. job'.pc = "data" /\ job'.gran = n /\ job'.sec = 1 /\ job'.k = job.k + 1
    BY <1>1, <1>8 DEF PutSector
  <2>2. n \in S /\ Follows(S, g, n) /\ c = GRAN_SECS
    BY <1>3, <1>8 DEF Onward, Ending
  <2>3. job.sec = GRAN_SECS
    BY <1>0, <1>3, <1>8, <2>2
  <2>4. job'.k = GRAN_SECS * Rank(S, n) + 1
    <3>1. r \in Nat /\ GRAN_SECS \in Nat
      BY <1>0
    <3>2. Rank(S, n) = r + 1
      BY <1>3, <2>2, RankNext
    <3>3. GRAN_SECS * (r + 1) = GRAN_SECS * r + GRAN_SECS
      BY <3>1, SMT
    <3> QED
      BY <1>3, <2>1, <2>3, <3>2, <3>3
  <2>5. job'.sec \in 1 .. SectorsIn(fat[n])
    BY <1>0, <1>4, <2>1, <2>2
  <2>6. March(S)'
    BY <1>1, <2>1, <2>2, <2>4, <2>5 DEF March, Rank
  <2> QED
    BY <1>5, <1>6, <2>1, <2>6 DEF Chained
<1>9. CASE ~(job.sec < c) /\ ~Links(fat, g)
  <2>1. job'.pc = "fat"
    BY <1>1, <1>9 DEF PutSector
  <2>2. Ending(fat, S, job.len, g)
    BY <1>3, <1>9 DEF Onward
  <2>3. job.k = Sectors(job.len)
    BY <1>1, <1>2, <1>9, <2>2, MarchWithin
  <2> QED
    BY <1>5, <2>1, <2>3 DEF Chained
<1> QED
  BY <1>7, <1>8, <1>9

LEMMA ChainedStep ==
  ASSUME Inv, Chained, [Next]_vars
  PROVE  Chained'
<1>1. CASE UNCHANGED <<job, fat>>
  <2>1. \A S : Claimed(S)' = Claimed(S) /\ March(S)' = March(S)
    BY <1>1 DEF Claimed, Linked, Follows, Chunk, March, Rank
  <2> QED
    BY <1>1, <2>1 DEF Chained
<1>2. CASE \E n \in Names, len \in Lens : Begin(n, len)
  BY <1>2, BeginChained
<1>3. CASE PutSector
  BY <1>3, PutSectorChained
<1>4. CASE job'.pc # "data"
  BY <1>4 DEF Chained
<1>5. Refuse \/ Reading => job'.pc # "data" \/ UNCHANGED <<job, fat>>
  BY DEF Refuse, Reading, ReadAll, OpenNothing, ReadByte, ReadFails, Close, RawSector, Open,
         memory
<1>6. PutTable \/ PutEntry \/ Faults => job'.pc # "data"
  <2>1. Idle.pc # "data"
    BY DEF Idle
  <2>2. PutTable => job'.pc = "entry"
    BY DEF PutTable, Inv, JobOK
  <2> QED
    BY <2>1, <2>2 DEF PutEntry, Faults, Fail, PowerOff
<1>7. UNCHANGED vars => UNCHANGED <<job, fat>>
  BY DEF vars, memory
<1> QED
  BY <1>1, <1>2, <1>3, <1>4, <1>5, <1>6, <1>7 DEF Next, Writing

\* On a disk of any geometry, for files of any length, and whatever torn files
\* and crossed chains earlier failures left: a write that goes on puts one of
\* its sectors after another, as many as its file has, then the table, then the
\* entry.  So every write ends once the drive answers.
THEOREM WritesRunDown == Spec => WriteRunsDown
<1> DEFINE OneLess ==
      job.pc # "idle" /\ job' # Idle =>
          WritesLeft' = (IF job' = job THEN WritesLeft ELSE WritesLeft - 1) /\ WritesLeft' > 0
<1>1. Inv /\ Chained => WritesLeft \in Nat /\ (job.pc # "idle" => WritesLeft > 0)
  <2> SUFFICES ASSUME Inv, Chained
               PROVE  WritesLeft \in Nat /\ (job.pc # "idle" => WritesLeft > 0)
    OBVIOUS
  <2>1. CASE job.pc = "data"
    <3>1. job.k \in Nat /\ Sectors(job.len) \in Nat /\ job.k <= Sectors(job.len)
      BY <2>1, MarchWithin DEF Chained
    <3>2. WritesLeft = Sectors(job.len) - job.k + 3
      BY <2>1 DEF WritesLeft
    <3> QED
      BY <3>1, <3>2
  <2>2. CASE job.pc # "data"
    BY <2>2 DEF WritesLeft, Inv, JobOK
  <2> QED
    BY <2>1, <2>2
<1>2. ASSUME Inv, Chained, Inv', Chained', [Next]_vars PROVE OneLess
  <2> SUFFICES ASSUME job.pc # "idle", job' # Idle PROVE OneLess
    OBVIOUS
  <2>1. job' = job => WritesLeft' = WritesLeft /\ WritesLeft > 0
    BY <1>1, <1>2 DEF WritesLeft
  <2>2. CASE PutSector
    <3>1. job.pc = "data" /\ job'.len = job.len
          /\ \/ job'.pc = "data" /\ job'.k = job.k + 1
             \/ job'.pc = "fat" /\ job.k = Sectors(job.len)
      BY <1>2, <2>2, PutSectorChained DEF PutSector
    <3>2. job.k \in Nat /\ Sectors(job.len) \in Nat /\ job.k <= Sectors(job.len)
      BY <1>2, <3>1, MarchWithin DEF Chained
    <3>3. WritesLeft = Sectors(job.len) - job.k + 3
      BY <3>1 DEF WritesLeft
    <3>4. CASE job'.pc = "data" /\ job'.k = job.k + 1
      <4>1. WritesLeft' = Sectors(job.len) - (job.k + 1) + 3
        BY <3>1, <3>4 DEF WritesLeft, Sectors
      <4> QED
        BY <3>2, <3>3, <3>4, <4>1
    <3>5. CASE job'.pc = "fat" /\ job.k = Sectors(job.len)
      <4>1. WritesLeft' = 2
        BY <3>5 DEF WritesLeft
      <4>2. job' # job
        BY <3>1, <3>5
      <4> QED
        BY <3>2, <3>3, <3>5, <4>1, <4>2
    <3> QED
      BY <3>1, <3>4, <3>5
  <2>3. CASE PutTable
    <3>1. job.pc = "fat" /\ job'.pc = "entry"
      BY <1>2, <2>3 DEF PutTable, Inv, JobOK
    <3> QED
      BY <3>1 DEF WritesLeft
  <2>4. PutEntry \/ Faults => job' = Idle
    BY DEF PutEntry, Faults, Fail, PowerOff
  <2>5. Refuse \/ Reading \/ UNCHANGED vars => job' = job
    BY DEF Refuse, Reading, ReadAll, OpenNothing, ReadByte, ReadFails, Close, RawSector, Open, vars
  <2>6. ~\E n \in Names, len \in Lens : Begin(n, len)
    BY DEF Begin
  <2> QED
    BY <1>2, <2>1, <2>2, <2>3, <2>4, <2>5, <2>6 DEF Next, Writing
<1>3. Init => Inv /\ Chained
  <2>1. Init => Chained
    BY DEF Init, Idle, Chained
  <2> QED
    BY <2>1, InitInv
<1>4. Inv /\ Chained /\ [Next]_vars => (Inv /\ Chained)'
  BY InvStep, ChainedStep
<1>5. Inv /\ Chained /\ [Next]_vars => OneLess
  BY <1>2, <1>4
<1>6. Spec => [][OneLess]_vars
  BY <1>3, <1>4, <1>5, PTL DEF Spec
<1> QED
  BY <1>6 DEF WriteRunsDown

-----------------------------------------------------------------------------
(* Speaker. *)

\* A routine from its k-th statement on.
From(r, k) == SubSeq(r, k, Len(r))
Bits == {0, 1}
Notes == Tenths \ {0}

\* The registers, and the two streams as anything leaves them.
Registers ==
    [sounding : Bits, held : Bits, tog_div : Nat, tog_cnt : 0..255, level : Bits, DAC : Bits,
     cur_tenths : {0} \cup Tenths, IRQENR : Bits, TMRHI : 0..255, TMRLO : 0..255, I : Bits]

NoteStreams == [track : Tracks \cup {CHOOSE t \in Music : TRUE}, at : Nat \ {0}]

Seqs == [mus_on : BOOLEAN, mus : NoteStreams, mus_head : NoteStreams, note_left : Nat,
         sfx_on : BOOLEAN, sfx : NoteStreams, sfx_left : Nat]

\* The note that is heard, zero for none, and the one the streams owe it: the note a
\* stream has already stepped past, for as long as it lasts.
Voice == IF reg.sounding = 1 THEN reg.cur_tenths ELSE 0
LastNote(p) == Pitch([p EXCEPT !.at = @ - 1])
Owed(q, v) ==
    /\ q.sfx_on /\ q.sfx_left > 0 => LastNote(q.sfx) = v
    /\ q.mus_on /\ ~q.sfx_on /\ q.note_left > 0 => LastNote(q.mus) = v
    /\ ~q.mus_on /\ ~q.sfx_on => v = 0

\* A buffer the streams can be played from, whole or not.
TuneRead(b) ==
    \A t \in Tracks : \A i \in DOMAIN b[t] : b[t][i][1] \in 0..255 /\ b[t][i][2] \in {0} \cup Tenths

SpeakerTyped ==
    /\ reg \in Registers /\ seq \in Seqs
    /\ seq.mus_on => seq.mus.track \in Tracks /\ seq.mus_head.track \in Tracks
    /\ seq.sfx_on => seq.sfx.track \in Tracks
    /\ TuneRead(mus_buf)

\* What the handler reads is of one note, whose count-down never wraps; and a voice that
\* sounds has a note to take up again once the disk lets it go.
Whole ==
    /\ reg.sounding = 1 =>
         \E t \in Notes :
             /\ reg.tog_div = Divisor(t) /\ reg.tog_cnt \in 1..reg.tog_div
             /\ reg.TMRHI * 256 + reg.TMRLO = Timer(t)
    /\ reg.IRQENR = 1 /\ reg.I = 0 => reg.TMRHI > 0
    /\ reg.sounding = 1 => reg.cur_tenths \in Notes

\* The end of snd_init(), and what follows it; no stream has started before it is through.
Opening == <<Set("DAC", 0), Set("IRQENR", 0), Set("I", 0)>>
ToOpen == Sector \o <<Do("open")>>
Fresh == ~seq.mus_on /\ ~seq.sfx_on

\* What the registers hold when a routine has come to its k-th statement: voice_off() first
\* silences, then disarms; voice_note() silences before it sets a note, store by store.
Silenced(k) ==
    /\ k > 1 => reg.sounding = 0
    /\ k > 2 => reg.IRQENR = 0

Struck(t, k) ==
    /\ k > 1 => reg.cur_tenths = t
    /\ k > 2 => reg.sounding = 0
    /\ k > 3 => reg.tog_div = Divisor(t)
    /\ k > 4 => reg.tog_cnt = Divisor(t)
    /\ k > 5 => reg.TMRHI = Timer(t) \div 256
    /\ k > 6 => reg.TMRLO = Timer(t) % 256
    /\ k > 7 => reg.IRQENR = 1

\* A routine at its k-th statement, with `rest' to follow; and one that is through.
OffStates(rest, k) == code = From(voice_off, k) \o rest /\ Silenced(k)
OpeningStates(rest, k) ==
    code = From(Opening, k) \o rest /\ reg.sounding = 0 /\ reg.IRQENR = 0
NoteStates(rest, t, k) == code = From(voice_note(t), k) \o rest /\ Struck(t, k)
SectorStates(rest, k) == code = From(Sector, k) \o rest
Told(rest) == code = rest /\ Owed(seq, Voice)

\* Where each routine may be, and what the voice owes the streams once it is through.
InVoiceOff == Owed(seq, 0) /\ \E k \in 1..6 : OffStates(<<>>, k)
InSndInit == \E k \in 1..6 : OffStates(Opening \o ToOpen, k)
InOpening == \E k \in 1..3 : OpeningStates(ToOpen, k)
InVoiceNote(rest) == \E t \in Notes, k \in 1..8 : NoteStates(rest, t, k) /\ Owed(seq, t)
InSndBeep == ~seq.sfx_on /\ \E k \in 1..8 : NoteStates(<<Wait(0, 0)>>, BEEP_TENTHS, k)
LettingGo ==
    /\ code = <<Set("held", 0)>> \o (voice_note(reg.cur_tenths) \o <<Do("poll")>>)
    /\ reg.sounding = 1 /\ Owed(seq, Voice)
Waiting == ~seq.sfx_on /\ \E f \in 0..BEEP_FRAMES, g \in 0..(GuardSize - 1) : code = <<Wait(f, g)>>
InSector(rest) == Owed(seq, Voice) /\ \E k \in 1..3 : SectorStates(rest, k)

Storing ==
    \/ InVoiceOff \/ InVoiceNote(<<>>) \/ InVoiceNote(<<Do("poll")>>) \/ InSndBeep
    \/ LettingGo \/ Told(<<Set("held", 0), Do("poll")>>)
    \/ Fresh /\ (InSndInit \/ InOpening)
Resting == Told(<<>>) \/ Told(<<Do("poll")>>) \/ Waiting \/ InSector(<<>>)
FetchingTune == InSector(<<Do("open")>>) \/ InSector(<<Do("loaded")>>)
           \/ Told(<<Do("open")>>) \/ Told(<<Do("loaded")>>)

\* The invariant: some routine is where it can be, with the registers it has stored so far.
Phase == Storing \/ Resting \/ (Fresh /\ FetchingTune)

\* The hold comes before the DAC is set low, by the very next statement.
Held == reg.held = 1 => reg.DAC = 0 \/ (code # <<>> /\ Head(code) = Set("DAC", 0))

SpeakerInv == SpeakerTyped /\ Whole /\ Held /\ Phase

\* Division by a positive number, as the two bounds it lies between.
LEMMA DivDef == ASSUME NEW a \in Nat, NEW b \in Nat \ {0}
                PROVE a \div b \in Nat /\ b * (a \div b) <= a /\ a < b * (a \div b) + b
OBVIOUS

\* Multiplying keeps the order.
LEMMA MulMono == ASSUME NEW a \in Nat, NEW b \in Nat, NEW c \in Nat, a <= b PROVE c * a <= c * b
OBVIOUS

\* The count of a quarter of the wave, four times over, stays inside sixteen bits for any
\* pitch a byte can hold: the shift the code does in a `uint16_t' loses nothing.
LEMMA CountsInRange == ASSUME NEW t \in 1..255 PROVE Counts(t) \in Nat /\ 700 <= Counts(t) /\ Counts(t) <= 65535
<1> DEFINE half == t \div 2
           q == (TMR_QTR + half) \div t
<1>1. half \in Nat /\ 2 * half <= t
  BY DivDef
<1>2. q \in Nat /\ t * q <= TMR_QTR + half /\ TMR_QTR + half < t * q + t
  BY <1>1, DivDef DEF TMR_QTR
<1>3. Counts(t) = (q * 4) % 65536
  BY DEF Counts
<1> HIDE DEF q, half
<1>4. CASE t = 1
  BY <1>1, <1>2, <1>3, <1>4 DEF TMR_QTR
<1>5. CASE t = 2
  BY <1>1, <1>2, <1>3, <1>5 DEF TMR_QTR
<1>6. CASE t > 2
  <2>1. q <= 14915
    <3> SUFFICES ASSUME q >= 14916 PROVE FALSE
      BY <1>2
    <3> DEFINE tq == t * q
    <3>1. t * 14916 <= tq
      BY <1>2, MulMono
    <3>2. tq \in Nat /\ tq <= TMR_QTR + half
      BY <1>2
    <3> HIDE DEF tq
    <3> QED BY <3>1, <3>2, <1>1, <1>6 DEF TMR_QTR
  <2>2. q >= 175
    <3> SUFFICES ASSUME q <= 174 PROVE FALSE
      BY <1>2
    <3> DEFINE tq == t * q
    <3>1. tq <= t * 174
      BY <1>2, MulMono
    <3>2. tq \in Nat /\ TMR_QTR + half < tq + t
      BY <1>2
    <3> HIDE DEF tq
    <3> QED BY <3>1, <3>2, <1>1 DEF TMR_QTR
  <2> QED BY <2>1, <2>2, <1>2, <1>3
<1>7. t = 1 \/ t = 2 \/ t > 2
  OBVIOUS
<1> QED BY <1>4, <1>5, <1>6, <1>7

\* Halving it at most four times brings it under the twelve bits of the timer, and the
\* divisor found so leaves the timer at 256 or more: its high byte is never zero.
LEMMA DivisorInRange ==
    ASSUME NEW t \in 1..255
    PROVE /\ Divisor(t) \in 1..16 /\ Timer(t) \in Nat /\ 256 <= Timer(t) /\ Timer(t) <= TMR_MAX
<1> DEFINE c == Counts(t)
           P(d) == /\ c \div d <= TMR_MAX
                   /\ d > 1 => c \div (d \div 2) > TMR_MAX
<1>1. c \in Nat /\ 700 <= c /\ c <= 65535
  BY CountsInRange
<1>2. Divisor(t) = CHOOSE d \in {1, 2, 4, 8, 16} : P(d)
  BY DEF Divisor
<1>3. Timer(t) = c \div Divisor(t)
  BY DEF Timer
<1> HIDE DEF c
<1>4. \E d \in {1, 2, 4, 8, 16} : P(d)
  <2>1. CASE c <= 4095
    BY <1>1, <2>1 DEF TMR_MAX
  <2>2. CASE c \in 4096..8191
    BY <1>1, <2>2 DEF TMR_MAX
  <2>3. CASE c \in 8192..16383
    BY <1>1, <2>3 DEF TMR_MAX
  <2>4. CASE c \in 16384..32767
    BY <1>1, <2>4 DEF TMR_MAX
  <2>5. CASE c > 32767
    BY <1>1, <2>5 DEF TMR_MAX
  <2> QED BY <1>1, <2>1, <2>2, <2>3, <2>4, <2>5
<1>5. Divisor(t) \in {1, 2, 4, 8, 16} /\ P(Divisor(t))
  BY <1>2, <1>4
<1> HIDE DEF P
<1> QED
  <2>1. ASSUME NEW d \in {1, 2, 4, 8, 16}, P(d) PROVE c \div d \in Nat /\ 256 <= c \div d /\ c \div d <= TMR_MAX
    BY <1>1, <2>1 DEF P, TMR_MAX
  <2> QED BY <2>1, <1>5, <1>3

Fields == {"sounding", "held", "tog_div", "tog_cnt", "level", "DAC", "cur_tenths",
           "IRQENR", "TMRHI", "TMRLO", "I"}

Statements ==
    {Set(f, v) : f \in Fields, v \in Nat}
    \cup {Do(w) : w \in {"read", "open", "loaded", "poll"}}
    \cup {Wait(f, g) : f \in 0..BEEP_FRAMES, g \in 0..(GuardSize - 1)}

\* One and two statements, and one after the other.
LEMMA Two == ASSUME NEW S, NEW a \in S, NEW b \in S
             PROVE <<a, b>> \in Seq(S) /\ <<a>> \in Seq(S) /\ <<b>> \in Seq(S) /\ <<a>> \o <<b>> = <<a, b>>
<1>1. <<a, b>> \in Seq(S) /\ <<a>> \in Seq(S) /\ <<b>> \in Seq(S)
  OBVIOUS
<1>2. Len(<<a>>) = 1 /\ Len(<<b>>) = 1 /\ Len(<<a, b>>) = 2
  OBVIOUS
<1>3. /\ <<a>> \o <<b>> \in Seq(S) /\ Len(<<a>> \o <<b>>) = 2
      /\ \A i \in 1..2 : (<<a>> \o <<b>>)[i] = IF i <= 1 THEN <<a>>[i] ELSE <<b>>[i - 1]
  BY <1>1, <1>2, ConcatProperties
<1>4. \A i \in 1..2 : (<<a>> \o <<b>>)[i] = <<a, b>>[i]
  BY <1>3
<1>5. <<a>> \o <<b>> = <<a, b>>
  BY <1>1, <1>2, <1>3, <1>4, SeqEqual
<1> QED BY <1>1, <1>5

\* Two statements, and a third.
LEMMA Three == ASSUME NEW S, NEW a \in S, NEW b \in S, NEW c \in S
               PROVE <<a, b, c>> \in Seq(S) /\ <<a, b>> \o <<c>> = <<a, b, c>>
<1>1. <<a, b, c>> \in Seq(S) /\ <<a, b>> \in Seq(S) /\ <<c>> \in Seq(S)
  OBVIOUS
<1>2. Len(<<a, b>>) = 2 /\ Len(<<c>>) = 1 /\ Len(<<a, b, c>>) = 3
  OBVIOUS
<1>3. /\ <<a, b>> \o <<c>> \in Seq(S) /\ Len(<<a, b>> \o <<c>>) = 3
      /\ \A i \in 1..3 : (<<a, b>> \o <<c>>)[i] = IF i <= 2 THEN <<a, b>>[i] ELSE <<c>>[i - 2]
  BY <1>1, <1>2, ConcatProperties
<1>4. \A i \in 1..3 : (<<a, b>> \o <<c>>)[i] = <<a, b, c>>[i]
  BY <1>3
<1>5. <<a, b>> \o <<c>> = <<a, b, c>>
  BY <1>1, <1>2, <1>3, <1>4, SeqEqual
<1> QED BY <1>1, <1>5

\* Six statements.
LEMMA Six == ASSUME NEW S, NEW a \in S, NEW b \in S, NEW c \in S, NEW d \in S, NEW e \in S, NEW f \in S
             PROVE <<a, b, c, d, e, f>> \in Seq(S)
OBVIOUS

\* A beep waits at least one frame, and one poll for it.
LEMMA BeepCounts == BEEP_FRAMES \in Nat \ {0} /\ GuardSize \in Nat \ {0}
  BY SpeakerAssumption, Zenon DEF SpeakerAssumption

\* One statement further through a routine.
LEMMA FromStep ==
    ASSUME NEW S, NEW r \in Seq(S), NEW rest \in Seq(S), NEW k \in 1..Len(r)
    PROVE /\ From(r, k) \o rest # <<>>
          /\ Head(From(r, k) \o rest) = r[k]
          /\ Tail(From(r, k) \o rest) = From(r, k + 1) \o rest
<1> DEFINE s == From(r, k)
           u == From(r, k + 1)
<1>1. s \in Seq(S) /\ Len(s) = Len(r) - k + 1 /\ \A i \in 1..Len(s) : s[i] = r[k + i - 1]
  BY SubSeqProperties, ElementOfSeq DEF From
<1>2. u \in Seq(S) /\ Len(u) = Len(r) - k /\ \A i \in 1..Len(u) : u[i] = r[k + i]
  BY SubSeqProperties, ElementOfSeq DEF From
<1> HIDE DEF s, u
<1>3. /\ s \o rest \in Seq(S) /\ Len(s \o rest) = Len(s) + Len(rest)
      /\ \A i \in 1..Len(s) + Len(rest) : (s \o rest)[i] = IF i <= Len(s) THEN s[i] ELSE rest[i - Len(s)]
  BY <1>1, ConcatProperties
<1>4. /\ u \o rest \in Seq(S) /\ Len(u \o rest) = Len(u) + Len(rest)
      /\ \A i \in 1..Len(u) + Len(rest) : (u \o rest)[i] = IF i <= Len(u) THEN u[i] ELSE rest[i - Len(u)]
  BY <1>2, ConcatProperties
<1>5. Len(s) \in Nat \ {0} /\ Len(rest) \in Nat
  BY <1>1
<1>6. s \o rest # <<>>
  BY <1>3, <1>5
<1>7. Head(s \o rest) = r[k]
  <2>1. Head(s \o rest) = (s \o rest)[1]
    BY <1>3, <1>6
  <2>2. (s \o rest)[1] = s[1]
    BY <1>3, <1>5
  <2>3. s[1] = r[k]
    BY <1>1, <1>5
  <2> QED BY <2>1, <2>2, <2>3
<1>8. Tail(s \o rest) = u \o rest
  <2>0. Len(s) = Len(u) + 1 /\ Len(u) \in Nat
    BY <1>1, <1>2
  <2>1. /\ Tail(s \o rest) \in Seq(S) /\ Len(Tail(s \o rest)) = Len(s \o rest) - 1
        /\ \A i \in 1..Len(Tail(s \o rest)) : Tail(s \o rest)[i] = (s \o rest)[i + 1]
    BY <1>3, <1>6, HeadTailProperties
  <2>2. ASSUME NEW i \in 1..Len(u \o rest) PROVE Tail(s \o rest)[i] = (u \o rest)[i]
    <3>1. i \in 1..Len(s) + Len(rest) - 1 /\ i \in 1..Len(u) + Len(rest)
      BY <2>0, <1>4, <1>1, <1>2
    <3>2. Tail(s \o rest)[i] = IF i + 1 <= Len(s) THEN s[i + 1] ELSE rest[i + 1 - Len(s)]
      BY <3>1, <2>1, <2>0, <1>3, <1>5
    <3>3. (u \o rest)[i] = IF i <= Len(u) THEN u[i] ELSE rest[i - Len(u)]
      BY <3>1, <1>4
    <3>4. CASE i <= Len(u)
      <4>1. i + 1 <= Len(s) /\ i + 1 \in 1..Len(s) /\ i \in 1..Len(u)
        BY <3>4, <2>0, <3>1
      <4> QED BY <4>1, <3>2, <3>3, <1>1, <1>2
    <3>5. CASE i > Len(u)
      <4>1. i + 1 > Len(s) /\ i + 1 - Len(s) = i - Len(u)
        BY <3>5, <2>0, <3>1, <1>5
      <4> QED BY <4>1, <3>2, <3>3, <3>5, <2>0, <1>5
    <3> QED BY <3>4, <3>5, <2>0, <3>1
  <2>3. Len(Tail(s \o rest)) = Len(u \o rest)
    <3>1. Len(s \o rest) = Len(u) + 1 + Len(rest) /\ Len(u \o rest) = Len(u) + Len(rest)
      BY <2>0, <1>3, <1>4
    <3>2. Len(Tail(s \o rest)) = Len(s \o rest) - 1
      BY <2>1
    <3> QED BY <3>1, <3>2, <2>0, <1>5
  <2> QED BY <2>1, <2>2, <2>3, <1>4, SeqEqual
<1> QED BY <1>6, <1>7, <1>8 DEF s, u

\* A routine that has not begun, and one that is through.
LEMMA FromEnds ==
    ASSUME NEW S, NEW r \in Seq(S), NEW rest \in Seq(S)
    PROVE /\ From(r, 1) = r /\ From(r, Len(r) + 1) \o rest = rest
          /\ r \o <<>> = r
<1>1. From(r, Len(r) + 1) = <<>>
  BY DEF From
<1> QED BY <1>1, ConcatEmptySeq, SubSeqFull DEF From

\* A tune of any length is notes of two bytes, the first of them not zero.
LEMMA TunesAreBytes ==
    ASSUME NEW t \in Tracks, NEW i \in DOMAIN Tunes[t]
    PROVE Tunes[t][i][1] \in 1..255 /\ Tunes[t][i][2] \in 0..255
<1>1. Tunes[t] \in Seq((1..255) \X (0..255))
  BY SpeakerAssumption, Zenon DEF SpeakerAssumption
<1>2. Tunes[t][i] \in (1..255) \X (0..255)
  BY <1>1
<1> QED BY <1>2

\* Every pitch is a byte, and the beep has one.
LEMMA TenthsInRange == Tenths \subseteq 0..255 /\ BEEP_TENTHS \in Notes
<1>1. ASSUME NEW t \in Tracks, NEW i \in DOMAIN Tunes[t] PROVE Tunes[t][i][2] \in 0..255
  BY TunesAreBytes
<1>2. BEEP_TENTHS \in 0..255 /\ BEEP_TENTHS \in Notes
  BY DEF BEEP_TENTHS, Tenths, Notes
<1>3. ASSUME NEW x \in Tenths, x # BEEP_TENTHS PROVE x \in 0..255
  <2>1. PICK t \in Tracks : x \in {Tunes[t][i][2] : i \in DOMAIN Tunes[t]}
    BY <1>3 DEF Tenths
  <2>2. PICK i \in DOMAIN Tunes[t] : x = Tunes[t][i][2]
    BY <2>1
  <2> QED BY <2>2, <1>1
<1> QED BY <1>2, <1>3

\* What a note sets: a divisor of at most sixteen, and a timer whose high byte is not zero.
LEMMA NotesInRange ==
    ASSUME NEW t \in Notes
    PROVE /\ t \in 1..255 /\ t \in Tenths /\ t # 0
          /\ Divisor(t) \in 1..16 /\ Timer(t) \in Nat /\ 256 <= Timer(t) /\ Timer(t) <= TMR_MAX
<1>1. t \in 1..255 /\ t \in Tenths /\ t # 0
  BY TenthsInRange DEF Notes
<1> QED BY <1>1, DivisorInRange

\* A store of a number is a statement.
LEMMA SetIsStatement == ASSUME NEW f \in Fields, NEW v \in Nat PROVE Set(f, v) \in Statements
BY DEF Statements

\* So is what remains of a routine once its stores are done.
LEMMA DoIsStatement ==
    /\ Do("read") \in Statements /\ Do("open") \in Statements
    /\ Do("loaded") \in Statements /\ Do("poll") \in Statements
    /\ \A f \in 0..BEEP_FRAMES, g \in 0..(GuardSize - 1) : Wait(f, g) \in Statements
BY DEF Statements

\* voice_off(), store by store.
LEMMA VoiceOff ==
    /\ voice_off \in Seq(Statements) /\ Len(voice_off) = 6
    /\ voice_off[1] = Set("sounding", 0) /\ voice_off[2] = Set("IRQENR", 0)
    /\ voice_off[3] = Set("TMRHI", 0) /\ voice_off[4] = Set("TMRLO", 0)
    /\ voice_off[5] = Set("DAC", 0) /\ voice_off[6] = Set("level", 0)
<1>1. /\ Set("sounding", 0) \in Statements /\ Set("IRQENR", 0) \in Statements
      /\ Set("TMRHI", 0) \in Statements /\ Set("TMRLO", 0) \in Statements
      /\ Set("DAC", 0) \in Statements /\ Set("level", 0) \in Statements
  BY SetIsStatement DEF Fields
<1>2. voice_off \in Seq(Statements)
  BY <1>1, Six DEF voice_off
<1> QED BY <1>2 DEF voice_off

\* voice_note() of a note, store by store.
LEMMA VoiceNote ==
    ASSUME NEW t \in Notes
    PROVE /\ voice_note(t) \in Seq(Statements) /\ Len(voice_note(t)) = 8
          /\ voice_note(t)[1] = Set("cur_tenths", t) /\ voice_note(t)[2] = Set("sounding", 0)
          /\ voice_note(t)[3] = Set("tog_div", Divisor(t)) /\ voice_note(t)[4] = Set("tog_cnt", Divisor(t))
          /\ voice_note(t)[5] = Set("TMRHI", Timer(t) \div 256) /\ voice_note(t)[6] = Set("TMRLO", Timer(t) % 256)
          /\ voice_note(t)[7] = Set("IRQENR", 1) /\ voice_note(t)[8] = Set("sounding", 1)
<1> DEFINE a == Set("cur_tenths", t)
           b == Set("sounding", 0)
           c == Set("tog_div", Divisor(t))
           d == Set("tog_cnt", Divisor(t))
           e == Set("TMRHI", Timer(t) \div 256)
           f == Set("TMRLO", Timer(t) % 256)
           g == Set("IRQENR", 1)
           h == Set("sounding", 1)
<1>1. /\ t \in Nat /\ t # 0 /\ Divisor(t) \in Nat /\ Timer(t) \div 256 \in Nat /\ Timer(t) % 256 \in Nat
  <2>1. t \in 1..255 /\ t # 0 /\ Divisor(t) \in 1..16 /\ Timer(t) \in Nat
    BY NotesInRange
  <2>2. \A n \in Nat : n \div 256 \in Nat /\ n % 256 \in Nat
    OBVIOUS
  <2> QED BY <2>1, <2>2
<1>2. /\ a \in Statements /\ b \in Statements /\ c \in Statements /\ d \in Statements
      /\ e \in Statements /\ f \in Statements /\ g \in Statements /\ h \in Statements
  BY <1>1, SetIsStatement DEF Fields
<1>3. voice_note(t) = <<a, b>> \o <<c, d, e, f, g, h>>
  BY <1>1 DEF voice_note, note
<1> HIDE DEF a, b, c, d, e, f, g, h
<1>4. voice_note(t) \in Seq(Statements) /\ voice_note(t) = <<a, b, c, d, e, f, g, h>>
  <2> DEFINE l == <<a, b>>
             m == <<c, d, e, f, g, h>>
             n == <<a, b, c, d, e, f, g, h>>
  <2>1. l \in Seq(Statements) /\ m \in Seq(Statements) /\ n \in Seq(Statements)
    BY <1>2
  <2>2. Len(l) = 2 /\ Len(m) = 6 /\ Len(n) = 8
    OBVIOUS
  <2>3. /\ l \o m \in Seq(Statements) /\ Len(l \o m) = 8
        /\ \A i \in 1..8 : (l \o m)[i] = IF i <= 2 THEN l[i] ELSE m[i - 2]
    BY <2>1, <2>2, ConcatProperties
  <2>4. \A i \in 1..8 : (l \o m)[i] = n[i]
    BY <2>3
  <2>5. l \o m = n
    BY <2>1, <2>2, <2>3, <2>4, SeqEqual, ZenonT(60)
  <2> QED BY <2>1, <2>5, <1>3
<1>5. /\ Len(voice_note(t)) = 8
      /\ voice_note(t)[1] = a /\ voice_note(t)[2] = b /\ voice_note(t)[3] = c /\ voice_note(t)[4] = d
      /\ voice_note(t)[5] = e /\ voice_note(t)[6] = f /\ voice_note(t)[7] = g /\ voice_note(t)[8] = h
  BY <1>4
<1> QED BY <1>4, <1>5 DEF a, b, c, d, e, f, g, h

\* A sector: the hold, the DAC and the read.
LEMMA SectorIs ==
    /\ Sector \in Seq(Statements) /\ Len(Sector) = 3
    /\ Sector[1] = Set("held", 1) /\ Sector[2] = Set("DAC", 0) /\ Sector[3] = Do("read")
<1>1. Set("held", 1) \in Statements /\ Set("DAC", 0) \in Statements /\ Do("read") \in Statements
  BY SetIsStatement, DoIsStatement DEF Fields
<1>2. Sector = <<Set("held", 1), Set("DAC", 0), Do("read")>> /\ Sector \in Seq(Statements)
  BY <1>1, Three DEF Sector, disk_quiet
<1> QED BY <1>2

\* The end of snd_init().
LEMMA OpeningIs ==
    /\ Opening \in Seq(Statements) /\ Len(Opening) = 3
    /\ Opening[1] = Set("DAC", 0) /\ Opening[2] = Set("IRQENR", 0) /\ Opening[3] = Set("I", 0)
<1>1. Set("DAC", 0) \in Statements /\ Set("IRQENR", 0) \in Statements /\ Set("I", 0) \in Statements
  BY SetIsStatement DEF Fields
<1>2. Opening \in Seq(Statements)
  BY <1>1, Three DEF Opening
<1> QED BY <1>2 DEF Opening

\* What may follow a routine.
LEMMA Rests ==
    /\ <<>> \in Seq(Statements)
    /\ <<Do("poll")>> \in Seq(Statements) /\ <<Do("open")>> \in Seq(Statements)
    /\ <<Do("loaded")>> \in Seq(Statements) /\ <<Wait(0, 0)>> \in Seq(Statements)
    /\ Sector \o <<Do("open")>> \in Seq(Statements)
    /\ Opening \o (Sector \o <<Do("open")>>) \in Seq(Statements)
    /\ <<Set("held", 0), Do("poll")>> \in Seq(Statements)
<1>1. /\ <<>> \in Seq(Statements)
      /\ <<Do("poll")>> \in Seq(Statements) /\ <<Do("open")>> \in Seq(Statements)
      /\ <<Do("loaded")>> \in Seq(Statements) /\ <<Wait(0, 0)>> \in Seq(Statements)
  BY DoIsStatement, BeepCounts, Two
<1>2. Sector \o <<Do("open")>> \in Seq(Statements)
  BY <1>1, SectorIs, ConcatProperties
<1>3. Opening \o (Sector \o <<Do("open")>>) \in Seq(Statements)
  BY <1>2, OpeningIs, ConcatProperties
<1>4. Set("held", 0) \in Statements
  BY SetIsStatement DEF Fields
<1> QED BY <1>1, <1>2, <1>3, <1>4, DoIsStatement, Two

\* A store keeps the types of everything else.
LEMMA TypedKept == 
    ASSUME SpeakerTyped, reg' \in Registers, UNCHANGED <<seq, mus_buf>>
    PROVE SpeakerTyped'
BY DEF SpeakerTyped

\* Four pieces of a routine, grouped from the left or from the right.
LEMMA Regrouped ==
    ASSUME NEW a \in Seq(Statements), NEW b \in Seq(Statements),
           NEW c \in Seq(Statements), NEW d \in Seq(Statements)
    PROVE  ((a \o b) \o c) \o d = a \o (b \o (c \o d))
<1> DEFINE S == Statements
<1> HIDE DEF S
<1>0. a \in Seq(S) /\ b \in Seq(S) /\ c \in Seq(S) /\ d \in Seq(S)
  BY DEF S
<1>1. a \o b \in Seq(S) /\ c \o d \in Seq(S)
  BY <1>0
<1>2. ((a \o b) \o c) \o d = (a \o b) \o (c \o d)
  BY <1>0, <1>1, ConcatAssociative, SMTT(60)
<1>3. (a \o b) \o (c \o d) = a \o (b \o (c \o d))
  BY <1>0, <1>1, ConcatAssociative, SMTT(60)
<1> QED BY <1>2, <1>3

\* The eleven registers, one at a time.
LEMMA InRegisters ==
    ASSUME NEW r \in Registers, NEW v
    PROVE /\ v \in Bits => /\ [r EXCEPT !.sounding = v] \in Registers /\ [r EXCEPT !.held = v] \in Registers
                           /\ [r EXCEPT !.level = v] \in Registers /\ [r EXCEPT !.DAC = v] \in Registers
                           /\ [r EXCEPT !.IRQENR = v] \in Registers /\ [r EXCEPT !.I = v] \in Registers
          /\ v \in Nat => [r EXCEPT !.tog_div = v] \in Registers
          /\ v \in 0..255 => /\ [r EXCEPT !.tog_cnt = v] \in Registers
                             /\ [r EXCEPT !.TMRHI = v] \in Registers /\ [r EXCEPT !.TMRLO = v] \in Registers
          /\ v \in {0} \cup Tenths => [r EXCEPT !.cur_tenths = v] \in Registers
<1>1. ASSUME v \in Bits 
      PROVE /\ [r EXCEPT !.sounding = v] \in Registers /\ [r EXCEPT !.held = v] \in Registers
            /\ [r EXCEPT !.level = v] \in Registers /\ [r EXCEPT !.DAC = v] \in Registers
            /\ [r EXCEPT !.IRQENR = v] \in Registers /\ [r EXCEPT !.I = v] \in Registers
  BY <1>1 DEF Registers
<1>2. v \in Nat => [r EXCEPT !.tog_div = v] \in Registers
  BY DEF Registers
<1>3. v \in 0..255 => /\ [r EXCEPT !.tog_cnt = v] \in Registers
                      /\ [r EXCEPT !.TMRHI = v] \in Registers /\ [r EXCEPT !.TMRLO = v] \in Registers
  BY DEF Registers
<1>4. v \in {0} \cup Tenths => [r EXCEPT !.cur_tenths = v] \in Registers
  BY DEF Registers
<1> QED BY <1>1, <1>2, <1>3, <1>4

\* A store in full: `f' becomes v, and nothing else does.
LEMMA Store ==
    ASSUME SpeakerTyped, Assign, NEW f \in Fields, NEW v, Head(code) = Set(f, v)
    PROVE /\ reg' = [reg EXCEPT ![f] = v] /\ reg'[f] = v /\ \A g \in Fields \ {f} : reg'[g] = reg[g]
          /\ code' = Tail(code) /\ code # <<>>
          /\ UNCHANGED <<seq, enabled, mus_ok, mus_buf>>
<1>1. Head(code).reg = f /\ Head(code).to = v
  BY DEF Set
<1>2. /\ reg' = [reg EXCEPT ![f] = v] /\ code' = Tail(code) /\ code # <<>>
      /\ UNCHANGED <<seq, enabled, mus_ok, mus_buf>>
  BY <1>1, Zenon DEF Assign, At
<1>3. reg \in Registers
  BY DEF SpeakerTyped
<1>4. reg'[f] = v /\ \A g \in Fields \ {f} : reg'[g] = reg[g]
  BY <1>2, <1>3 DEF Registers, Fields
<1> QED BY <1>2, <1>4, Zenon

\* Nothing is owed to a handler that has no note to play and no timer of zero.
LEMMA WholeSilent ==
    ASSUME reg'.sounding = 0, reg'.IRQENR = 1 /\ reg'.I = 0 => reg'.TMRHI > 0
    PROVE Whole'
BY DEF Whole

\* One store of voice_note(): the note is not heard until all of it is there.
LEMMA NoteStep ==
    ASSUME SpeakerTyped, Whole, Held, Assign, NEW t \in Notes, NEW k \in 1..8,
           NEW rest \in Seq(Statements), NoteStates(rest, t, k)
    PROVE /\ SpeakerTyped' /\ Whole' /\ Held' /\ UNCHANGED <<seq, enabled, mus_ok, mus_buf>>
          /\ k < 8 => NoteStates(rest, t, k + 1)'
          /\ k = 8 => code' = rest /\ reg'.sounding = 1 /\ reg'.cur_tenths = t
<1> DEFINE r == voice_note(t)
           next == From(r, k + 1) \o rest
           d == Divisor(t)
           T == Timer(t)
           hi == T \div 256
           lo == T % 256
<1>1. /\ r \in Seq(Statements) /\ Len(r) = 8 /\ k \in 1..Len(r)
      /\ code = From(r, k) \o rest
      /\ reg \in Registers
  BY VoiceNote, SMTT(60) DEF NoteStates, SpeakerTyped
<1>2. code # <<>> /\ Head(code) = r[k] /\ Tail(code) = next
  BY <1>1, FromStep
<1>3. k = 8 => next = rest
  <2>1. From(r, Len(r) + 1) \o rest = rest
    BY <1>1, FromEnds
  <2> QED BY <2>1, <1>1
<1>4. /\ r[1] = Set("cur_tenths", t) /\ r[2] = Set("sounding", 0)
      /\ r[3] = Set("tog_div", d) /\ r[4] = Set("tog_cnt", d)
      /\ r[5] = Set("TMRHI", hi) /\ r[6] = Set("TMRLO", lo)
      /\ r[7] = Set("IRQENR", 1) /\ r[8] = Set("sounding", 1)
  BY VoiceNote
<1>5. /\ t \in Nat /\ t \in Tenths /\ t # 0 /\ t \in Notes
      /\ d \in 1..16 /\ T \in Nat /\ 256 <= T /\ T <= TMR_MAX
  <2>1. t \in Nat
    <3>1. t \in 1..255
      BY NotesInRange, Zenon
    <3> QED BY <3>1
  <2> QED BY <2>1, NotesInRange, SMTT(60)
<1>6. /\ k > 1 => reg.cur_tenths = t
      /\ k > 2 => reg.sounding = 0
      /\ k > 3 => reg.tog_div = d
      /\ k > 4 => reg.tog_cnt = d
      /\ k > 5 => reg.TMRHI = hi
      /\ k > 6 => reg.TMRLO = lo
      /\ k > 7 => reg.IRQENR = 1
  BY DEF NoteStates, Struck
<1>7. (code' = next /\ Struck(t, k + 1)') => NoteStates(rest, t, k + 1)'
  BY DEF NoteStates
<1>8. (/\ k + 1 > 1 => reg'.cur_tenths = t
       /\ k + 1 > 2 => reg'.sounding = 0
       /\ k + 1 > 3 => reg'.tog_div = d
       /\ k + 1 > 4 => reg'.tog_cnt = d
       /\ k + 1 > 5 => reg'.TMRHI = hi
       /\ k + 1 > 6 => reg'.TMRLO = lo
       /\ k + 1 > 7 => reg'.IRQENR = 1) => Struck(t, k + 1)'
  BY DEF Struck
<1> HIDE DEF next, r, d, T
<1>10. hi \in 1..255 /\ lo \in 0..255 /\ hi * 256 + lo = T
  BY <1>5 DEF TMR_MAX
<1> HIDE DEF hi, lo
<1>a. /\ d \in Nat /\ d \in 0..255 /\ d \in 1..d /\ hi \in 0..255 /\ hi > 0 /\ lo \in 0..255
      /\ 0 \in Bits /\ 1 \in Bits /\ t \in {0} \cup Tenths
  BY <1>5, <1>10 DEF Bits
<1>11. CASE k = 1
  <2>1. Head(code) = Set("cur_tenths", t) /\ "cur_tenths" \in Fields
    BY <1>11, <1>2, <1>4 DEF Fields
  <2>2. /\ reg' = [reg EXCEPT !.cur_tenths = t] /\ reg'["cur_tenths"] = t
        /\ \A g \in Fields \ {"cur_tenths"} : reg'[g] = reg[g]
        /\ code' = next /\ code # <<>> /\ UNCHANGED <<seq, enabled, mus_ok, mus_buf>>
    BY <2>1, <1>2, Store, Zenon
  <2>3. reg' \in Registers
    BY <2>2, <1>1, <1>a, InRegisters
  <2>4. SpeakerTyped'
    BY <2>2, <2>3, TypedKept
  <2>5. Whole'
    BY <2>2, <1>5 DEF Whole, Fields
  <2>6. Held'
    BY <2>1, <2>2 DEF Held, Fields, Set
  <2>7. NoteStates(rest, t, k + 1)'
    BY <2>2, <1>6, <1>7, <1>8, <1>11, <1>5 DEF Fields
  <2> QED BY <2>2, <2>4, <2>5, <2>6, <2>7, <1>11
<1>12. CASE k = 2
  <2>1. Head(code) = Set("sounding", 0) /\ "sounding" \in Fields
    BY <1>12, <1>2, <1>4 DEF Fields
  <2>2. /\ reg' = [reg EXCEPT !.sounding = 0] /\ reg'["sounding"] = 0
        /\ \A g \in Fields \ {"sounding"} : reg'[g] = reg[g]
        /\ code' = next /\ code # <<>> /\ UNCHANGED <<seq, enabled, mus_ok, mus_buf>>
    BY <2>1, <1>2, Store, Zenon
  <2>3. reg' \in Registers
    BY <2>2, <1>1, <1>a, InRegisters
  <2>4. SpeakerTyped'
    BY <2>2, <2>3, TypedKept
  <2>5. Whole'
    BY <2>2, <1>6, <1>a, <1>12, WholeSilent DEF Whole, Fields
  <2>6. Held'
    BY <2>1, <2>2 DEF Held, Fields, Set
  <2>7. NoteStates(rest, t, k + 1)'
    BY <2>2, <1>6, <1>7, <1>8, <1>12, <1>5 DEF Fields
  <2> QED BY <2>2, <2>4, <2>5, <2>6, <2>7, <1>12
<1>13. CASE k = 3
  <2>1. Head(code) = Set("tog_div", d) /\ "tog_div" \in Fields
    BY <1>13, <1>2, <1>4 DEF Fields
  <2>2. /\ reg' = [reg EXCEPT !.tog_div = d] /\ reg'["tog_div"] = d
        /\ \A g \in Fields \ {"tog_div"} : reg'[g] = reg[g]
        /\ code' = next /\ code # <<>> /\ UNCHANGED <<seq, enabled, mus_ok, mus_buf>>
    BY <2>1, <1>2, Store, Zenon
  <2>3. reg' \in Registers
    BY <2>2, <1>1, <1>a, InRegisters
  <2>4. SpeakerTyped'
    BY <2>2, <2>3, TypedKept
  <2>5. Whole'
    BY <2>2, <1>6, <1>a, <1>13, WholeSilent DEF Whole, Fields
  <2>6. Held'
    BY <2>1, <2>2 DEF Held, Fields, Set
  <2>7. NoteStates(rest, t, k + 1)'
    BY <2>2, <1>6, <1>7, <1>8, <1>13, <1>5 DEF Fields
  <2> QED BY <2>2, <2>4, <2>5, <2>6, <2>7, <1>13
<1>14. CASE k = 4
  <2>1. Head(code) = Set("tog_cnt", d) /\ "tog_cnt" \in Fields
    BY <1>14, <1>2, <1>4 DEF Fields
  <2>2. /\ reg' = [reg EXCEPT !.tog_cnt = d] /\ reg'["tog_cnt"] = d
        /\ \A g \in Fields \ {"tog_cnt"} : reg'[g] = reg[g]
        /\ code' = next /\ code # <<>> /\ UNCHANGED <<seq, enabled, mus_ok, mus_buf>>
    BY <2>1, <1>2, Store, Zenon
  <2>3. reg' \in Registers
    BY <2>2, <1>1, <1>a, InRegisters
  <2>4. SpeakerTyped'
    BY <2>2, <2>3, TypedKept
  <2>5. Whole'
    BY <2>2, <1>6, <1>a, <1>14, WholeSilent DEF Whole, Fields
  <2>6. Held'
    BY <2>1, <2>2 DEF Held, Fields, Set
  <2>7. NoteStates(rest, t, k + 1)'
    BY <2>2, <1>6, <1>7, <1>8, <1>14, <1>5 DEF Fields
  <2> QED BY <2>2, <2>4, <2>5, <2>6, <2>7, <1>14
<1>15. CASE k = 5
  <2>1. Head(code) = Set("TMRHI", hi) /\ "TMRHI" \in Fields
    BY <1>15, <1>2, <1>4 DEF Fields
  <2>2. /\ reg' = [reg EXCEPT !.TMRHI = hi] /\ reg'["TMRHI"] = hi
        /\ \A g \in Fields \ {"TMRHI"} : reg'[g] = reg[g]
        /\ code' = next /\ code # <<>> /\ UNCHANGED <<seq, enabled, mus_ok, mus_buf>>
    BY <2>1, <1>2, Store, Zenon
  <2>3. reg' \in Registers
    BY <2>2, <1>1, <1>a, InRegisters
  <2>4. SpeakerTyped'
    BY <2>2, <2>3, TypedKept
  <2>5. Whole'
    BY <2>2, <1>6, <1>a, <1>15, WholeSilent DEF Whole, Fields
  <2>6. Held'
    BY <2>1, <2>2 DEF Held, Fields, Set
  <2>7. NoteStates(rest, t, k + 1)'
    BY <2>2, <1>6, <1>7, <1>8, <1>15, <1>5 DEF Fields
  <2> QED BY <2>2, <2>4, <2>5, <2>6, <2>7, <1>15
<1>16. CASE k = 6
  <2>1. Head(code) = Set("TMRLO", lo) /\ "TMRLO" \in Fields
    BY <1>16, <1>2, <1>4 DEF Fields
  <2>2. /\ reg' = [reg EXCEPT !.TMRLO = lo] /\ reg'["TMRLO"] = lo
        /\ \A g \in Fields \ {"TMRLO"} : reg'[g] = reg[g]
        /\ code' = next /\ code # <<>> /\ UNCHANGED <<seq, enabled, mus_ok, mus_buf>>
    BY <2>1, <1>2, Store, Zenon
  <2>3. reg' \in Registers
    BY <2>2, <1>1, <1>a, InRegisters
  <2>4. SpeakerTyped'
    BY <2>2, <2>3, TypedKept
  <2>5. Whole'
    BY <2>2, <1>6, <1>a, <1>16, WholeSilent DEF Whole, Fields
  <2>6. Held'
    BY <2>1, <2>2 DEF Held, Fields, Set
  <2>7. NoteStates(rest, t, k + 1)'
    BY <2>2, <1>6, <1>7, <1>8, <1>16, <1>5 DEF Fields
  <2> QED BY <2>2, <2>4, <2>5, <2>6, <2>7, <1>16
<1>17. CASE k = 7
  <2>1. Head(code) = Set("IRQENR", 1) /\ "IRQENR" \in Fields
    BY <1>17, <1>2, <1>4 DEF Fields
  <2>2. /\ reg' = [reg EXCEPT !.IRQENR = 1] /\ reg'["IRQENR"] = 1
        /\ \A g \in Fields \ {"IRQENR"} : reg'[g] = reg[g]
        /\ code' = next /\ code # <<>> /\ UNCHANGED <<seq, enabled, mus_ok, mus_buf>>
    BY <2>1, <1>2, Store, Zenon
  <2>3. reg' \in Registers
    BY <2>2, <1>1, <1>a, InRegisters
  <2>4. SpeakerTyped'
    BY <2>2, <2>3, TypedKept
  <2>5. Whole'
    BY <2>2, <1>6, <1>a, <1>17, WholeSilent DEF Whole, Fields
  <2>6. Held'
    BY <2>1, <2>2 DEF Held, Fields, Set
  <2>7. NoteStates(rest, t, k + 1)'
    BY <2>2, <1>6, <1>7, <1>8, <1>17, <1>5 DEF Fields
  <2> QED BY <2>2, <2>4, <2>5, <2>6, <2>7, <1>17
<1>18. CASE k = 8
  <2>1. Head(code) = Set("sounding", 1) /\ "sounding" \in Fields
    BY <1>18, <1>2, <1>4 DEF Fields
  <2>2. /\ reg' = [reg EXCEPT !.sounding = 1] /\ reg'["sounding"] = 1
        /\ \A g \in Fields \ {"sounding"} : reg'[g] = reg[g]
        /\ code' = next /\ code # <<>> /\ UNCHANGED <<seq, enabled, mus_ok, mus_buf>>
    BY <2>1, <1>2, Store, Zenon
  <2>3. reg' \in Registers
    BY <2>2, <1>1, <1>a, InRegisters
  <2>4. SpeakerTyped'
    BY <2>2, <2>3, TypedKept
  <2>5. Whole'
    <3>1. /\ reg'.tog_div = d /\ reg'.tog_cnt = d /\ reg'.TMRHI = hi /\ reg'.TMRLO = lo
          /\ reg'.cur_tenths = t
      BY <2>2, <1>6, <1>18 DEF Fields
    <3>2. \E n \in Notes : /\ reg'.tog_div = Divisor(n) /\ reg'.tog_cnt \in 1..reg'.tog_div
                           /\ reg'.TMRHI * 256 + reg'.TMRLO = Timer(n)
      BY <3>1, <1>10, <1>a, <1>5, Zenon DEF d, T
    <3> QED BY <3>1, <3>2, <1>5, <1>a DEF Whole
  <2>6. Held'
    BY <2>1, <2>2 DEF Held, Fields, Set
  <2> QED BY <2>2, <2>4, <2>5, <2>6, <1>18, <1>3, <1>6 DEF Fields
<1> QED BY <1>11, <1>12, <1>13, <1>14, <1>15, <1>16, <1>17, <1>18

\* One store of voice_off().
LEMMA OffStep ==
    ASSUME SpeakerTyped, Whole, Held, Assign, NEW k \in 1..6,
           NEW rest \in Seq(Statements), OffStates(rest, k)
    PROVE /\ SpeakerTyped' /\ Whole' /\ Held' /\ UNCHANGED <<seq, enabled, mus_ok, mus_buf>>
          /\ OffStates(rest, k + 1)'
          /\ k = 6 => code' = rest
<1> DEFINE r == voice_off
           next == From(r, k + 1) \o rest
<1>1. /\ r \in Seq(Statements) /\ Len(r) = 6 /\ k \in 1..Len(r)
      /\ code = From(r, k) \o rest
      /\ reg \in Registers
  BY VoiceOff DEF OffStates, SpeakerTyped
<1>2. code # <<>> /\ Head(code) = r[k] /\ Tail(code) = next
  BY <1>1, FromStep
<1>3. k = 6 => next = rest
  <2>1. From(r, Len(r) + 1) \o rest = rest
    BY <1>1, FromEnds
  <2> QED BY <2>1, <1>1
<1>4. /\ r[1] = Set("sounding", 0) /\ r[2] = Set("IRQENR", 0)
      /\ r[3] = Set("TMRHI", 0) /\ r[4] = Set("TMRLO", 0)
      /\ r[5] = Set("DAC", 0) /\ r[6] = Set("level", 0)
  BY VoiceOff
<1>5. code' = next /\ Silenced(k + 1)' => OffStates(rest, k + 1)'
  BY DEF OffStates
<1>6. (k > 1 => reg.sounding = 0) /\ (k > 2 => reg.IRQENR = 0)
  BY DEF OffStates, Silenced
<1>a. 0 \in Bits /\ 1 \in Bits /\ 0 \in 0..255
  BY DEF Bits
<1> HIDE DEF next, r
<1>7. CASE k = 1
  <2>1. Head(code) = Set("sounding", 0) /\ "sounding" \in Fields
    BY <1>7, <1>2, <1>4 DEF Fields
  <2>2. /\ reg' = [reg EXCEPT !.sounding = 0] /\ reg'["sounding"] = 0
        /\ \A g \in Fields \ {"sounding"} : reg'[g] = reg[g]
        /\ code' = next /\ code # <<>> /\ UNCHANGED <<seq, enabled, mus_ok, mus_buf>>
    BY <2>1, <1>2, Store, Zenon
  <2>3. reg' \in Registers
    BY <2>2, <1>1, <1>a, InRegisters
  <2>4. SpeakerTyped'
    BY <2>2, <2>3, TypedKept
  <2>5. Whole'
    BY <2>2, <1>6, <1>7, WholeSilent DEF Whole, Fields
  <2>6. Held'
    BY <2>1, <2>2, <1>6, <1>7 DEF Held, Fields, Set
  <2>7. OffStates(rest, k + 1)'
    BY <2>2, <1>5, <1>6, <1>7 DEF Fields, Silenced
  <2> QED BY <2>2, <2>4, <2>5, <2>6, <2>7, <1>3, <1>7
<1>8. CASE k = 2
  <2>1. Head(code) = Set("IRQENR", 0) /\ "IRQENR" \in Fields
    BY <1>8, <1>2, <1>4 DEF Fields
  <2>2. /\ reg' = [reg EXCEPT !.IRQENR = 0] /\ reg'["IRQENR"] = 0
        /\ \A g \in Fields \ {"IRQENR"} : reg'[g] = reg[g]
        /\ code' = next /\ code # <<>> /\ UNCHANGED <<seq, enabled, mus_ok, mus_buf>>
    BY <2>1, <1>2, Store, Zenon
  <2>3. reg' \in Registers
    BY <2>2, <1>1, <1>a, InRegisters
  <2>4. SpeakerTyped'
    BY <2>2, <2>3, TypedKept
  <2>5. Whole'
    BY <2>2, <1>6, <1>8, WholeSilent DEF Whole, Fields
  <2>6. Held'
    BY <2>1, <2>2, <1>6, <1>8 DEF Held, Fields, Set
  <2>7. OffStates(rest, k + 1)'
    BY <2>2, <1>5, <1>6, <1>8 DEF Fields, Silenced
  <2> QED BY <2>2, <2>4, <2>5, <2>6, <2>7, <1>3, <1>8
<1>9. CASE k = 3
  <2>1. Head(code) = Set("TMRHI", 0) /\ "TMRHI" \in Fields
    BY <1>9, <1>2, <1>4 DEF Fields
  <2>2. /\ reg' = [reg EXCEPT !.TMRHI = 0] /\ reg'["TMRHI"] = 0
        /\ \A g \in Fields \ {"TMRHI"} : reg'[g] = reg[g]
        /\ code' = next /\ code # <<>> /\ UNCHANGED <<seq, enabled, mus_ok, mus_buf>>
    BY <2>1, <1>2, Store, Zenon
  <2>3. reg' \in Registers
    BY <2>2, <1>1, <1>a, InRegisters
  <2>4. SpeakerTyped'
    BY <2>2, <2>3, TypedKept
  <2>5. Whole'
    BY <2>2, <1>6, <1>9, WholeSilent DEF Whole, Fields
  <2>6. Held'
    BY <2>1, <2>2, <1>6, <1>9 DEF Held, Fields, Set
  <2>7. OffStates(rest, k + 1)'
    BY <2>2, <1>5, <1>6, <1>9 DEF Fields, Silenced
  <2> QED BY <2>2, <2>4, <2>5, <2>6, <2>7, <1>3, <1>9
<1>10. CASE k = 4
  <2>1. Head(code) = Set("TMRLO", 0) /\ "TMRLO" \in Fields
    BY <1>10, <1>2, <1>4 DEF Fields
  <2>2. /\ reg' = [reg EXCEPT !.TMRLO = 0] /\ reg'["TMRLO"] = 0
        /\ \A g \in Fields \ {"TMRLO"} : reg'[g] = reg[g]
        /\ code' = next /\ code # <<>> /\ UNCHANGED <<seq, enabled, mus_ok, mus_buf>>
    BY <2>1, <1>2, Store, Zenon
  <2>3. reg' \in Registers
    BY <2>2, <1>1, <1>a, InRegisters
  <2>4. SpeakerTyped'
    BY <2>2, <2>3, TypedKept
  <2>5. Whole'
    BY <2>2, <1>6, <1>10, WholeSilent DEF Whole, Fields
  <2>6. Held'
    BY <2>1, <2>2, <1>6, <1>10 DEF Held, Fields, Set
  <2>7. OffStates(rest, k + 1)'
    BY <2>2, <1>5, <1>6, <1>10 DEF Fields, Silenced
  <2> QED BY <2>2, <2>4, <2>5, <2>6, <2>7, <1>3, <1>10
<1>11. CASE k = 5
  <2>1. Head(code) = Set("DAC", 0) /\ "DAC" \in Fields
    BY <1>11, <1>2, <1>4 DEF Fields
  <2>2. /\ reg' = [reg EXCEPT !.DAC = 0] /\ reg'["DAC"] = 0
        /\ \A g \in Fields \ {"DAC"} : reg'[g] = reg[g]
        /\ code' = next /\ code # <<>> /\ UNCHANGED <<seq, enabled, mus_ok, mus_buf>>
    BY <2>1, <1>2, Store, Zenon
  <2>3. reg' \in Registers
    BY <2>2, <1>1, <1>a, InRegisters
  <2>4. SpeakerTyped'
    BY <2>2, <2>3, TypedKept
  <2>5. Whole'
    BY <2>2, <1>6, <1>11, WholeSilent DEF Whole, Fields
  <2>6. Held'
    BY <2>1, <2>2, <1>6, <1>11 DEF Held, Fields, Set
  <2>7. OffStates(rest, k + 1)'
    BY <2>2, <1>5, <1>6, <1>11 DEF Fields, Silenced
  <2> QED BY <2>2, <2>4, <2>5, <2>6, <2>7, <1>3, <1>11
<1>12. CASE k = 6
  <2>1. Head(code) = Set("level", 0) /\ "level" \in Fields
    BY <1>12, <1>2, <1>4 DEF Fields
  <2>2. /\ reg' = [reg EXCEPT !.level = 0] /\ reg'["level"] = 0
        /\ \A g \in Fields \ {"level"} : reg'[g] = reg[g]
        /\ code' = next /\ code # <<>> /\ UNCHANGED <<seq, enabled, mus_ok, mus_buf>>
    BY <2>1, <1>2, Store, Zenon
  <2>3. reg' \in Registers
    BY <2>2, <1>1, <1>a, InRegisters
  <2>4. SpeakerTyped'
    BY <2>2, <2>3, TypedKept
  <2>5. Whole'
    BY <2>2, <1>6, <1>12, WholeSilent DEF Whole, Fields
  <2>6. Held'
    BY <2>1, <2>2, <1>6, <1>12 DEF Held, Fields, Set
  <2>7. OffStates(rest, k + 1)'
    BY <2>2, <1>5, <1>6, <1>12 DEF Fields, Silenced
  <2> QED BY <2>2, <2>4, <2>5, <2>6, <2>7, <1>3, <1>12
<1> QED BY <1>7, <1>8, <1>9, <1>10, <1>11, <1>12

\* One store of the end of snd_init().
LEMMA OpeningStep ==
    ASSUME SpeakerTyped, Whole, Held, Assign, NEW k \in 1..3,
           NEW rest \in Seq(Statements), OpeningStates(rest, k)
    PROVE /\ SpeakerTyped' /\ Whole' /\ Held' /\ UNCHANGED <<seq, enabled, mus_ok, mus_buf>>
          /\ OpeningStates(rest, k + 1)'
          /\ k = 3 => code' = rest
<1> DEFINE r == Opening
           next == From(r, k + 1) \o rest
<1>1. /\ r \in Seq(Statements) /\ Len(r) = 3 /\ k \in 1..Len(r)
      /\ code = From(r, k) \o rest
      /\ reg \in Registers
  BY OpeningIs DEF OpeningStates, SpeakerTyped
<1>2. code # <<>> /\ Head(code) = r[k] /\ Tail(code) = next
  BY <1>1, FromStep
<1>3. k = 3 => next = rest
  <2>1. From(r, Len(r) + 1) \o rest = rest
    BY <1>1, FromEnds
  <2> QED BY <2>1, <1>1
<1>4. r[1] = Set("DAC", 0) /\ r[2] = Set("IRQENR", 0) /\ r[3] = Set("I", 0)
  BY OpeningIs
<1>5. code' = next /\ reg'.sounding = 0 /\ reg'.IRQENR = 0 => OpeningStates(rest, k + 1)'
  BY DEF OpeningStates
<1>6. reg.sounding = 0 /\ reg.IRQENR = 0
  BY DEF OpeningStates
<1>a. 0 \in Bits /\ 1 \in Bits /\ 0 \in 0..255
  BY DEF Bits
<1> HIDE DEF next, r
<1>7. CASE k = 1
  <2>1. Head(code) = Set("DAC", 0) /\ "DAC" \in Fields
    BY <1>7, <1>2, <1>4 DEF Fields
  <2>2. /\ reg' = [reg EXCEPT !.DAC = 0] /\ reg'["DAC"] = 0
        /\ \A g \in Fields \ {"DAC"} : reg'[g] = reg[g]
        /\ code' = next /\ code # <<>> /\ UNCHANGED <<seq, enabled, mus_ok, mus_buf>>
    BY <2>1, <1>2, Store, Zenon
  <2>3. reg' \in Registers
    BY <2>2, <1>1, <1>a, InRegisters
  <2>4. SpeakerTyped'
    BY <2>2, <2>3, TypedKept
  <2>5. Whole'
    BY <2>2, <1>6, <1>7, WholeSilent DEF Whole, Fields
  <2>6. Held'
    BY <2>1, <2>2, <1>6, <1>7 DEF Held, Fields, Set
  <2>7. OpeningStates(rest, k + 1)'
    BY <2>2, <1>5, <1>6, <1>7 DEF Fields
  <2> QED BY <2>2, <2>4, <2>5, <2>6, <2>7, <1>3, <1>7
<1>8. CASE k = 2
  <2>1. Head(code) = Set("IRQENR", 0) /\ "IRQENR" \in Fields
    BY <1>8, <1>2, <1>4 DEF Fields
  <2>2. /\ reg' = [reg EXCEPT !.IRQENR = 0] /\ reg'["IRQENR"] = 0
        /\ \A g \in Fields \ {"IRQENR"} : reg'[g] = reg[g]
        /\ code' = next /\ code # <<>> /\ UNCHANGED <<seq, enabled, mus_ok, mus_buf>>
    BY <2>1, <1>2, Store, Zenon
  <2>3. reg' \in Registers
    BY <2>2, <1>1, <1>a, InRegisters
  <2>4. SpeakerTyped'
    BY <2>2, <2>3, TypedKept
  <2>5. Whole'
    BY <2>2, <1>6, <1>8, WholeSilent DEF Whole, Fields
  <2>6. Held'
    BY <2>1, <2>2, <1>6, <1>8 DEF Held, Fields, Set
  <2>7. OpeningStates(rest, k + 1)'
    BY <2>2, <1>5, <1>6, <1>8 DEF Fields
  <2> QED BY <2>2, <2>4, <2>5, <2>6, <2>7, <1>3, <1>8
<1>9. CASE k = 3
  <2>1. Head(code) = Set("I", 0) /\ "I" \in Fields
    BY <1>9, <1>2, <1>4 DEF Fields
  <2>2. /\ reg' = [reg EXCEPT !.I = 0] /\ reg'["I"] = 0
        /\ \A g \in Fields \ {"I"} : reg'[g] = reg[g]
        /\ code' = next /\ code # <<>> /\ UNCHANGED <<seq, enabled, mus_ok, mus_buf>>
    BY <2>1, <1>2, Store, Zenon
  <2>3. reg' \in Registers
    BY <2>2, <1>1, <1>a, InRegisters
  <2>4. SpeakerTyped'
    BY <2>2, <2>3, TypedKept
  <2>5. Whole'
    BY <2>2, <1>6, <1>9, WholeSilent DEF Whole, Fields
  <2>6. Held'
    BY <2>1, <2>2, <1>6, <1>9 DEF Held, Fields, Set
  <2>7. OpeningStates(rest, k + 1)'
    BY <2>2, <1>5, <1>6, <1>9 DEF Fields
  <2> QED BY <2>2, <2>4, <2>5, <2>6, <2>7, <1>3, <1>9
<1> QED BY <1>7, <1>8, <1>9

\* One store of disk_quiet(): the voice keeps its note, and the DAC is about to rest.
LEMMA SectorStep ==
    ASSUME SpeakerTyped, Whole, Held, Assign, NEW k \in 1..3,
           NEW rest \in Seq(Statements), SectorStates(rest, k)
    PROVE /\ SpeakerTyped' /\ Whole' /\ Held' /\ UNCHANGED <<seq, enabled, mus_ok, mus_buf>>
          /\ k < 3 /\ SectorStates(rest, k + 1)'
          /\ Voice' = Voice
<1> DEFINE r == Sector
           next == From(r, k + 1) \o rest
<1>1. /\ r \in Seq(Statements) /\ Len(r) = 3 /\ k \in 1..Len(r)
      /\ code = From(r, k) \o rest
      /\ reg \in Registers
  BY SectorIs DEF SectorStates, SpeakerTyped
<1>2. code # <<>> /\ Head(code) = r[k] /\ Tail(code) = next
  BY <1>1, FromStep
<1>3. Voice' = IF reg'.sounding = 1 THEN reg'.cur_tenths ELSE 0
  BY DEF Voice
<1>4. r[1] = Set("held", 1) /\ r[2] = Set("DAC", 0) /\ r[3] = Do("read")
  BY SectorIs
<1>5. code' = next => SectorStates(rest, k + 1)'
  BY DEF SectorStates
<1>6. k # 3
  BY <1>2, <1>4 DEF Assign, At, Do
<1>9. k = 1 => Head(next) = Set("DAC", 0) /\ next # <<>>
  <2>1. Head(From(r, 2) \o rest) = r[2] /\ From(r, 2) \o rest # <<>>
    <3>1. 2 \in 1..Len(r)
      BY <1>1
    <3> QED BY <3>1, <1>1, FromStep, Zenon
  <2>2. k = 1 => next = From(r, 2) \o rest
    OBVIOUS
  <2> QED BY <2>1, <2>2, <1>4
<1>a. 0 \in Bits /\ 1 \in Bits /\ 0 \in 0..255
  BY DEF Bits
<1> HIDE DEF next, r
<1>7. CASE k = 1
  <2>1. Head(code) = Set("held", 1) /\ "held" \in Fields
    BY <1>7, <1>2, <1>4 DEF Fields
  <2>2. /\ reg' = [reg EXCEPT !.held = 1] /\ reg'["held"] = 1
        /\ \A g \in Fields \ {"held"} : reg'[g] = reg[g]
        /\ code' = next /\ code # <<>> /\ UNCHANGED <<seq, enabled, mus_ok, mus_buf>>
    BY <2>1, <1>2, Store, Zenon
  <2>3. reg' \in Registers
    BY <2>2, <1>1, <1>a, InRegisters
  <2>4. SpeakerTyped'
    BY <2>2, <2>3, TypedKept
  <2>5. Whole'
    BY <2>2, <1>6, <1>7 DEF Whole, Fields
  <2>6. Held'
    BY <2>1, <2>2, <1>6, <1>7, <1>9 DEF Held, Fields, Set
  <2>7. SectorStates(rest, k + 1)' /\ Voice' = Voice
    BY <2>2, <1>5, <1>6, <1>7 DEF Fields, Voice
  <2> QED BY <2>2, <2>4, <2>5, <2>6, <2>7, <1>3, <1>7
<1>8. CASE k = 2
  <2>1. Head(code) = Set("DAC", 0) /\ "DAC" \in Fields
    BY <1>8, <1>2, <1>4 DEF Fields
  <2>2. /\ reg' = [reg EXCEPT !.DAC = 0] /\ reg'["DAC"] = 0
        /\ \A g \in Fields \ {"DAC"} : reg'[g] = reg[g]
        /\ code' = next /\ code # <<>> /\ UNCHANGED <<seq, enabled, mus_ok, mus_buf>>
    BY <2>1, <1>2, Store, Zenon
  <2>3. reg' \in Registers
    BY <2>2, <1>1, <1>a, InRegisters
  <2>4. SpeakerTyped'
    BY <2>2, <2>3, TypedKept
  <2>5. Whole'
    BY <2>2, <1>6, <1>8 DEF Whole, Fields
  <2>6. Held'
    BY <2>1, <2>2, <1>6, <1>8, <1>9 DEF Held, Fields, Set
  <2>7. SectorStates(rest, k + 1)' /\ Voice' = Voice
    BY <2>2, <1>5, <1>6, <1>8 DEF Fields, Voice
  <2> QED BY <2>2, <2>4, <2>5, <2>6, <2>7, <1>3, <1>8
<1> QED BY <1>6, <1>7, <1>8

\* A statement and what follows it.
LEMMA FirstOf ==
    ASSUME NEW s \in Statements, NEW rest \in Seq(Statements)
    PROVE /\ <<s>> \o rest # <<>> /\ Head(<<s>> \o rest) = s /\ Tail(<<s>> \o rest) = rest
<1> DEFINE r == <<s>>
<1>1. r \in Seq(Statements) /\ Len(r) = 1 /\ r[1] = s /\ 1 \in 1..Len(r)
  BY Two
<1> HIDE DEF r
<1>2. /\ From(r, 1) \o rest # <<>> /\ Head(From(r, 1) \o rest) = r[1]
      /\ Tail(From(r, 1) \o rest) = From(r, 1 + 1) \o rest
  BY <1>1, FromStep, Zenon
<1>3. From(r, 1) = r /\ From(r, Len(r) + 1) \o rest = rest
  BY <1>1, FromEnds, Zenon
<1> QED BY <1>1, <1>2, <1>3 DEF r

\* A voice that sounds has a note to take up again.
LEMMA WholeNote == Whole /\ reg.sounding = 1 => reg.cur_tenths \in Notes
BY DEF Whole

\* The routine now running, by the statement it has come to.
AtWait == Waiting /\ At("wait")

AtPoll == Told(<<Do("poll")>>) /\ At("poll")

AtRead ==
    /\ At("read") /\ Owed(seq, Voice)
    /\ \/ Tail(code) = <<>>
       \/ Fresh /\ (Tail(code) = <<Do("open")>> \/ Tail(code) = <<Do("loaded")>>)

AtFile == Fresh /\ Owed(seq, Voice) /\ Tail(code) = <<>> /\ (At("open") \/ At("loaded"))

\* Which routine runs, by the kind of statement it has come to.
LEMMA RoutineIs ==
    ASSUME Whole, Phase
    PROVE At("set") \/ Told(<<>>) \/ AtWait \/ AtPoll \/ AtRead \/ AtFile
<1>1. /\ \A f, v : Set(f, v).do = "set"
      /\ \A w : Do(w).do = w
      /\ \A f, g : Wait(f, g).do = "wait"
  BY DEF Set, Do, Wait
<1>2. ASSUME NEW rest \in Seq(Statements), NEW k \in 1..6, OffStates(rest, k) PROVE At("set")
  <2>1. code # <<>> /\ Head(code) = voice_off[k]
    <3>1. k \in 1..Len(voice_off) /\ code = From(voice_off, k) \o rest
      BY <1>2, VoiceOff DEF OffStates
    <3> QED BY <3>1, VoiceOff, FromStep, Zenon
  <2>2. \E f, v : voice_off[k] = Set(f, v)
    BY VoiceOff
  <2> QED BY <2>1, <2>2, <1>1 DEF At
<1>3. ASSUME NEW rest \in Seq(Statements), NEW k \in 1..3, OpeningStates(rest, k) PROVE At("set")
  <2>1. code # <<>> /\ Head(code) = Opening[k]
    <3>1. k \in 1..Len(Opening) /\ code = From(Opening, k) \o rest
      BY <1>3, OpeningIs DEF OpeningStates
    <3> QED BY <3>1, OpeningIs, FromStep, Zenon
  <2>2. \E f, v : Opening[k] = Set(f, v)
    BY OpeningIs
  <2> QED BY <2>1, <2>2, <1>1 DEF At
<1>4. ASSUME NEW rest \in Seq(Statements), NEW k \in 1..8, NEW t \in Notes, NoteStates(rest, t, k)
      PROVE At("set")
  <2>1. code # <<>> /\ Head(code) = voice_note(t)[k]
    <3>1. k \in 1..Len(voice_note(t)) /\ code = From(voice_note(t), k) \o rest
      BY <1>4, VoiceNote DEF NoteStates
    <3>2. voice_note(t) \in Seq(Statements)
      BY VoiceNote
    <3> QED BY <3>1, <3>2, FromStep, Zenon
  <2>2. \E f, v : voice_note(t)[k] = Set(f, v)
    BY VoiceNote, SMTT(60)
  <2> QED BY <2>1, <2>2, <1>1 DEF At
<1>5. ASSUME NEW rest \in Seq(Statements), NEW k \in 1..3, SectorStates(rest, k)
      PROVE At("set") \/ (At("read") /\ Tail(code) = rest)
  <2>1. code # <<>> /\ Head(code) = Sector[k] /\ Tail(code) = From(Sector, k + 1) \o rest
    <3>1. k \in 1..Len(Sector) /\ code = From(Sector, k) \o rest
      BY <1>5, SectorIs DEF SectorStates
    <3> QED BY <3>1, SectorIs, FromStep, Zenon
  <2>2. CASE k # 3
    <3>1. \E f, v : Sector[k] = Set(f, v)
      BY <2>2, SectorIs
    <3> QED BY <3>1, <2>1, <1>1 DEF At
  <2>3. CASE k = 3
    <3>1. From(Sector, Len(Sector) + 1) \o rest = rest
      BY SectorIs, FromEnds
    <3>2. Head(code) = Do("read") /\ Tail(code) = rest
      BY <2>1, <2>3, <3>1, SectorIs
    <3> QED BY <3>2, <2>1, <1>1, Zenon DEF At
  <2> QED BY <2>2, <2>3
<1>6. ASSUME Storing PROVE At("set")
  <2>1. CASE InVoiceOff
    BY <2>1, <1>2, Rests, Zenon DEF InVoiceOff
  <2>2. CASE InVoiceNote(<<>>) \/ InVoiceNote(<<Do("poll")>>)
    BY <2>2, <1>4, Rests, Zenon DEF InVoiceNote
  <2>3. CASE InSndBeep
    BY <2>3, <1>4, Rests, TenthsInRange, Zenon DEF InSndBeep
  <2>4. CASE LettingGo
    <3>1. reg.cur_tenths \in Notes
      BY <2>4, WholeNote DEF LettingGo
    <3>2. voice_note(reg.cur_tenths) \o <<Do("poll")>> \in Seq(Statements)
      BY <3>1, VoiceNote, Rests, ConcatProperties
    <3>3. Set("held", 0) \in Statements
      BY SetIsStatement DEF Fields
    <3> DEFINE tail == voice_note(reg.cur_tenths) \o <<Do("poll")>>
    <3>4. code = <<Set("held", 0)>> \o tail
      BY <2>4 DEF LettingGo
    <3> HIDE DEF tail
    <3>5. code # <<>> /\ Head(code) = Set("held", 0)
      BY <3>2, <3>3, <3>4, FirstOf, Zenon DEF tail
    <3> QED BY <3>5, <1>1, Zenon DEF At
  <2>5. CASE Told(<<Set("held", 0), Do("poll")>>)
    <3>1. code # <<>> /\ Head(code) = Set("held", 0)
      BY <2>5 DEF Told
    <3> QED BY <3>1, <1>1, Zenon DEF At
  <2>6. CASE InSndInit
    BY <2>6, <1>2, Rests, Zenon DEF InSndInit, ToOpen
  <2>7. CASE InOpening
    BY <2>7, <1>3, Rests, Zenon DEF InOpening, ToOpen
  <2> QED BY <1>6, <2>1, <2>2, <2>3, <2>4, <2>5, <2>6, <2>7, Zenon DEF Storing
<1>7. ASSUME NEW rest \in Seq(Statements), InSector(rest), rest = <<>> \/ Fresh,
             rest = <<>> \/ rest = <<Do("open")>> \/ rest = <<Do("loaded")>>
      PROVE At("set") \/ AtRead
  BY <1>5, <1>7, Zenon DEF InSector, AtRead
<1>8. ASSUME NEW w, code = <<Do(w)>> PROVE At(w) /\ Tail(code) = <<>>
  <2>1. code # <<>> /\ Head(code) = Do(w) /\ Tail(code) = <<>>
    BY <1>8
  <2> QED BY <2>1, <1>1, Zenon DEF At
<1>9. Waiting => AtWait
  <2>1. ASSUME NEW f, NEW g, code = <<Wait(f, g)>> PROVE At("wait")
    <3>1. code # <<>> /\ Head(code) = Wait(f, g)
      BY <2>1
    <3> QED BY <3>1, <1>1, Zenon DEF At
  <2> QED BY <2>1, Zenon DEF Waiting, AtWait
<1>10. CASE Resting
  BY <1>10, <1>7, <1>8, <1>9, Rests, Zenon DEF Resting, AtPoll, Told
<1>11. CASE Fresh /\ FetchingTune
  <2>1. CASE InSector(<<Do("open")>>) \/ InSector(<<Do("loaded")>>)
    BY <2>1, <1>7, <1>11, Rests, Zenon
  <2>2. CASE Told(<<Do("open")>>) \/ Told(<<Do("loaded")>>)
    BY <2>2, <1>8, <1>11, Zenon DEF Told, AtFile
  <2> QED BY <1>11, <2>1, <2>2, Zenon DEF FetchingTune
<1> QED BY <1>6, <1>10, <1>11, Zenon DEF Phase

\* A store, whatever routine it is in, keeps the invariant.
LEMMA AssignStep ==
    ASSUME SpeakerTyped, Whole, Held, Phase, Assign
    PROVE SpeakerTyped' /\ Whole' /\ Held' /\ Phase'
<1>1. UNCHANGED <<seq, enabled, mus_ok, mus_buf>>
  BY DEF Assign
<1>2. Fresh' <=> Fresh
  BY <1>1 DEF Fresh
<1>3. ASSUME NEW k \in 1..6, NEW rest \in Seq(Statements), OffStates(rest, k)
      PROVE /\ SpeakerTyped' /\ Whole' /\ Held'
            /\ \/ code' = rest /\ Voice' = 0 /\ reg'.sounding = 0 /\ reg'.IRQENR = 0
               \/ \E i \in 1..6 : OffStates(rest, i)'
  <2>1. /\ SpeakerTyped' /\ Whole' /\ Held' /\ OffStates(rest, k + 1)' /\ (k = 6 => code' = rest)
    BY <1>3, OffStep
  <2>2. CASE k = 6
    <3>1. Silenced(7)'
      BY <2>1, <2>2 DEF OffStates
    <3>2. reg'.sounding = 0 /\ reg'.IRQENR = 0
      BY <3>1 DEF Silenced
    <3> QED BY <2>1, <2>2, <3>2 DEF Voice
  <2>3. CASE k # 6
    <3>1. k + 1 \in 1..6
      BY <2>3
    <3> QED BY <2>1, <3>1, Zenon
  <2> QED BY <2>2, <2>3
<1>4. ASSUME NEW k \in 1..8, NEW t \in Notes, NEW rest \in Seq(Statements), NoteStates(rest, t, k)
      PROVE /\ SpeakerTyped' /\ Whole' /\ Held'
            /\ \/ code' = rest /\ Voice' = t
               \/ \E i \in 1..8 : NoteStates(rest, t, i)'
  <2>1. /\ SpeakerTyped' /\ Whole' /\ Held' /\ (k < 8 => NoteStates(rest, t, k + 1)')
        /\ (k = 8 => code' = rest /\ reg'.sounding = 1 /\ reg'.cur_tenths = t)
    BY <1>4, NoteStep
  <2>2. CASE k = 8
    BY <2>1, <2>2 DEF Voice
  <2>3. CASE k # 8
    <3>1. k + 1 \in 1..8 /\ k < 8
      BY <2>3
    <3> QED BY <2>1, <3>1, Zenon
  <2> QED BY <2>2, <2>3
<1>5. ASSUME NEW rest \in Seq(Statements), InSector(rest)
      PROVE SpeakerTyped' /\ Whole' /\ Held' /\ InSector(rest)'
  <2>1. PICK k \in 1..3 : SectorStates(rest, k)
    BY <1>5, Zenon DEF InSector
  <2>2. /\ SpeakerTyped' /\ Whole' /\ Held' /\ k < 3 /\ SectorStates(rest, k + 1)' /\ Voice' = Voice
    BY <2>1, SectorStep
  <2>3. k + 1 \in 1..3
    BY <2>2
  <2>4. Owed(seq, Voice)'
    BY <1>1, <1>5, <2>2 DEF InSector, Owed, LastNote, Pitch
  <2> QED BY <2>2, <2>3, <2>4, Zenon DEF InSector
<1>6. CASE InVoiceOff
  <2>1. PICK k \in 1..6 : OffStates(<<>>, k)
    BY <1>6, Zenon DEF InVoiceOff
  <2>2. /\ SpeakerTyped' /\ Whole' /\ Held'
        /\ (code' = <<>> /\ Voice' = 0) \/ \E i \in 1..6 : OffStates(<<>>, i)'
    BY <2>1, <1>3, Rests, Zenon
  <2>3. Owed(seq, 0)'
    BY <1>1, <1>6 DEF InVoiceOff, Owed, LastNote, Pitch
  <2>4. code' = <<>> /\ Voice' = 0 => Told(<<>>)'
    BY <2>3 DEF Told
  <2>5. (\E i \in 1..6 : OffStates(<<>>, i)') => InVoiceOff'
    BY <2>3, Zenon DEF InVoiceOff
  <2> QED BY <2>2, <2>4, <2>5, Zenon DEF Phase, Storing, Resting
<1>7. ASSUME NEW rest \in Seq(Statements), InVoiceNote(rest)
      PROVE SpeakerTyped' /\ Whole' /\ Held' /\ (Told(rest)' \/ InVoiceNote(rest)')
  <2>1. PICK t \in Notes, k \in 1..8 : NoteStates(rest, t, k) /\ Owed(seq, t)
    BY <1>7, Zenon DEF InVoiceNote
  <2>2. /\ SpeakerTyped' /\ Whole' /\ Held'
        /\ (code' = rest /\ Voice' = t) \/ \E i \in 1..8 : NoteStates(rest, t, i)'
    BY <2>1, <1>4, Zenon
  <2>3. Owed(seq, t)'
    BY <1>1, <2>1 DEF Owed, LastNote, Pitch
  <2>4. code' = rest /\ Voice' = t => Told(rest)'
    BY <2>3 DEF Told
  <2>5. (\E i \in 1..8 : NoteStates(rest, t, i)') => InVoiceNote(rest)'
    BY <2>3, Zenon DEF InVoiceNote
  <2> QED BY <2>2, <2>4, <2>5, Zenon
<1>8. CASE InVoiceNote(<<>>) \/ InVoiceNote(<<Do("poll")>>)
  BY <1>7, <1>8, Rests, Zenon DEF Phase, Storing, Resting
<1>9. CASE InSndBeep
  <2>1. PICK k \in 1..8 : NoteStates(<<Wait(0, 0)>>, BEEP_TENTHS, k)
    BY <1>9, Zenon DEF InSndBeep
  <2>2. /\ SpeakerTyped' /\ Whole' /\ Held'
        /\ code' = <<Wait(0, 0)>> \/ \E i \in 1..8 : NoteStates(<<Wait(0, 0)>>, BEEP_TENTHS, i)'
    BY <2>1, <1>4, Rests, TenthsInRange, Zenon
  <2>3. ~seq'.sfx_on
    BY <1>1, <1>9 DEF InSndBeep
  <2>4. 0 \in 0..BEEP_FRAMES /\ 0 \in 0..(GuardSize - 1)
    BY BeepCounts
  <2> QED BY <2>2, <2>3, <2>4, Zenon DEF Phase, Storing, Resting, Waiting, InSndBeep
<1>10. ASSUME NEW rest \in Seq(Statements), Head(code) = Set("held", 0), Tail(code) = rest
       PROVE /\ SpeakerTyped' /\ Whole' /\ Held' /\ code' = rest /\ Voice' = Voice
             /\ reg'.sounding = reg.sounding /\ reg'.cur_tenths = reg.cur_tenths
  <2>1. "held" \in Fields
    BY DEF Fields
  <2>2. /\ reg' = [reg EXCEPT !.held = 0] /\ reg'["held"] = 0
        /\ \A g \in Fields \ {"held"} : reg'[g] = reg[g]
        /\ code' = rest
    BY <2>1, <1>10, Store, Zenon
  <2>3. reg' \in Registers /\ SpeakerTyped'
    BY <2>2, <1>1, InRegisters, TypedKept DEF SpeakerTyped, Bits
  <2>4. Whole'
    BY <2>2 DEF Whole, Fields
  <2>5. Held'
    BY <2>2 DEF Held
  <2>6. Voice' = Voice
    BY <2>2 DEF Voice, Fields
  <2> QED BY <2>2, <2>3, <2>4, <2>5, <2>6 DEF Fields
<1>11. CASE LettingGo
  <2>1. PICK t \in Notes : t = reg.cur_tenths
    BY <1>11, WholeNote DEF LettingGo
  <2> DEFINE rest == voice_note(t) \o <<Do("poll")>>
  <2>2. rest \in Seq(Statements)
    BY <2>1, VoiceNote, Rests, ConcatProperties
  <2>3. Set("held", 0) \in Statements
    BY SetIsStatement DEF Fields
  <2>4. code = <<Set("held", 0)>> \o rest /\ Voice = t /\ Owed(seq, Voice)
    BY <1>11, <2>1 DEF LettingGo, Voice
  <2>5. rest = From(voice_note(t), 1) \o <<Do("poll")>>
    BY <2>1, VoiceNote, FromEnds
  <2> HIDE DEF rest
  <2>6. Head(code) = Set("held", 0) /\ Tail(code) = rest
    BY <2>2, <2>3, <2>4, FirstOf, Zenon
  <2>7. SpeakerTyped' /\ Whole' /\ Held' /\ code' = rest
    BY <2>2, <2>6, <1>10, Zenon
  <2>8. Struck(t, 1)'
    BY DEF Struck
  <2>9. Owed(seq, t)'
    BY <1>1, <2>4 DEF Owed, LastNote, Pitch
  <2>10. NoteStates(<<Do("poll")>>, t, 1)' /\ 1 \in 1..8
    BY <2>5, <2>7, <2>8 DEF NoteStates
  <2>11. InVoiceNote(<<Do("poll")>>)'
    BY <2>1, <2>9, <2>10, Zenon DEF InVoiceNote
  <2> QED BY <2>7, <2>11, Zenon DEF Phase, Storing
<1>12. CASE Told(<<Set("held", 0), Do("poll")>>)
  <2>1. Head(code) = Set("held", 0) /\ Tail(code) = <<Do("poll")>>
    BY <1>12 DEF Told
  <2>2. SpeakerTyped' /\ Whole' /\ Held' /\ code' = <<Do("poll")>> /\ Voice' = Voice
    BY <2>1, <1>10, Rests, Zenon
  <2>3. Told(<<Do("poll")>>)'
    BY <2>2, <1>1, <1>12 DEF Told, Owed, LastNote, Pitch
  <2> QED BY <2>2, <2>3, Zenon DEF Phase, Resting
<1>13. CASE Fresh /\ InSndInit
  <2>1. PICK k \in 1..6 : OffStates(Opening \o ToOpen, k)
    BY <1>13, Zenon DEF InSndInit
  <2>2. /\ SpeakerTyped' /\ Whole' /\ Held'
        /\ \/ code' = Opening \o ToOpen /\ reg'.sounding = 0 /\ reg'.IRQENR = 0
           \/ \E i \in 1..6 : OffStates(Opening \o ToOpen, i)'
    BY <2>1, <1>3, Rests, Zenon DEF ToOpen
  <2>3. Opening \o ToOpen = From(Opening, 1) \o ToOpen
    BY OpeningIs, Rests, FromEnds DEF ToOpen
  <2>4. code' = Opening \o ToOpen /\ reg'.sounding = 0 /\ reg'.IRQENR = 0 => OpeningStates(ToOpen, 1)'
    BY <2>3 DEF OpeningStates
  <2>5. 1 \in 1..3
    OBVIOUS
  <2> QED BY <2>2, <2>4, <2>5, <1>2, <1>13, Zenon DEF Phase, Storing, InSndInit, InOpening
<1>14. CASE Fresh /\ InOpening
  <2>1. PICK k \in 1..3 : OpeningStates(ToOpen, k)
    BY <1>14, Zenon DEF InOpening
  <2>2. /\ SpeakerTyped' /\ Whole' /\ Held' /\ OpeningStates(ToOpen, k + 1)'
        /\ (k = 3 => code' = ToOpen)
    BY <2>1, OpeningStep, Rests DEF ToOpen
  <2>3. CASE k # 3
    <3>1. k + 1 \in 1..3
      BY <2>3
    <3> QED BY <2>2, <3>1, <1>2, <1>14, Zenon DEF Phase, Storing, InOpening
  <2>4. CASE k = 3
    <3>1. Voice' = 0
      BY <2>2 DEF OpeningStates, Voice
    <3>2. Owed(seq, Voice)'
      BY <3>1, <2>2, <1>2, <1>14 DEF Fresh, Owed, SpeakerTyped, Seqs
    <3>3. ToOpen = From(Sector, 1) \o <<Do("open")>> /\ 1 \in 1..3
      <4>1. From(Sector, 1) = Sector
        BY SectorIs, FromEnds
      <4> QED BY <4>1 DEF ToOpen
    <3>4. InSector(<<Do("open")>>)'
      BY <2>2, <2>4, <3>2, <3>3 DEF InSector, SectorStates
    <3> QED BY <2>2, <3>4, <1>2, <1>14, Zenon DEF Phase, FetchingTune
  <2> QED BY <2>3, <2>4
<1>15. CASE InSector(<<>>)
  BY <1>15, <1>5, Rests, Zenon DEF Phase, Resting
<1>16. CASE Fresh /\ (InSector(<<Do("open")>>) \/ InSector(<<Do("loaded")>>))
  BY <1>16, <1>2, <1>5, Rests, Zenon DEF Phase, FetchingTune
<1>17. At("set")
  BY Zenon DEF Assign
<1>18. ASSUME NEW w, code = <<Do(w)>>, w # "set" PROVE FALSE
  BY <1>17, <1>18 DEF At, Do
<1>19. ~Waiting /\ code # <<>>
  BY <1>17 DEF Waiting, At, Wait
<1>20. /\ ~Told(<<>>) /\ ~Told(<<Do("poll")>>)
       /\ ~Told(<<Do("open")>>) /\ ~Told(<<Do("loaded")>>)
  BY <1>18, <1>19 DEF Told
<1> QED BY <1>6, <1>8, <1>9, <1>11, <1>12, <1>13, <1>14, <1>15, <1>16, <1>19, <1>20, Zenon
        DEF Phase, Storing, Resting, FetchingTune

StreamsOK(q) ==
    /\ q \in Seqs
    /\ q.mus_on => q.mus.track \in Tracks /\ q.mus_head.track \in Tracks
    /\ q.sfx_on => q.sfx.track \in Tracks

\* A reading of any tunes, with any of its bytes lost, has bytes for its ticks and pitches
\* the voice may be told.
LEMMA ReadingsAreTunes == ASSUME NEW b \in Readings PROVE TuneRead(b)
<1>1. PICK lost \in Losses : b = far_read(lost)
  BY DEF Readings
<1> SUFFICES ASSUME NEW t \in Tracks, NEW i \in DOMAIN b[t]
             PROVE b[t][i][1] \in 0..255 /\ b[t][i][2] \in {0} \cup Tenths
  BY DEF TuneRead
<1>2. b[t] = [n \in DOMAIN Tunes[t] |-> <<fetch(lost, <<t, n, 1>>), fetch(lost, <<t, n, 2>>)>>]
  BY <1>1 DEF far_read
<1>3. i \in DOMAIN Tunes[t] /\ b[t][i] = <<fetch(lost, <<t, i, 1>>), fetch(lost, <<t, i, 2>>)>>
  BY <1>2
<1>4. /\ fetch(lost, <<t, i, 1>>) \in {0, Tunes[t][i][1]}
      /\ fetch(lost, <<t, i, 2>>) \in {0, Tunes[t][i][2]}
  BY DEF fetch
<1>5. Tunes[t][i][1] \in 1..255
  BY <1>3, TunesAreBytes
<1>6. Tunes[t][i][2] \in Tenths
  <2>1. Tunes[t][i][2] \in {Tunes[t][n][2] : n \in DOMAIN Tunes[t]}
    BY <1>3
  <2> QED BY <2>1, Zenon DEF Tenths
<1> QED BY <1>3, <1>4, <1>5, <1>6

\* A tune that was read, or half read, gives a byte of ticks and a pitch.
LEMMA TunesRead ==
    ASSUME TuneRead(mus_buf), NEW p \in NoteStreams, p.track \in Tracks, ~Ended(p)
    PROVE /\ Ticks(p) \in Nat /\ Pitch(p) \in {0} \cup Tenths
          /\ Next1(p) \in NoteStreams /\ Next1(p).track = p.track /\ LastNote(Next1(p)) = Pitch(p)
<1>1. Ticks(p) \in 0..255 /\ Pitch(p) \in {0} \cup Tenths
  BY Zenon DEF TuneRead, Ended, Ticks, Pitch
<1>2. Next1(p) \in NoteStreams /\ Next1(p).track = p.track /\ Next1(p).at = p.at + 1
  BY DEF Next1, NoteStreams
<1>3. LastNote(Next1(p)) = Pitch(p)
  BY <1>2 DEF LastNote, Pitch, NoteStreams
<1> QED BY <1>1, <1>2, <1>3

\* A rest is voice_off().
LEMMA NoNote == voice_note(0) = voice_off
BY DEF voice_note

\* A count-down that does not go below zero.
LEMMA LessIs == ASSUME NEW n \in Nat PROVE Less(n) \in Nat /\ (Less(n) # 0 => n > 0)
BY DEF Less

\* What becomes of the tune when its note is due: an effect is left the speaker.
LEMMA MusicDueOK ==
    ASSUME TuneRead(mus_buf), NEW q, StreamsOK(q), q.mus_on
    PROVE LET m == MusicDue(q) IN
          /\ StreamsOK(m.q) /\ m.q.sfx_on = q.sfx_on /\ m.q.sfx = q.sfx /\ m.q.sfx_left = q.sfx_left
          /\ q.sfx_on => m.code = <<>>
          /\ ~q.sfx_on => \E t \in {0} \cup Tenths : m.code = voice_note(t) /\ Owed(m.q, t)
<1> DEFINE p == IF Ended(q.mus) THEN q.mus_head ELSE q.mus
<1>1. p \in NoteStreams /\ p.track \in Tracks /\ q \in Seqs
  BY DEF StreamsOK, Seqs
<1>2. MusicDue(q) = IF Ended(p)
                    THEN [q |-> [q EXCEPT !.mus = p, !.mus_on = FALSE],
                          code |-> IfHeard(q, voice_off)]
                    ELSE [q |-> [q EXCEPT !.mus = Next1(p), !.note_left = Ticks(p)],
                          code |-> IfHeard(q, voice_note(Pitch(p)))]
  BY DEF MusicDue
<1> HIDE DEF p
<1>3. CASE Ended(p)
  <2> DEFINE r == [q EXCEPT !.mus = p, !.mus_on = FALSE]
  <2>1. MusicDue(q).q = r /\ MusicDue(q).code = IfHeard(q, voice_off)
    BY <1>2, <1>3
  <2>2. /\ r \in Seqs /\ ~r.mus_on /\ r.sfx_on = q.sfx_on /\ r.sfx = q.sfx /\ r.sfx_left = q.sfx_left
    BY <1>1 DEF Seqs
  <2> HIDE DEF r
  <2>3. StreamsOK(r)
    BY <2>2 DEF StreamsOK
  <2>4. ~q.sfx_on => Owed(r, 0)
    BY <2>2 DEF Owed
  <2>5. /\ q.sfx_on => IfHeard(q, voice_off) = <<>>
        /\ ~q.sfx_on => IfHeard(q, voice_off) = voice_note(0)
    BY NoNote DEF IfHeard
  <2> QED BY <2>1, <2>2, <2>3, <2>4, <2>5
<1>4. CASE ~Ended(p)
  <2> DEFINE r == [q EXCEPT !.mus = Next1(p), !.note_left = Ticks(p)]
  <2>1. MusicDue(q).q = r /\ MusicDue(q).code = IfHeard(q, voice_note(Pitch(p)))
    BY <1>2, <1>4
  <2>2. /\ Ticks(p) \in Nat /\ Pitch(p) \in {0} \cup Tenths
        /\ Next1(p) \in NoteStreams /\ Next1(p).track = p.track /\ LastNote(Next1(p)) = Pitch(p)
    BY <1>1, <1>4, TunesRead
  <2>3. /\ r \in Seqs /\ r.mus_on /\ r.mus = Next1(p) /\ r.mus_head = q.mus_head
        /\ r.sfx_on = q.sfx_on /\ r.sfx = q.sfx /\ r.sfx_left = q.sfx_left
    BY <1>1, <2>2 DEF Seqs
  <2> HIDE DEF r
  <2>4. StreamsOK(r)
    BY <1>1, <2>2, <2>3 DEF StreamsOK
  <2>5. ~q.sfx_on => Owed(r, Pitch(p))
    BY <2>2, <2>3 DEF Owed
  <2>6. /\ q.sfx_on => IfHeard(q, voice_note(Pitch(p))) = <<>>
        /\ ~q.sfx_on => IfHeard(q, voice_note(Pitch(p))) = voice_note(Pitch(p))
    BY DEF IfHeard
  <2> QED BY <2>1, <2>2, <2>3, <2>4, <2>5, <2>6
<1> QED BY <1>3, <1>4

\* What becomes of the effect: when it ends, a tune that plays is due at once.
LEMMA EffectDueOK ==
    ASSUME TuneRead(mus_buf), NEW q, StreamsOK(q), q.sfx_on, NEW v
    PROVE LET e == EffectDue(q) IN
          /\ StreamsOK(e.q)
          /\ \/ e.code = <<>> /\ Owed(e.q, v)
             \/ \E t \in {0} \cup Tenths : e.code = voice_note(t) /\ Owed(e.q, t)
<1>1. q.sfx \in NoteStreams /\ q.sfx.track \in Tracks /\ q \in Seqs
  BY DEF StreamsOK, Seqs
<1>2. CASE ~Ended(q.sfx)
  <2> DEFINE p == q.sfx
             r == [q EXCEPT !.sfx = Next1(p), !.sfx_left = Ticks(p)]
  <2>1. EffectDue(q).q = r /\ EffectDue(q).code = voice_note(Pitch(p))
    BY <1>2 DEF EffectDue
  <2>2. /\ Ticks(p) \in Nat /\ Pitch(p) \in {0} \cup Tenths
        /\ Next1(p) \in NoteStreams /\ Next1(p).track = p.track /\ LastNote(Next1(p)) = Pitch(p)
    BY <1>1, <1>2, TunesRead
  <2>3. /\ r \in Seqs /\ r.sfx_on /\ r.sfx = Next1(p) /\ r.mus_on = q.mus_on
        /\ r.mus = q.mus /\ r.mus_head = q.mus_head
    BY <1>1, <2>2 DEF Seqs
  <2> HIDE DEF r
  <2>4. StreamsOK(r)
    BY <1>1, <2>2, <2>3 DEF StreamsOK
  <2>5. Owed(r, Pitch(p))
    BY <2>2, <2>3 DEF Owed
  <2> QED BY <2>1, <2>2, <2>4, <2>5
<1>3. CASE Ended(q.sfx)
  <2> DEFINE r == [q EXCEPT !.sfx_on = FALSE, !.note_left = IF q.mus_on THEN 0 ELSE @]
  <2>1. EffectDue(q).q = r /\ EffectDue(q).code = IF q.mus_on THEN <<>> ELSE voice_off
    BY <1>3 DEF EffectDue
  <2>2. /\ r \in Seqs /\ ~r.sfx_on /\ r.mus_on = q.mus_on /\ (q.mus_on => r.note_left = 0)
        /\ r.mus = q.mus /\ r.mus_head = q.mus_head
    BY <1>1 DEF Seqs
  <2> HIDE DEF r
  <2>3. StreamsOK(r)
    BY <2>2 DEF StreamsOK
  <2>4. q.mus_on => Owed(r, v)
    BY <2>2 DEF Owed
  <2>5. ~q.mus_on => Owed(r, 0)
    BY <2>2 DEF Owed
  <2> QED BY <2>1, <2>3, <2>4, <2>5, NoNote
<1> QED BY <1>2, <1>3

\* voice_note() of a note or of a rest is a sequence of statements.
LEMMA VoiceNoteSeq == \A t \in {0} \cup Tenths : voice_note(t) \in Seq(Statements)
BY VoiceNote, VoiceOff, NoNote DEF Notes

\* One tick of both streams: the voice is told at most one note, and then it is the note the
\* streams owe it; told nothing, it owes nothing new.
LEMMA TickOK ==
    ASSUME TuneRead(mus_buf), NEW q, StreamsOK(q), NEW v, Owed(q, v)
    PROVE LET m == music_tick(q) IN
          /\ StreamsOK(m.q)
          /\ \/ m.code = <<>> /\ Owed(m.q, v)
             \/ \E t \in {0} \cup Tenths : m.code = voice_note(t) /\ Owed(m.q, t)
<1> DEFINE q1 == [q EXCEPT !.note_left = IF q.mus_on THEN Less(@) ELSE @]
           m == IF q1.mus_on /\ q1.note_left = 0 THEN MusicDue(q1) ELSE [q |-> q1, code |-> <<>>]
           q2 == [m.q EXCEPT !.sfx_left = IF m.q.sfx_on THEN Less(@) ELSE @]
           e == IF q2.sfx_on /\ q2.sfx_left = 0 THEN EffectDue(q2) ELSE [q |-> q2, code |-> <<>>]
<1>1. music_tick(q).q = e.q /\ music_tick(q).code = m.code \o e.code
  BY DEF music_tick
<1>2. /\ q \in Seqs /\ q1 \in Seqs /\ q1.mus_on = q.mus_on /\ q1.sfx_on = q.sfx_on
      /\ q1.mus = q.mus /\ q1.mus_head = q.mus_head /\ q1.sfx = q.sfx /\ q1.sfx_left = q.sfx_left
      /\ q1.note_left = IF q.mus_on THEN Less(q.note_left) ELSE q.note_left
  <2>1. q \in Seqs /\ Less(q.note_left) \in Nat
    BY LessIs DEF StreamsOK, Seqs
  <2> QED BY <2>1 DEF Seqs
<1> HIDE DEF q1
<1>3. StreamsOK(q1)
  BY <1>2 DEF StreamsOK
<1>4. q1.note_left # 0 => Owed(q1, v)
  <2>1. q1.note_left # 0 /\ q.mus_on => q.note_left > 0
    BY <1>2, LessIs DEF Seqs
  <2> QED BY <2>1, <1>2 DEF Owed
<1>5. ~(q1.mus_on /\ q1.note_left = 0) => Owed(q1, v)
  BY <1>4, <1>2 DEF Owed
<1>6. /\ StreamsOK(m.q)
      /\ q1.sfx_on => m.q.sfx_on /\ m.code = <<>> /\ (m.q.sfx_left > 0 => LastNote(m.q.sfx) = v)
      /\ ~q1.sfx_on => /\ ~m.q.sfx_on
                       /\ \/ m.code = <<>> /\ Owed(m.q, v)
                          \/ \E t \in {0} \cup Tenths : m.code = voice_note(t) /\ Owed(m.q, t)
  <2>1. q.sfx_on /\ q.sfx_left > 0 => LastNote(q.sfx) = v
    BY DEF Owed
  <2>2. CASE q1.mus_on /\ q1.note_left = 0
    <3>1. m = MusicDue(q1)
      BY <2>2
    <3> HIDE DEF m
    <3>2. /\ StreamsOK(m.q) /\ m.q.sfx_on = q1.sfx_on /\ m.q.sfx = q1.sfx /\ m.q.sfx_left = q1.sfx_left
          /\ q1.sfx_on => m.code = <<>>
          /\ ~q1.sfx_on => \E t \in {0} \cup Tenths : m.code = voice_note(t) /\ Owed(m.q, t)
      BY <3>1, <2>2, <1>3, MusicDueOK
    <3> QED BY <3>2, <2>1, <1>2
  <2>3. CASE ~(q1.mus_on /\ q1.note_left = 0)
    <3>1. m.q = q1 /\ m.code = <<>>
      <4>1. m = [q |-> q1, code |-> <<>>]
        BY <2>3, Zenon
      <4> HIDE DEF m
      <4> QED BY <4>1
    <3> HIDE DEF m
    <3> QED BY <3>1, <2>1, <2>3, <1>2, <1>3, <1>5
  <2> QED BY <2>2, <2>3
<1> HIDE DEF m
<1>7. CASE ~q1.sfx_on
  <2>1. /\ m.q \in Seqs /\ q2 = m.q
    <3>1. m.q \in Seqs /\ ~m.q.sfx_on
      BY <1>6, <1>7 DEF StreamsOK
    <3>2. q2 = [m.q EXCEPT !.sfx_left = @]
      BY <3>1
    <3> QED BY <3>1, <3>2 DEF Seqs
  <2>2. e.q = m.q /\ e.code = <<>>
    BY <2>1, <1>6, <1>7
  <2>3. m.code \in Seq(Statements) 
    BY <1>6, <1>7, VoiceNoteSeq, Rests
  <2>4. m.code \o e.code = m.code
    BY <2>2, <2>3, ConcatEmptySeq
  <2> QED BY <1>1, <1>6, <1>7, <2>2, <2>4
<1>8. CASE q1.sfx_on
  <2>1. /\ m.q \in Seqs /\ m.q.sfx_on /\ m.code = <<>> /\ (m.q.sfx_left > 0 => LastNote(m.q.sfx) = v)
    BY <1>6, <1>8 DEF StreamsOK
  <2>2. /\ q2 \in Seqs /\ q2.sfx_left = Less(m.q.sfx_left)
        /\ q2.sfx_on /\ q2.mus_on = m.q.mus_on /\ q2.mus = m.q.mus /\ q2.mus_head = m.q.mus_head
        /\ q2.sfx = m.q.sfx
    <3>1. Less(m.q.sfx_left) \in Nat
      BY <2>1, LessIs DEF Seqs
    <3> QED BY <2>1, <3>1 DEF Seqs
  <2>3. StreamsOK(q2)
    BY <2>2, <1>6 DEF StreamsOK
  <2>4. q2.sfx_left # 0 => m.q.sfx_left > 0
    BY <2>1, <2>2, LessIs DEF Seqs
  <2>5. q2.sfx_left # 0 => Owed(q2, v)
    BY <2>1, <2>2, <2>4 DEF Owed
  <2> HIDE DEF q2
  <2>6. /\ StreamsOK(e.q)
        /\ \/ e.code = <<>> /\ Owed(e.q, v)
           \/ \E t \in {0} \cup Tenths : e.code = voice_note(t) /\ Owed(e.q, t)
    <3>1. CASE q2.sfx_left = 0
      <4>1. e = EffectDue(q2)
        BY <3>1, <2>2
      <4> HIDE DEF e
      <4> QED BY <4>1, <2>2, <2>3, EffectDueOK
    <3>2. CASE q2.sfx_left # 0
      <4>1. e.q = q2 /\ e.code = <<>>
        BY <3>2
      <4> HIDE DEF e
      <4> QED BY <4>1, <2>3, <2>5, <3>2
    <3> QED BY <3>1, <3>2
  <2> HIDE DEF e
  <2>7. e.code \in Seq(Statements)
    BY <2>6, VoiceNoteSeq, Rests
  <2>8. m.code \o e.code = e.code
    BY <2>1, <2>7, ConcatEmptySeq
  <2> QED BY <1>1, <2>6, <2>8
<1> HIDE DEF q2, e
<1> QED BY <1>7, <1>8, ZenonT(60)

\* The interrupt counts down and, at the end of a count, turns the DAC over: only
\* where a note is whole, never where one is being written, and not while it is held.
LEMMA IrqStep ==
    ASSUME SpeakerTyped, Whole, Held, Phase, Irq
    PROVE SpeakerTyped' /\ Whole' /\ Held' /\ Phase'
<1> DEFINE cnt == (reg.tog_cnt + 255) % 256
<1>1. /\ reg \in Registers /\ reg.sounding = 1 /\ reg.held = 0
      /\ UNCHANGED <<seq, enabled, mus_ok, mus_buf, code>>
      /\ reg' = IF cnt # 0 THEN [reg EXCEPT !.tog_cnt = cnt]
                ELSE [reg EXCEPT !.tog_cnt = reg.tog_div, !.level = 1 - @, !.DAC = 1 - reg.level]
  BY DEF Irq, SpeakerTyped
<1>0. reg \in Registers
  BY DEF SpeakerTyped
<1>2. PICK t \in Notes : /\ reg.tog_div = Divisor(t) /\ reg.tog_cnt \in 1..reg.tog_div
                         /\ reg.TMRHI * 256 + reg.TMRLO = Timer(t)
  BY <1>1 DEF Whole
<1>3. Divisor(t) \in 1..16
  BY NotesInRange
<1>4. reg.tog_div \in 1..16 /\ cnt \in Nat /\ cnt < reg.tog_cnt /\ reg.tog_cnt \in 1..reg.tog_div
  BY <1>2, <1>3
<1> HIDE DEF cnt
<1>5. /\ reg' \in Registers /\ reg'.tog_div = reg.tog_div /\ reg'.tog_cnt \in 1..reg'.tog_div
      /\ \A f \in Fields \ {"tog_cnt", "level", "DAC"} : reg'[f] = reg[f]
  <2>1. CASE cnt # 0
    <3>1. reg' = [reg EXCEPT !.tog_cnt = cnt] /\ cnt \in 0..255 /\ cnt \in 1..reg.tog_div
      BY <1>1, <1>4, <2>1
    <3>2. reg' \in Registers
      BY <3>1, <1>0, InRegisters, Zenon
    <3> QED BY <3>1, <3>2, <1>0, <1>4 DEF Registers, Fields
  <2>2. CASE cnt = 0
    <3>1. reg' = [reg EXCEPT !.tog_cnt = reg.tog_div, !.level = 1 - @, !.DAC = 1 - reg.level]
      BY <1>1, <2>2
    <3> DEFINE l == 1 - reg.level
               d == reg.tog_div
    <3>2. d \in 0..255 /\ l \in Bits /\ d \in 1..d
      BY <1>0, <1>4 DEF Registers, Bits
    <3>3. reg' = [reg EXCEPT !.tog_cnt = d, !.level = l, !.DAC = l]
      BY <3>1
    <3>4. reg.tog_div = d
      OBVIOUS
    <3> HIDE DEF l, d
    <3>5. reg' \in Registers
      BY <3>2, <3>3, <1>0, ZenonT(60) DEF Registers
    <3>6. reg'.tog_div = reg.tog_div /\ reg'.tog_cnt = d
      BY <3>3, <1>0, ZenonT(60) DEF Registers
    <3>7. \A f \in Fields \ {"tog_cnt", "level", "DAC"} : reg'[f] = reg[f]
      BY <3>3, <1>0, ZenonT(60) DEF Registers, Fields
    <3> QED BY <3>2, <3>4, <3>5, <3>6, <3>7
  <2> QED BY <2>1, <2>2, <1>4
<1>6. SpeakerTyped'
  BY <1>1, <1>5, TypedKept
<1>7. /\ reg'.sounding = reg.sounding /\ reg'.cur_tenths = reg.cur_tenths /\ reg'.held = reg.held
      /\ reg'.IRQENR = reg.IRQENR /\ reg'.I = reg.I /\ reg'.TMRHI = reg.TMRHI /\ reg'.TMRLO = reg.TMRLO
  BY <1>5 DEF Fields
<1>8. Whole'
  <2>1. /\ reg'.tog_div = Divisor(t) /\ reg'.tog_cnt \in 1..reg'.tog_div
        /\ reg'.TMRHI * 256 + reg'.TMRLO = Timer(t)
    BY <1>2, <1>5, <1>7
  <2>2. reg'.IRQENR = 1 /\ reg'.I = 0 => reg'.TMRHI > 0
    BY <1>7 DEF Whole
  <2>3. reg'.sounding = 1 => reg'.cur_tenths \in Notes
    BY <1>7 DEF Whole
  <2> QED BY <2>1, <2>2, <2>3, Zenon DEF Whole
<1>9. Held'
  BY <1>1, <1>7 DEF Held
<1>10. Voice' = Voice
  BY <1>7 DEF Voice
<1>11. /\ \A v : Owed(seq, v) => Owed(seq, v)'
  BY <1>1 DEF Owed, LastNote, Pitch
<1>12. Owed(seq, Voice) => Owed(seq, Voice)'
  BY <1>1, <1>10 DEF Owed, LastNote, Pitch
<1>13. Fresh' <=> Fresh
  BY <1>1 DEF Fresh
<1>14. \A rest, k : OffStates(rest, k) => OffStates(rest, k)'
  BY <1>1, <1>7 DEF OffStates, Silenced
<1>15. \A rest, k : OpeningStates(rest, k) => OpeningStates(rest, k)'
  BY <1>1, <1>7 DEF OpeningStates
<1>16. ASSUME NEW rest, NEW n, NEW k, NoteStates(rest, n, k), k \in 1..8 PROVE NoteStates(rest, n, k)'
  <2>1. k \in 1..2
    BY <1>1, <1>16 DEF NoteStates, Struck
  <2> QED BY <2>1, <1>1, <1>7, <1>16 DEF NoteStates, Struck
<1>17. \A rest, k : SectorStates(rest, k) => SectorStates(rest, k)'
  BY <1>1 DEF SectorStates
<1>18. ASSUME Storing PROVE Phase'
  <2>1. InVoiceOff => InVoiceOff'
    BY <1>11, <1>14, Zenon DEF InVoiceOff
  <2>2. \A rest : InVoiceNote(rest) => InVoiceNote(rest)'
    BY <1>11, <1>16, Zenon DEF InVoiceNote
  <2>3. InSndBeep => InSndBeep'
    <3>1. seq'.sfx_on = seq.sfx_on
      BY <1>1
    <3> QED BY <3>1, <1>16, Zenon DEF InSndBeep
  <2>4. LettingGo => LettingGo'
    BY <1>1, <1>7, <1>12 DEF LettingGo
  <2>5. \A rest : Told(rest) => Told(rest)'
    BY <1>1, <1>12 DEF Told
  <2>6. InSndInit \/ InOpening => InSndInit' \/ InOpening'
    BY <1>14, <1>15, Zenon DEF InSndInit, InOpening
  <2> QED BY <1>18, <1>13, <2>1, <2>2, <2>3, <2>4, <2>5, <2>6, Zenon DEF Phase, Storing
<1>19. ASSUME Resting \/ (Fresh /\ FetchingTune) PROVE Phase'
  <2>1. \A rest : Told(rest) => Told(rest)'
    BY <1>1, <1>12 DEF Told
  <2>2. Waiting => Waiting'
    BY <1>1 DEF Waiting
  <2>3. \A rest : InSector(rest) => InSector(rest)'
    BY <1>12, <1>17, Zenon DEF InSector
  <2> QED BY <1>19, <1>13, <2>1, <2>2, <2>3, Zenon DEF Phase, Resting, FetchingTune
<1> QED BY <1>6, <1>8, <1>9, <1>18, <1>19, Zenon DEF Phase

\* A step that stores nothing lifts no hold.
LEMMA HeldStays == 
    ASSUME Held, UNCHANGED reg, ~At("set")
    PROVE Held'
BY DEF Held, At, Set

\* Nor does it touch the note.
LEMMA WholeStays == ASSUME Whole, UNCHANGED reg PROVE Whole' /\ Voice' = Voice
BY DEF Whole, Voice

\* A routine has come to one statement.
LEMMA AtOne ==
    ASSUME NEW w, NEW x, At(w), At(x)
    PROVE w = x
BY DEF At

\* A routine that is through has come to none.
LEMMA NothingTold == Told(<<>>) => code = <<>> /\ \A w : ~At(w)
BY DEF Told, At

\* What a call, or the rest of one, leaves the mainline to execute.
LEMMA Begins ==
    ASSUME UNCHANGED reg, StreamsOK(seq)', TuneRead(mus_buf'), Whole,
           \/ code' = <<>> /\ Owed(seq, Voice)'
           \/ \E t \in {0} \cup Tenths : code' = voice_note(t) /\ Owed(seq, t)'
    PROVE Phase'
<1>1. CASE code' = <<>> /\ Owed(seq, Voice)'
  BY <1>1 DEF Phase, Resting, Told
<1>2. ASSUME code' = voice_off, Owed(seq, 0)' PROVE Phase'
  <2>1. voice_off = From(voice_off, 1) \o <<>>
    BY VoiceOff, FromEnds
  <2>2. OffStates(<<>>, 1)' /\ 1 \in 1..6
    BY <1>2, <2>1 DEF OffStates, Silenced
  <2> QED BY <1>2, <2>2, Zenon DEF Phase, Storing, InVoiceOff
<1>3. ASSUME NEW t \in Notes, code' = voice_note(t), Owed(seq, t)' PROVE Phase'
  <2>1. voice_note(t) = From(voice_note(t), 1) \o <<>>
    BY VoiceNote, FromEnds
  <2>2. NoteStates(<<>>, t, 1)' /\ 1 \in 1..8
    BY <1>3, <2>1 DEF NoteStates, Struck
  <2> QED BY <1>3, <2>2, Zenon DEF Phase, Storing, InVoiceNote
<1> QED BY <1>1, <1>2, <1>3, NoNote DEF Notes

\* A sector begins.
LEMMA SectorBegins ==
    ASSUME NEW rest \in Seq(Statements), code' = Sector \o rest, Owed(seq, Voice)'
    PROVE InSector(rest)'
<1>1. Sector \o rest = From(Sector, 1) \o rest
  BY SectorIs, FromEnds
<1>2. SectorStates(rest, 1)' /\ 1 \in 1..3
  BY <1>1 DEF SectorStates
<1> QED BY <1>2, Zenon DEF InSector

\* The disk and the tune's file keep the invariant.
LEMMA DiskStep ==
    ASSUME SpeakerTyped, Whole, Held, Phase, ReadSector \/ OpenTune \/ TuneLoaded
    PROVE SpeakerTyped' /\ Whole' /\ Held' /\ Phase'
<1>1. UNCHANGED <<reg, seq, enabled>> /\ ~At("set")
  <2>1. At("read") \/ At("open") \/ At("loaded")
    BY DEF ReadSector, OpenTune, TuneLoaded
  <2> QED BY <2>1, AtOne DEF ReadSector, OpenTune, TuneLoaded
<1>2. Whole' /\ Voice' = Voice /\ Held'
  BY <1>1, WholeStays, HeldStays
<1>3. Fresh' <=> Fresh
  BY <1>1 DEF Fresh
<1>4. CASE ReadSector
  <2>1. At("read") /\ UNCHANGED <<seq, mus_buf>> /\ code' = Tail(code)
    BY <1>4 DEF ReadSector
  <2>2. AtRead
    <3>1. ~Told(<<>>) /\ ~AtWait /\ ~AtPoll /\ ~AtFile
      BY <2>1, AtOne, NothingTold DEF AtWait, AtPoll, AtFile
    <3> QED BY <3>1, <1>1, RoutineIs
  <2>3. Owed(seq, Voice)'
    BY <1>2, <2>1, <2>2 DEF AtRead, Owed, LastNote, Pitch
  <2>4. SpeakerTyped'
    BY <1>1, <2>1 DEF SpeakerTyped
  <2>5. /\ (Tail(code) = <<>> => Told(<<>>)') 
        /\ (Tail(code) = <<Do("open")>> => Told(<<Do("open")>>)')
        /\ (Tail(code) = <<Do("loaded")>> => Told(<<Do("loaded")>>)')
    BY <2>1, <2>3 DEF Told
  <2> QED BY <1>2, <1>3, <2>2, <2>4, <2>5, Zenon DEF AtRead, Phase, Resting, FetchingTune
<1>5. ASSUME OpenTune \/ TuneLoaded PROVE AtFile
  <2>1. At("open") \/ At("loaded")
    BY <1>5 DEF OpenTune, TuneLoaded
  <2>2. ~Told(<<>>) /\ ~AtWait /\ ~AtPoll /\ ~AtRead
    BY <2>1, AtOne, NothingTold DEF AtWait, AtPoll, AtRead
  <2> QED BY <2>2, <1>1, RoutineIs
<1>6. CASE OpenTune
  <2>1. UNCHANGED <<seq, mus_buf>> /\ (code' = <<>> \/ code' = Sector \o <<Do("loaded")>>)
    BY <1>6 DEF OpenTune
  <2>2. Owed(seq, Voice)'
    BY <1>2, <1>5, <1>6, <2>1 DEF AtFile, Owed, LastNote, Pitch
  <2>3. SpeakerTyped'
    BY <1>1, <2>1 DEF SpeakerTyped
  <2>4. code' = <<>> => Told(<<>>)'
    BY <2>2 DEF Told
  <2>5. code' = Sector \o <<Do("loaded")>> => InSector(<<Do("loaded")>>)'
    BY <2>2, SectorBegins, Rests, Zenon
  <2> QED BY <1>2, <1>3, <1>5, <1>6, <2>1, <2>3, <2>4, <2>5, Zenon DEF AtFile, Phase, Resting, FetchingTune
<1>7. CASE TuneLoaded
  <2>1. AtFile /\ code' = Tail(code) /\ TuneRead(mus_buf')
    BY <1>5, <1>7, ReadingsAreTunes DEF TuneLoaded
  <2>2. Voice = 0
    BY <2>1 DEF AtFile, Fresh, Owed
  <2>3. Owed(seq, Voice)'
    BY <1>1, <1>2, <2>1, <2>2 DEF AtFile, Fresh, Owed
  <2>4. SpeakerTyped'
    BY <1>1, <2>1 DEF SpeakerTyped
  <2>5. Told(<<>>)'
    BY <2>1, <2>3 DEF AtFile, Told
  <2> QED BY <1>2, <2>4, <2>5, Zenon DEF Phase, Resting
<1> QED BY <1>4, <1>6, <1>7

\* The rest of snd_poll() keeps the invariant.
LEMMA PollStep ==
    ASSUME SpeakerTyped, Whole, Held, Phase, Poll
    PROVE SpeakerTyped' /\ Whole' /\ Held' /\ Phase'
<1>1. At("poll") /\ UNCHANGED <<reg, enabled, mus_ok, mus_buf>> /\ ~At("set")
  <2>1. At("poll")
    BY DEF Poll
  <2> QED BY <2>1, AtOne DEF Poll
<1>2. Whole' /\ Voice' = Voice /\ Held'
  BY <1>1, WholeStays, HeldStays
<1>3. AtPoll
  <2>1. ~Told(<<>>) /\ ~AtWait /\ ~AtRead /\ ~AtFile
    BY <1>1, AtOne, NothingTold DEF AtWait, AtRead, AtFile
  <2> QED BY <2>1, <1>1, RoutineIs
<1>4. Owed(seq, Voice) /\ StreamsOK(seq) /\ TuneRead(mus_buf) /\ reg \in Registers
  BY <1>3 DEF AtPoll, Told, SpeakerTyped, StreamsOK
<1>5. CASE code' = <<>> /\ UNCHANGED seq
  <2>1. Owed(seq, Voice)'
    BY <1>1, <1>2, <1>4, <1>5 DEF Owed, LastNote, Pitch
  <2>2. StreamsOK(seq)' /\ TuneRead(mus_buf')
    BY <1>1, <1>4, <1>5 DEF StreamsOK
  <2>3. SpeakerTyped'
    BY <1>1, <1>4, <2>2 DEF SpeakerTyped, StreamsOK
  <2> QED BY <1>1, <1>2, <1>5, <2>1, <2>2, <2>3, Begins
<1>6. ASSUME LET m == music_tick(seq) IN seq' = m.q /\ code' = m.code
      PROVE SpeakerTyped' /\ Phase'
  <2> DEFINE m == music_tick(seq)
  <2>1. seq' = m.q /\ code' = m.code
    BY <1>6
  <2>2. PICK v : v = Voice
    OBVIOUS
  <2>3. /\ StreamsOK(m.q)
        /\ \/ m.code = <<>> /\ Owed(m.q, v)
           \/ \E t \in {0} \cup Tenths : m.code = voice_note(t) /\ Owed(m.q, t)
    BY <1>4, <2>2, TickOK
  <2> HIDE DEF m
  <2>4. StreamsOK(seq)' /\ TuneRead(mus_buf')
    BY <1>1, <1>4, <2>1, <2>3 DEF StreamsOK
  <2>5. /\ m.code = <<>> /\ Owed(m.q, v) => code' = <<>> /\ Owed(seq, Voice)'
        /\ \A t : Owed(m.q, t) => Owed(seq, t)'
    BY <1>1, <1>2, <2>1, <2>2 DEF Owed, LastNote, Pitch
  <2>6. Phase'
    BY <1>1, <2>1, <2>3, <2>4, <2>5, Begins
  <2>7. SpeakerTyped'
    BY <1>1, <1>4, <2>4 DEF SpeakerTyped, StreamsOK
  <2> QED BY <2>6, <2>7
<1> QED BY <1>2, <1>5, <1>6, Zenon DEF Poll

\* One turn of the beep's loop keeps the invariant: when it ends, the tune's next tick is
\* due at once and the voice goes to it.
LEMMA BeepWaitStep ==
    ASSUME SpeakerTyped, Whole, Held, Phase, BeepWait
    PROVE SpeakerTyped' /\ Whole' /\ Held' /\ Phase'
<1>1. At("wait") /\ UNCHANGED <<reg, enabled, mus_ok, mus_buf>> /\ ~At("set")
  <2>1. At("wait")
    BY DEF BeepWait
  <2> QED BY <2>1, AtOne DEF BeepWait
<1>2. Whole' /\ Voice' = Voice /\ Held'
  BY <1>1, WholeStays, HeldStays
<1>3. AtWait
  <2>1. ~Told(<<>>) /\ ~AtPoll /\ ~AtRead /\ ~AtFile
    BY <1>1, AtOne, NothingTold DEF AtPoll, AtRead, AtFile
  <2> QED BY <2>1, <1>1, RoutineIs
<1>4. PICK f \in 0..BEEP_FRAMES, g \in 0..(GuardSize - 1) : code = <<Wait(f, g)>>
  BY <1>3, Zenon DEF AtWait, Waiting
<1>5. ~seq.sfx_on /\ StreamsOK(seq) /\ TuneRead(mus_buf) /\ reg \in Registers
  BY <1>3 DEF AtWait, Waiting, SpeakerTyped, StreamsOK
<1>6. Head(code).frames = f /\ Head(code).guard = g
  <2>1. Head(code) = Wait(f, g)
    BY <1>4
  <2> QED BY <2>1 DEF Wait
<1> DEFINE silence == /\ code' = voice_off
                      /\ seq' = [seq EXCEPT !.note_left = IF seq.mus_on THEN 0 ELSE @]
           again(i, j) == code' = <<Wait(i, j)>> /\ UNCHANGED seq
<1>7. \/ silence
      \/ f # BEEP_FRAMES /\ again(f + 1, 0)
      \/ f # BEEP_FRAMES /\ again(f, (g + 1) % GuardSize)
  BY <1>6, Zenon DEF BeepWait
<1>8. CASE silence
  <2>1. /\ seq \in Seqs /\ seq' \in Seqs /\ seq'.mus_on = seq.mus_on /\ ~seq'.sfx_on
        /\ seq'.mus = seq.mus /\ seq'.mus_head = seq.mus_head /\ (seq.mus_on => seq'.note_left = 0)
    BY <1>5, <1>8 DEF StreamsOK, Seqs
  <2>2. StreamsOK(seq)' /\ TuneRead(mus_buf')
    BY <1>1, <1>5, <2>1 DEF StreamsOK
  <2>3. Owed(seq, 0)'
    BY <2>1 DEF Owed
  <2>4. Phase'
    BY <1>1, <1>8, <2>2, <2>3, Begins, NoNote
  <2>5. SpeakerTyped'
    BY <1>1, <1>5, <2>2 DEF SpeakerTyped, StreamsOK
  <2> QED BY <1>2, <2>4, <2>5
<1>9. ASSUME NEW i \in 0..BEEP_FRAMES, NEW j \in 0..(GuardSize - 1), again(i, j)
      PROVE SpeakerTyped' /\ Whole' /\ Held' /\ Phase'
  <2>1. Waiting'
    BY <1>5, <1>9 DEF Waiting
  <2>2. SpeakerTyped'
    BY <1>1, <1>9 DEF SpeakerTyped
  <2> QED BY <1>2, <2>1, <2>2, Zenon DEF Phase, Resting
<1>10. f # BEEP_FRAMES => f + 1 \in 0..BEEP_FRAMES
  BY BeepCounts
<1>11. 0 \in 0..(GuardSize - 1) /\ (g + 1) % GuardSize \in 0..(GuardSize - 1)
  BY BeepCounts
<1> QED BY <1>7, <1>8, <1>9, <1>10, <1>11, Zenon

\* A call finds the voice as the streams have it, and no routine running.
LEMMA CallStep ==
    ASSUME SpeakerTyped, Whole, Held, Phase, Call
    PROVE SpeakerTyped' /\ Whole' /\ Held' /\ Phase'
<1>1. Rest /\ UNCHANGED <<reg, mus_ok, mus_buf>>
  BY DEF Call, snd_music, snd_effect, snd_beep, snd_toggle, snd_poll, Disk
<1>2. \A w : ~At(w)
  BY <1>1 DEF Rest, At
<1>3. Owed(seq, Voice) /\ StreamsOK(seq) /\ TuneRead(mus_buf) /\ reg \in Registers
  <2>1. ~AtWait /\ ~AtPoll /\ ~AtRead /\ ~AtFile
    BY <1>2 DEF AtWait, AtPoll, AtRead, AtFile
  <2>2. Told(<<>>)
    BY <1>2, <2>1, RoutineIs
  <2> QED BY <2>2 DEF Told, SpeakerTyped, StreamsOK
<1>4. Whole' /\ Voice' = Voice /\ Held'
  BY <1>1, <1>2, WholeStays, HeldStays
<1>5. TuneRead(mus_buf') /\ (StreamsOK(seq)' => SpeakerTyped')
  BY <1>1, <1>3 DEF SpeakerTyped, StreamsOK
<1>6. seq \in Seqs
  BY <1>3 DEF StreamsOK
<1>7. ASSUME StreamsOK(seq)', 
             \/ code' = <<>> /\ Owed(seq, Voice)'
             \/ \E t \in {0} \cup Tenths : code' = voice_note(t) /\ Owed(seq, t)'
      PROVE SpeakerTyped' /\ Phase'
  BY <1>1, <1>5, <1>7, Begins
<1>8. ASSUME UNCHANGED seq PROVE /\ StreamsOK(seq)' /\ Owed(seq, Voice)'
                                 /\ \A t : Owed(seq, t) => Owed(seq, t)'
  BY <1>1, <1>3, <1>4, <1>8 DEF StreamsOK, Owed, LastNote, Pitch
<1>9. ASSUME NEW t \in Music \cup {MUS_NONE}, snd_music(t) PROVE SpeakerTyped' /\ Phase'
  <2>1. CASE ~enabled \/ ~mus_ok \/ t = MUS_NONE
    <3>1. seq' = [seq EXCEPT !.mus_on = FALSE] /\ code' = IfHeard(seq, voice_off)
      BY <1>9, <2>1 DEF snd_music
    <3>2. /\ seq' \in Seqs /\ ~seq'.mus_on /\ seq'.sfx_on = seq.sfx_on /\ seq'.sfx = seq.sfx
          /\ seq'.sfx_left = seq.sfx_left
      BY <1>6, <3>1 DEF Seqs
    <3>3. StreamsOK(seq)'
      BY <1>3, <3>2 DEF StreamsOK
    <3>4. CASE seq.sfx_on
      <4>1. code' = <<>>
        BY <3>1, <3>4 DEF IfHeard
      <4>2. Owed(seq, Voice)'
        BY <1>1, <1>3, <1>4, <3>2, <3>4 DEF Owed, LastNote, Pitch
      <4> QED BY <1>7, <3>3, <4>1, <4>2
    <3>5. CASE ~seq.sfx_on
      <4>1. code' = voice_note(0)
        BY <3>1, <3>5, NoNote DEF IfHeard
      <4>2. Owed(seq, 0)'
        BY <3>2, <3>5 DEF Owed
      <4> QED BY <1>7, <3>3, <4>1, <4>2
    <3> QED BY <3>4, <3>5
  <2>2. CASE ~(~enabled \/ ~mus_ok \/ t = MUS_NONE)
    <3>1. /\ seq' = [seq EXCEPT !.mus_head = Start(t), !.mus = Start(t),
                                !.mus_on = TRUE, !.note_left = 0]
          /\ code' = <<>>
      BY <1>1, <1>9, <2>2, SMTT(60) DEF snd_music, Rest
    <3>2. t \in Tracks
      BY <2>2, SpeakerAssumption DEF SpeakerAssumption
    <3>3. Start(t) \in NoteStreams /\ Start(t).track \in Tracks
      BY <3>2 DEF Start, NoteStreams
    <3>4. /\ seq' \in Seqs /\ seq'.mus = Start(t) /\ seq'.mus_head = Start(t)
          /\ seq'.mus_on /\ seq'.note_left = 0
          /\ seq'.sfx_on = seq.sfx_on /\ seq'.sfx = seq.sfx /\ seq'.sfx_left = seq.sfx_left
      BY <1>6, <3>1, <3>3 DEF Seqs
    <3>5. StreamsOK(seq)'
      BY <1>3, <3>3, <3>4 DEF StreamsOK
    <3>6. Owed(seq, Voice)'
      BY <1>1, <1>3, <1>4, <3>4 DEF Owed, LastNote, Pitch
    <3> QED BY <1>7, <3>1, <3>5, <3>6
  <2> QED BY <2>1, <2>2
<1>10. ASSUME NEW t \in Tracks \ Music, snd_effect(t) PROVE SpeakerTyped' /\ Phase'
  <2>1. /\ seq' = [seq EXCEPT !.sfx = Start(t), !.sfx_on = TRUE, !.sfx_left = 0]
        /\ code' = <<>>
    BY <1>1, <1>10 DEF snd_effect, Rest
  <2>2. Start(t) \in NoteStreams /\ Start(t).track \in Tracks
    BY DEF Start, NoteStreams
  <2>3. /\ seq' \in Seqs /\ seq'.sfx = Start(t) /\ seq'.sfx_on /\ seq'.sfx_left = 0
        /\ seq'.mus_on = seq.mus_on /\ seq'.mus = seq.mus /\ seq'.mus_head = seq.mus_head
    BY <1>6, <2>1, <2>2 DEF Seqs
  <2>4. StreamsOK(seq)'
    BY <1>3, <2>2, <2>3 DEF StreamsOK
  <2>5. Owed(seq, Voice)'
    BY <2>3 DEF Owed
  <2> QED BY <1>7, <2>1, <2>4, <2>5
<1>11. ASSUME snd_beep PROVE SpeakerTyped' /\ Phase'
  <2>1. /\ seq' = [seq EXCEPT !.sfx_on = FALSE]
        /\ code' = voice_note(BEEP_TENTHS) \o <<Wait(0, 0)>>
    BY <1>11 DEF snd_beep
  <2>2. /\ seq' \in Seqs /\ ~seq'.sfx_on
        /\ seq'.mus_on = seq.mus_on /\ seq'.mus = seq.mus /\ seq'.mus_head = seq.mus_head
    BY <1>6, <2>1 DEF Seqs
  <2>3. StreamsOK(seq)'
    BY <1>3, <2>2 DEF StreamsOK
  <2>4. From(voice_note(BEEP_TENTHS), 1) = voice_note(BEEP_TENTHS)
    BY TenthsInRange, VoiceNote, FromEnds
  <2>5. NoteStates(<<Wait(0, 0)>>, BEEP_TENTHS, 1)' /\ 1 \in 1..8
    BY <2>1, <2>4 DEF NoteStates, Struck
  <2> QED BY <1>5, <2>2, <2>3, <2>5, Zenon DEF Phase, Storing, InSndBeep
<1>12. ASSUME snd_toggle PROVE SpeakerTyped' /\ Phase'
  <2>1. CASE enabled
    <3>1. seq' = Quiet /\ code' = voice_note(0)
      BY <1>12, <2>1, NoNote DEF snd_toggle
    <3>2. seq' \in Seqs /\ ~seq'.mus_on /\ ~seq'.sfx_on
      BY <1>6, <3>1 DEF Seqs, Quiet
    <3>3. StreamsOK(seq)' /\ Owed(seq, 0)'
      BY <3>2 DEF StreamsOK, Owed
    <3> QED BY <1>7, <3>1, <3>3
  <2>2. CASE ~enabled
    <3>1. UNCHANGED <<seq, code>>
      BY <1>12, <2>2 DEF snd_toggle
    <3> QED BY <1>1, <1>7, <1>8, <3>1 DEF Rest
  <2> QED BY <2>1, <2>2
<1>13. ASSUME snd_poll PROVE SpeakerTyped' /\ Phase'
  <2>1. UNCHANGED seq
    BY <1>13 DEF snd_poll
  <2>2. StreamsOK(seq)' /\ Owed(seq, Voice)' /\ \A t : Owed(seq, t) => Owed(seq, t)'
    BY <1>8, <2>1
  <2> DEFINE up == reg.sounding = 1 /\ reg.cur_tenths # 0
             poll == <<Do("poll")>>
             let == <<Set("held", 0)>>
  <2>3. code' = (IF reg.held = 0 THEN <<>>
                 ELSE let \o (IF up THEN voice_note(reg.cur_tenths) ELSE <<>>)) \o poll
    BY <1>13 DEF snd_poll
  <2>4. poll \in Seq(Statements) /\ let \in Seq(Statements) /\ Set("held", 0) \in Statements
    <3>1. Set("held", 0) \in Statements
      BY SetIsStatement DEF Fields
    <3> QED BY <3>1, Rests, Two
  <2>5. CASE reg.held = 0
    <3>1. code' = <<>> \o poll
      BY <2>3, <2>5
    <3>2. code' = poll
      BY <3>1, <2>4, ConcatEmptySeq
    <3> QED BY <1>5, <2>2, <3>2 DEF Phase, Resting, Told
  <2>6. CASE reg.held # 0 /\ up
    <3>1. reg.cur_tenths \in Notes
      BY <2>6, WholeNote
    <3>2. code' = (let \o voice_note(reg.cur_tenths)) \o poll
      BY <2>3, <2>6
    <3>3. code' = let \o (voice_note(reg.cur_tenths) \o poll)
      BY <3>1, <3>2, <2>4, VoiceNote, ConcatAssociative, SMTT(60)
    <3>4. LettingGo'
      BY <1>1, <2>2, <2>6, <3>3 DEF LettingGo
    <3> QED BY <1>5, <2>2, <3>4 DEF Phase, Storing
  <2>7. CASE reg.held # 0 /\ ~up
    <3>1. code' = (let \o <<>>) \o poll
      BY <2>3, <2>7
    <3>2. code' = let \o poll
      BY <3>1, <2>4, ConcatEmptySeq
    <3>3. code' = <<Set("held", 0), Do("poll")>>
      BY <3>2, <2>4, DoIsStatement, Two
    <3> QED BY <1>5, <2>2, <3>3 DEF Phase, Storing, Told
  <2> QED BY <2>5, <2>6, <2>7
<1>14. ASSUME Disk PROVE SpeakerTyped' /\ Phase'
  <2>1. UNCHANGED seq /\ code' = Sector
    BY <1>14 DEF Disk
  <2>2. StreamsOK(seq)' /\ Owed(seq, Voice)'
    BY <1>8, <2>1
  <2>3. code' = Sector \o <<>>
    BY <2>1, SectorIs, FromEnds
  <2>4. InSector(<<>>)'
    BY <2>2, <2>3, SectorBegins, Rests, Zenon
  <2> QED BY <1>5, <2>2, <2>4, Zenon DEF Phase, Resting
<1> QED BY <1>4, <1>9, <1>10, <1>11, <1>12, <1>13, <1>14, Zenon DEF Call

\* Whatever BASIC left armed, the machine starts inside the invariant.
LEMMA SpeakerInit == snd_init => SpeakerInv
<1> SUFFICES ASSUME snd_init PROVE SpeakerInv
  OBVIOUS
<1> DEFINE none == [track |-> CHOOSE t \in Music : TRUE, at |-> 1]
<1>1. /\ reg \in [sounding : {0}, held : {0}, tog_div : {0}, tog_cnt : {0}, level : {0}, DAC : {0, 1},
               cur_tenths : {0}, IRQENR : {0, 1}, TMRHI : {0}, TMRLO : {0}, I : {1}]
      /\ seq = [mus_on |-> FALSE, mus |-> none, mus_head |-> none, note_left |-> 0,
                sfx_on |-> FALSE, sfx |-> none, sfx_left |-> 0]
      /\ mus_buf = [t \in Tracks |-> <<>>]
      /\ code = voice_off \o <<Set("DAC", 0), Set("IRQENR", 0), Set("I", 0)>>
                        \o Sector \o <<Do("open")>>
  BY DEF snd_init
<1>2. none \in NoteStreams
  BY DEF NoteStreams
<1> HIDE DEF none
<1>3. seq \in Seqs /\ ~seq.mus_on /\ ~seq.sfx_on
  BY <1>1, <1>2 DEF Seqs
<1>4. /\ reg \in Registers /\ reg.sounding = 0 /\ reg.held = 0 /\ reg.I = 1
  BY <1>1 DEF Registers, Bits
<1>5. TuneRead(mus_buf)
  BY <1>1 DEF TuneRead
<1>6. SpeakerTyped
  BY <1>3, <1>4, <1>5 DEF SpeakerTyped
<1>7. Whole /\ Held
  BY <1>4 DEF Whole, Held
<1>8. code = voice_off \o (Opening \o ToOpen)
  <2> DEFINE d == <<Do("open")>>
  <2>1. code = ((voice_off \o Opening) \o Sector) \o d
    BY <1>1 DEF Opening
  <2>2. /\ voice_off \in Seq(Statements) /\ Opening \in Seq(Statements)
        /\ Sector \in Seq(Statements) /\ d \in Seq(Statements)
    BY VoiceOff, OpeningIs, SectorIs, Rests
  <2> HIDE DEF d
  <2>3. code = voice_off \o (Opening \o (Sector \o d))
    BY <2>1, <2>2, Regrouped, SMTT(60)
  <2> QED BY <2>3 DEF d, ToOpen
<1>9. voice_off = From(voice_off, 1)
  BY VoiceOff, FromEnds
<1>10. OffStates(Opening \o ToOpen, 1) /\ 1 \in 1..6
  BY <1>8, <1>9 DEF OffStates, Silenced
<1>11. Phase
  BY <1>3, <1>10, Zenon DEF Phase, Storing, InSndInit, Fresh
<1> QED BY <1>6, <1>7, <1>11 DEF SpeakerInv

\* Every step keeps it: any interrupt, any statement, any call.
LEMMA SpeakerStep == SpeakerInv /\ [SoundNext]_sound => SpeakerInv'
<1> SUFFICES ASSUME SpeakerTyped, Whole, Held, Phase, [SoundNext]_sound
             PROVE SpeakerTyped' /\ Whole' /\ Held' /\ Phase'
  BY DEF SpeakerInv
<1>1. CASE Irq
  BY <1>1, IrqStep
<1>2. CASE Assign
  BY <1>2, AssignStep
<1>3. CASE ReadSector \/ OpenTune \/ TuneLoaded
  BY <1>3, DiskStep
<1>4. CASE Poll
  BY <1>4, PollStep
<1>5. CASE BeepWait
  BY <1>5, BeepWaitStep
<1>6. CASE Call
  BY <1>6, CallStep
<1>7. ASSUME UNCHANGED sound PROVE SpeakerTyped' /\ Whole' /\ Held' /\ Phase'
  <2>1. UNCHANGED <<reg, seq, mus_buf, code>>
    BY <1>7 DEF sound
  <2>2. SpeakerTyped' /\ Whole' /\ Held' /\ Voice' = Voice
    BY <2>1 DEF SpeakerTyped, Whole, Held, Voice
  <2>3. Phase'
    <3>1. /\ (\A v : Owed(seq, v) => Owed(seq, v)') /\ (Owed(seq, Voice) => Owed(seq, Voice)')
          /\ (Fresh => Fresh')
      BY <2>1, <2>2 DEF Owed, LastNote, Pitch, Fresh
    <3>2. /\ \A rest, k : OffStates(rest, k) => OffStates(rest, k)'
          /\ \A rest, k : OpeningStates(rest, k) => OpeningStates(rest, k)'
          /\ \A rest, t, k : NoteStates(rest, t, k) => NoteStates(rest, t, k)'
          /\ \A rest, k : SectorStates(rest, k) => SectorStates(rest, k)'
      BY <2>1 DEF OffStates, Silenced, OpeningStates, NoteStates, Struck, SectorStates
    <3>3. /\ \A rest : Told(rest) => Told(rest)'
          /\ Waiting => Waiting'
          /\ LettingGo => LettingGo'
      BY <2>1, <3>1 DEF Told, Waiting, LettingGo
    <3>4. Storing => Storing'
      <4>1. (InVoiceOff => InVoiceOff') /\ \A rest : InVoiceNote(rest) => InVoiceNote(rest)'
        BY <3>1, <3>2, Zenon DEF InVoiceOff, InVoiceNote
      <4>2. InSndBeep => InSndBeep'
        <5>1. seq'.sfx_on = seq.sfx_on
          BY <2>1
        <5> QED BY <5>1, <3>2, Zenon DEF InSndBeep
      <4>3. (InSndInit => InSndInit') /\ (InOpening => InOpening')
        BY <3>2, Zenon DEF InSndInit, InOpening
      <4> QED BY <3>1, <3>3, <4>1, <4>2, <4>3, Zenon DEF Storing
    <3>5. \A rest : InSector(rest) => InSector(rest)'
      BY <3>1, <3>2, Zenon DEF InSector
    <3> QED BY <3>1, <3>3, <3>4, <3>5, Zenon DEF Phase, Resting, FetchingTune
  <2> QED BY <2>2, <2>3
<1> QED BY <1>1, <1>2, <1>3, <1>4, <1>5, <1>6, <1>7, Zenon DEF SoundNext, Mainline

\* The invariant holds in every state.
LEMMA SpeakerInvariant == SoundSpec => []SpeakerInv
BY SpeakerInit, SpeakerStep, PTL DEF SoundSpec

\* What is left of a routine is statements.
LEMMA FromIsStatements ==
    ASSUME NEW r \in Seq(Statements), NEW rest \in Seq(Statements), NEW k \in 1..Len(r)
    PROVE From(r, k) \o rest \in Seq(Statements)
<1>1. From(r, k) \in Seq(Statements)
  BY SubSeqProperties, ElementOfSeq DEF From
<1> QED BY <1>1, ConcatProperties

\* And so is what is left of the routine now running.
LEMMA CodeIsStatements == Whole /\ Phase => code \in Seq(Statements)
<1> SUFFICES ASSUME Whole, Phase PROVE code \in Seq(Statements)
  OBVIOUS
<1>1. ASSUME NEW rest \in Seq(Statements), NEW k \in 1..6, OffStates(rest, k)
      PROVE code \in Seq(Statements)
  BY <1>1, VoiceOff, FromIsStatements DEF OffStates
<1>2. ASSUME NEW rest \in Seq(Statements), NEW k \in 1..3, OpeningStates(rest, k)
      PROVE code \in Seq(Statements)
  BY <1>2, OpeningIs, FromIsStatements DEF OpeningStates
<1>3. ASSUME NEW rest \in Seq(Statements), NEW t \in Notes, NEW k \in 1..8, NoteStates(rest, t, k)
      PROVE code \in Seq(Statements)
  BY <1>3, VoiceNote, FromIsStatements DEF NoteStates
<1>4. ASSUME NEW rest \in Seq(Statements), NEW k \in 1..3, SectorStates(rest, k)
      PROVE code \in Seq(Statements)
  BY <1>4, SectorIs, FromIsStatements DEF SectorStates
<1>5. CASE Storing
  <2>1. CASE InVoiceOff
    BY <2>1, <1>1, Rests DEF InVoiceOff
  <2>2. CASE InVoiceNote(<<>>) \/ InVoiceNote(<<Do("poll")>>)
    BY <2>2, <1>3, Rests DEF InVoiceNote
  <2>3. CASE InSndBeep
    BY <2>3, <1>3, Rests, TenthsInRange DEF InSndBeep
  <2>4. CASE LettingGo
    <3>1. reg.cur_tenths \in Notes
      BY <2>4, WholeNote DEF LettingGo
    <3>2. voice_note(reg.cur_tenths) \o <<Do("poll")>> \in Seq(Statements)
      BY <3>1, VoiceNote, Rests, ConcatProperties
    <3>3. <<Set("held", 0)>> \in Seq(Statements)
      BY SetIsStatement, Two DEF Fields
    <3> QED BY <2>4, <3>2, <3>3, ConcatProperties DEF LettingGo
  <2>5. CASE Told(<<Set("held", 0), Do("poll")>>)
    BY <2>5, Rests DEF Told
  <2>6. CASE InSndInit
    BY <2>6, <1>1, Rests DEF InSndInit, ToOpen
  <2>7. CASE InOpening
    BY <2>7, <1>2, Rests DEF InOpening, ToOpen
  <2> QED BY <1>5, <2>1, <2>2, <2>3, <2>4, <2>5, <2>6, <2>7, Zenon DEF Storing
<1>6. ASSUME NEW rest \in Seq(Statements), InSector(rest) PROVE code \in Seq(Statements)
  BY <1>6, <1>4 DEF InSector
<1>7. CASE Resting
  <2>1. CASE Waiting
    <3>1. PICK f \in 0..BEEP_FRAMES, g \in 0..(GuardSize - 1) : code = <<Wait(f, g)>>
      BY <2>1 DEF Waiting
    <3>2. Wait(f, g) \in Statements
      BY <3>1, DoIsStatement, BeepCounts
    <3> QED BY <3>1, <3>2, Two
  <2> QED BY <1>7, <1>6, <2>1, Rests DEF Resting, Told
<1>8. CASE FetchingTune
  BY <1>8, <1>6, Rests DEF FetchingTune, Told
<1> QED BY <1>5, <1>7, <1>8 DEF Phase

\* Whenever the handler may run -- between any two stores of voice_note(), in snd_poll(), in
\* a beep or under the disk -- the divisor, its count-down and the timer are of one note, and the
\* timer is not armed with a zero: for any tunes, any length of beep and any frame source.
THEOREM SpeakerNotes == SoundSpec => []NoteIsWhole
<1>1. SpeakerInv => NoteIsWhole
  <2> SUFFICES ASSUME SpeakerInv PROVE NoteIsWhole
    OBVIOUS
  <2>1. reg.TMRHI \in Nat /\ reg.TMRLO \in Nat
    BY DEF SpeakerInv, SpeakerTyped, Registers
  <2> QED BY <2>1 DEF SpeakerInv, Whole, NoteIsWhole, Notes
<1> QED BY <1>1, SpeakerInvariant, PTL

\* From disk_quiet() until the game polls again, the DAC rests low or is about to: no handler
\* raises it while the disk holds the voice.
THEOREM SpeakerHeld == SoundSpec => []HeldIsSilent
<1>1. SpeakerInv => HeldIsSilent
  <2> SUFFICES ASSUME SpeakerInv, reg.held = 1, reg.DAC # 0 PROVE Set("DAC", 0) \in {code[i] : i \in DOMAIN code}
    BY DEF HeldIsSilent
  <2>1. code # <<>> /\ Head(code) = Set("DAC", 0)
    BY DEF SpeakerInv, Held
  <2>2. code \in Seq(Statements)
    BY CodeIsStatements DEF SpeakerInv
  <2>3. 1 \in DOMAIN code /\ Head(code) = code[1]
    BY <2>1, <2>2
  <2> QED BY <2>1, <2>3
<1> QED BY <1>1, SpeakerInvariant, PTL

\* Between two calls the voice plays what the streams say: the effect's note, else the
\* tune's, else nothing, whatever a beep, a toggle, a load or the end of a track did meanwhile.
THEOREM SpeakerOwned == SoundSpec => []SpeakerIsOwned
<1>1. SpeakerInv => SpeakerIsOwned
  <2> SUFFICES ASSUME SpeakerInv, Rest PROVE SpeakerIsOwned
    BY DEF SpeakerIsOwned
  <2>1. Owed(seq, Voice)
    <3>1. \A w : ~At(w)
      BY DEF Rest, At
    <3>2. ~AtWait /\ ~AtPoll /\ ~AtRead /\ ~AtFile
      BY <3>1 DEF AtWait, AtPoll, AtRead, AtFile
    <3> QED BY <3>1, <3>2, RoutineIs DEF SpeakerInv, Told
  <2>2. reg.sounding \in Bits /\ (reg.sounding = 1 => reg.cur_tenths # 0)
    BY DEF SpeakerInv, SpeakerTyped, Registers, Whole, Notes
  <2>3. \A p : LastNote(p) = Voice => Sounds(p)
    BY <2>2 DEF LastNote, Voice, Sounds, Bits
  <2> QED BY <2>1, <2>2, <2>3 DEF SpeakerIsOwned, Owed, Voice, Bits
<1> QED BY <1>1, SpeakerInvariant, PTL

\* What is left of a routine, counted: the statements, and what its last may bring.
Left(c) == IF c = <<>> THEN 0 ELSE Len(c) + More(c[Len(c)])

\* Only what reads a file, polls or waits brings more.
LEMMA MoreIs ==
    /\ \A f \in Fields, v \in Nat : More(Set(f, v)) = 0
    /\ More(Do("read")) = 0 /\ More(Do("loaded")) = 0
    /\ More(Do("open")) = 4 /\ More(Do("poll")) = 8
    /\ \A f \in 0..BEEP_FRAMES, g \in 0..(GuardSize - 1) :
          More(Wait(f, g)) = 6 + GuardSize * (BEEP_FRAMES - f) + GuardSize - 1 - g
<1>1. Len(voice_off) = 6 /\ Len(Sector) = 3 /\ Len(voice_note(BEEP_TENTHS)) = 8
  BY VoiceOff, SectorIs, VoiceNote, TenthsInRange
<1>2. /\ \A f, v : Set(f, v).do = "set"
      /\ \A w : Do(w).do = w
      /\ \A f, g : Wait(f, g).do = "wait" /\ Wait(f, g).frames = f /\ Wait(f, g).guard = g
  BY DEF Set, Do, Wait
<1> QED BY <1>1, <1>2 DEF More

\* It is a number: a beep has never waited past its frames or its polls.
LEMMA MoreType == \A s \in Statements : More(s) \in Nat
<1>1. \A f \in 0..BEEP_FRAMES, g \in 0..(GuardSize - 1) :
          GuardSize * (BEEP_FRAMES - f) \in Nat /\ GuardSize - 1 - g \in Nat
  <2> SUFFICES ASSUME NEW f \in 0..BEEP_FRAMES, NEW g \in 0..(GuardSize - 1)
               PROVE GuardSize * (BEEP_FRAMES - f) \in Nat /\ GuardSize - 1 - g \in Nat
    OBVIOUS
  <2>1. BEEP_FRAMES - f \in Nat /\ GuardSize \in Nat /\ GuardSize - 1 - g \in Nat
    BY BeepCounts
  <2> QED BY <2>1
<1>2. \A f \in 0..BEEP_FRAMES, g \in 0..(GuardSize - 1) : More(Wait(f, g)) \in Nat
  <2> TAKE f \in 0..BEEP_FRAMES, g \in 0..(GuardSize - 1)
  <2> DEFINE p == GuardSize * (BEEP_FRAMES - f)
             r == GuardSize - 1 - g
  <2>1. p \in Nat /\ r \in Nat
    BY <1>1
  <2>2. More(Wait(f, g)) = 6 + p + GuardSize - 1 - g
    BY MoreIs
  <2> HIDE DEF p
  <2>3. More(Wait(f, g)) = 6 + p + r
    BY <2>1, <2>2, BeepCounts
  <2> HIDE DEF r
  <2> QED BY <2>1, <2>3
<1> QED BY <1>2, MoreIs DEF Statements

\* Nothing follows the only one.
LEMMA LastOne ==
    ASSUME NEW c \in Seq(Statements), c # <<>>, Tail(c) = <<>>
    PROVE Len(c) = 1 /\ Head(c) = c[1]
<1> DEFINE t == Tail(c)
<1>1. Len(t) = Len(c) - 1 /\ Len(c) \in Nat /\ Head(c) = c[1]
  BY HeadTailProperties
<1>2. t = <<>>
  OBVIOUS
<1> HIDE DEF t
<1> QED BY <1>1, <1>2

\* A statement executed that is not the last, or brings nothing, is one less.
LEMMA LeftTail ==
    ASSUME NEW c \in Seq(Statements), c # <<>>, Tail(c) = <<>> => More(Head(c)) = 0
    PROVE Left(c) \in Nat \ {0} /\ Left(Tail(c)) = Left(c) - 1
<1>1. /\ Len(c) \in Nat \ {0} /\ c[Len(c)] \in Statements /\ Head(c) = c[1]
      /\ Tail(c) \in Seq(Statements) /\ Len(Tail(c)) = Len(c) - 1
      /\ \A i \in 1..Len(Tail(c)) : Tail(c)[i] = c[i + 1]
  <2>1. Len(c) \in Nat \ {0}
    OBVIOUS
  <2>2. Len(c) \in 1..Len(c)
    BY <2>1
  <2> QED BY <2>1, <2>2, HeadTailProperties, ElementOfSeq
<1>2. More(c[Len(c)]) \in Nat
  BY <1>1, MoreType
<1>3. CASE Tail(c) = <<>>
  <2>1. Len(c) = 1
    BY <1>3, LastOne
  <2> QED BY <1>1, <1>3, <2>1 DEF Left
<1>4. CASE Tail(c) # <<>>
  <2>1. Len(Tail(c)) \in 1..Len(Tail(c)) /\ Len(Tail(c)) + 1 = Len(c)
    BY <1>1, <1>4
  <2>2. Tail(c)[Len(Tail(c))] = c[Len(c)]
    BY <1>1, <2>1
  <2> QED BY <1>1, <1>2, <1>4, <2>1, <2>2, SMTT(60) DEF Left
<1> QED BY <1>3, <1>4

\* What a poll or the end of a beep tells the voice, and the sectors of a file.
LEMMA LeftOf ==
    /\ Left(<<>>) = 0 /\ Left(voice_off) = 6
    /\ \A t \in {0} \cup Tenths : Left(voice_note(t)) \in 0..8
    /\ Left(Sector \o <<Do("loaded")>>) = 4
<1>1. Left(voice_off) = 6
  <2>1. voice_off # <<>> /\ Len(voice_off) = 6 /\ voice_off[6] = Set("level", 0)
    BY VoiceOff, SMTT(60)
  <2>2. More(Set("level", 0)) = 0
    BY MoreIs DEF Fields
  <2> QED BY <2>1, <2>2 DEF Left
<1>2. \A t \in Notes : Left(voice_note(t)) = 8
  BY VoiceNote, MoreIs DEF Left, Fields
<1>3. Left(Sector \o <<Do("loaded")>>) = 4
  <2> DEFINE d == <<Do("loaded")>>
  <2>1. d \in Seq(Statements) /\ Len(d) = 1 /\ d[1] = Do("loaded")
    BY Rests
  <2> HIDE DEF d
  <2>2. Len(Sector \o d) = 4 /\ (Sector \o d)[4] = d[1]
    <3>1. /\ Len(Sector \o d) = Len(Sector) + Len(d)
          /\ \A i \in 1 .. Len(Sector) + Len(d) :
                (Sector \o d)[i] = IF i <= Len(Sector) THEN Sector[i] ELSE d[i - Len(Sector)]
      BY <2>1, SectorIs, ConcatProperties
    <3>2. Len(Sector) = 3
      BY SectorIs
    <3> QED BY <2>1, <3>1, <3>2
  <2>3. Sector \o d # <<>>
    BY <2>2
  <2>4. Left(Sector \o d) = 4
    BY <2>1, <2>2, <2>3, MoreIs DEF Left
  <2> QED BY <2>4 DEF d
<1>4. Left(<<>>) = 0
  BY DEF Left
<1> QED BY <1>1, <1>2, <1>3, <1>4, NoNote DEF Notes

\* Every statement of every routine brings the call nearer its end -- each sector, each
\* store of a note, each turn of the beep's loop, with or without a frame -- for any
\* tunes, any length of beep and any number of empty polls: no call can go on for ever.
THEOREM TheCallsRunDown == SoundSpec => CallsRunDown
<1> DEFINE Nearer == Rest \/ Irq \/ StepsLeft' \in 0 .. (StepsLeft - 1)
<1>1. StepsLeft = Left(code) /\ StepsLeft' = Left(code')
  BY DEF StepsLeft, Left, Rest
<1>2. ASSUME SpeakerInv, Mainline PROVE StepsLeft' \in 0 .. (StepsLeft - 1)
  <2>1. SpeakerTyped /\ Whole /\ Phase /\ code \in Seq(Statements)
    BY <1>2, CodeIsStatements DEF SpeakerInv
  <2>2. ASSUME code # <<>>, code' = Tail(code), Tail(code) = <<>> => More(Head(code)) = 0
        PROVE StepsLeft' \in 0 .. (StepsLeft - 1)
    BY <1>1, <2>1, <2>2, LeftTail
  <2>4. CASE Assign
    <3>1. code # <<>> /\ code' = Tail(code) /\ Head(code).do = "set" /\ Head(code) \in Statements
      BY <2>1, <2>4, HeadTailProperties DEF Assign, At
    <3>2. More(Head(code)) = 0
      BY <3>1 DEF More
    <3> QED BY <2>2, <3>1, <3>2
  <2>5. CASE ReadSector \/ TuneLoaded
    <3>1. code # <<>> /\ code' = Tail(code) /\ Head(code).do \in {"read", "loaded"}
      BY <2>5 DEF ReadSector, TuneLoaded, At
    <3>2. More(Head(code)) = 0
      BY <3>1 DEF More
    <3> QED BY <2>2, <3>1, <3>2
  <2>6. CASE OpenTune
    <3>1. At("open") /\ code' \in {<<>>, Sector \o <<Do("loaded")>>}
      BY <2>6 DEF OpenTune
    <3>2. Tail(code) = <<>> /\ code # <<>>
      <4>1. ~At("set") /\ ~Told(<<>>) /\ ~AtWait /\ ~AtPoll /\ ~AtRead
        BY <3>1, AtOne, NothingTold DEF AtWait, AtPoll, AtRead
      <4> QED BY <2>1, <3>1, <4>1, RoutineIs DEF AtFile, At
    <3>3. Left(code) = 5
      <4>1. Len(code) = 1 /\ Head(code) = code[1]
        BY <2>1, <3>2, LastOne
      <4>2. Head(code).do = "open"
        BY <3>1 DEF At
      <4>3. More(Head(code)) = 4
        BY <4>2, SectorIs DEF More
      <4> QED BY <3>2, <4>1, <4>3 DEF Left
    <3>4. Left(code') \in 0 .. 4
      <4>1. CASE code' = <<>>
        BY <4>1, LeftOf
      <4>2. CASE code' = Sector \o <<Do("loaded")>>
        <5>1. Left(code') = 4
          BY <4>2, LeftOf, Zenon
        <5> QED BY <5>1
      <4> QED BY <3>1, <4>1, <4>2
    <3> QED BY <1>1, <3>3, <3>4
  <2>7. CASE Poll
    <3>1. At("poll") /\ ~At("set")
      <4>1. At("poll")
        BY <2>7 DEF Poll
      <4> QED BY <4>1, AtOne
    <3>2. AtPoll
      <4>1. ~Told(<<>>) /\ ~AtWait /\ ~AtRead /\ ~AtFile
        BY <3>1, AtOne, NothingTold DEF AtWait, AtRead, AtFile
      <4> QED BY <2>1, <3>1, <4>1, RoutineIs
    <3>3. Left(code) = 9
      <4>1. code = <<Do("poll")>>
        BY <3>2 DEF AtPoll, Told
      <4> QED BY <4>1, MoreIs DEF Left
    <3>4. Left(code') \in 0..8
      <4>1. CASE code' = <<>>
        BY <4>1, LeftOf
      <4>2. CASE LET m == music_tick(seq) IN seq' = m.q /\ code' = m.code
        <5> DEFINE m == music_tick(seq)
        <5>1. code' = m.code
          BY <4>2
        <5>2. StreamsOK(seq) /\ TuneRead(mus_buf) /\ Owed(seq, Voice)
          BY <2>1, <3>2 DEF AtPoll, Told, SpeakerTyped, StreamsOK
        <5>3. m.code = <<>> \/ \E t \in {0} \cup Tenths : m.code = voice_note(t)
          BY <5>2, TickOK
        <5> HIDE DEF m
        <5> QED BY <5>1, <5>3, LeftOf
      <4> QED BY <2>7, <4>1, <4>2 DEF Poll
    <3> QED BY <1>1, <3>3, <3>4
  <2>8. CASE BeepWait
    <3>1. At("wait") /\ ~At("set")
      <4>1. At("wait")
        BY <2>8 DEF BeepWait
      <4> QED BY <4>1, AtOne
    <3>2. AtWait
      <4>1. ~Told(<<>>) /\ ~AtPoll /\ ~AtRead /\ ~AtFile
        BY <3>1, AtOne, NothingTold DEF AtPoll, AtRead, AtFile
      <4> QED BY <2>1, <3>1, <4>1, RoutineIs
    <3>3. PICK f \in 0..BEEP_FRAMES, g \in 0..(GuardSize - 1) : code = <<Wait(f, g)>>
      BY <3>2, Zenon DEF AtWait, Waiting
    <3>4. Head(code).frames = f /\ Head(code).guard = g
      <4>1. Head(code) = Wait(f, g)
        BY <3>3
      <4> QED BY <4>1 DEF Wait
    <3>5. \/ code' = voice_off
          \/ f # BEEP_FRAMES /\ code' = <<Wait(f + 1, 0)>>
          \/ ~GuardTripped(g) /\ code' = <<Wait(f, (g + 1) % GuardSize)>>
      BY <2>8, <3>4, Zenon DEF BeepWait
    <3> DEFINE W(i, j) == 7 + GuardSize * (BEEP_FRAMES - i) + GuardSize - 1 - j
    <3>6. \A i \in 0..BEEP_FRAMES, j \in 0..(GuardSize - 1) : Left(<<Wait(i, j)>>) = W(i, j)
      <4> TAKE i \in 0..BEEP_FRAMES, j \in 0..(GuardSize - 1)
      <4>1. Left(<<Wait(i, j)>>) = 1 + More(Wait(i, j))
        BY DEF Left
      <4>2. More(Wait(i, j)) = 6 + GuardSize * (BEEP_FRAMES - i) + GuardSize - 1 - j
        BY MoreIs
      <4>3. GuardSize * (BEEP_FRAMES - i) \in Int
        BY BeepCounts
      <4> HIDE DEF W
      <4> QED BY <4>1, <4>2, <4>3, BeepCounts DEF W
    <3> DEFINE n == BEEP_FRAMES - f
               p == GuardSize * n
    <3>7. n \in Nat /\ p \in Nat /\ g \in 0..(GuardSize - 1) /\ GuardSize \in Nat \ {0}
      BY BeepCounts
    <3>8. Left(code) = 7 + p + GuardSize - 1 - g
      BY <3>3, <3>6
    <3>9. CASE code' = voice_off
      <4> HIDE DEF p
      <4> QED BY <1>1, <3>7, <3>8, <3>9, LeftOf
    <3>10. CASE f # BEEP_FRAMES /\ code' = <<Wait(f + 1, 0)>>
      <4>1. f + 1 \in 0..BEEP_FRAMES /\ 0 \in 0..(GuardSize - 1)
        BY <3>10, BeepCounts
      <4>2. Left(code') = 7 + GuardSize * (BEEP_FRAMES - (f + 1)) + GuardSize - 1 - 0
        BY <3>6, <3>10, <4>1
      <4> DEFINE q == GuardSize * (BEEP_FRAMES - (f + 1))
      <4>3. q \in Nat /\ p = q + GuardSize
        <5>1. BEEP_FRAMES - (f + 1) \in Nat /\ n = BEEP_FRAMES - (f + 1) + 1
          BY <3>10, BeepCounts
        <5> QED BY <5>1, <3>7
      <4> HIDE DEF p, q
      <4>4. Left(code') = 7 + q + GuardSize - 1
        BY <3>7, <4>2, <4>3 DEF q
      <4> QED BY <1>1, <3>7, <3>8, <4>3, <4>4
    <3>11. CASE ~GuardTripped(g) /\ code' = <<Wait(f, (g + 1) % GuardSize)>>
      <4>1. (g + 1) % GuardSize = g + 1 /\ g + 1 \in 0..(GuardSize - 1)
        BY <3>7, <3>11 DEF GuardTripped
      <4>2. Left(code') = 7 + p + GuardSize - 1 - (g + 1)
        BY <3>6, <3>11, <4>1
      <4> HIDE DEF p
      <4> QED BY <1>1, <3>7, <3>8, <4>1, <4>2
    <3> QED BY <3>5, <3>9, <3>10, <3>11
  <2> QED BY <1>2, <2>4, <2>5, <2>6, <2>7, <2>8 DEF Mainline
<1>3. SpeakerInv /\ [SoundNext]_sound => [Nearer]_sound
  <2>1. Call => Rest
    BY DEF Call, snd_music, snd_effect, snd_beep, snd_toggle, snd_poll, Disk
  <2> QED BY <1>2, <2>1 DEF SoundNext
<1>4. SoundSpec => [][Nearer]_sound
  BY <1>3, SpeakerInvariant, PTL DEF SoundSpec
<1> QED BY <1>4 DEF CallsRunDown

-----------------------------------------------------------------------------
(* Console. *)

USE ConsoleAssumption DEF ConsoleAssumption, PER_ENTRY, Ring, Boxes

-----------------------------------------------------------------------------
\* What each entry of the ring holds, on either side of the head, and that a
\* ring which has not yet gone round is filled from its start.
RingInv ==
    /\ log_count <= posted
    /\ log_count < LOG_SLOTS => log_head = log_count
    /\ \A s \in Ring : s < log_head => log[s] = posted - log_head + 1 + s
    /\ log_count = LOG_SLOTS =>
          \A s \in Ring : s >= log_head => log[s] = posted - log_head + 1 + s - LOG_SLOTS

\* Until the ring has gone round, no box points past its end.
PanelInv ==
    log_count < LOG_SLOTS => \A b \in 1 .. msg_count : panel_slot[b] < log_count

ConsoleInv == ConsoleTypeOK /\ RingInv /\ PanelInv

\* The head's next place, and the place of the n-th entry.
LEMMA Around ==
    ASSUME NEW a \in Nat
    PROVE  /\ a < LOG_SLOTS => a % LOG_SLOTS = a
           /\ a >= LOG_SLOTS /\ a < LOG_SLOTS + LOG_SLOTS => a % LOG_SLOTS = a - LOG_SLOTS
  OBVIOUS

\* The last full window depends on the record's length alone.
LEMMA BottomFollows ==
    /\ UNCHANGED log_count => Bottom' = Bottom
    /\ log_count \in Nat => Bottom \in Nat
    /\ log_count' \in Nat => Bottom' \in Nat
  BY DEF Bottom, Total

LEMMA ConsoleStarts == ConsoleInit => ConsoleInv
  BY BottomFollows DEF ConsoleInit, ConsoleInv, ConsoleTypeOK, RingInv, PanelInv

-----------------------------------------------------------------------------
\* Where a message goes.
LEMMA HeadMoves ==
    ASSUME ConsoleTypeOK, Append1
    PROVE  /\ log_head' \in Ring /\ log_count' \in 0 .. LOG_SLOTS
           /\ log_head' = IF log_head + 1 < LOG_SLOTS THEN log_head + 1 ELSE 0
           /\ log_count' = IF log_count < LOG_SLOTS THEN log_count + 1 ELSE log_count
           /\ log' \in [Ring -> Nat]
           /\ \A s \in Ring : log'[s] = IF s = log_head THEN posted + 1 ELSE log[s]
<1>1. log_head \in Ring /\ log_head + 1 \in Nat /\ log_head' = (log_head + 1) % LOG_SLOTS
  BY DEF ConsoleTypeOK, Append1
<1>2. log_head' = IF log_head + 1 < LOG_SLOTS THEN log_head + 1 ELSE 0
  <2>1. CASE log_head + 1 < LOG_SLOTS
    BY <1>1, <2>1, Around
  <2>2. CASE log_head + 1 = LOG_SLOTS
    <3>1. LOG_SLOTS % LOG_SLOTS = LOG_SLOTS - LOG_SLOTS
      BY Around
    <3> QED BY <1>1, <2>2, <3>1
  <2> QED BY <1>1, <2>1, <2>2
<1>3. log_head' \in Ring
  BY <1>1, <1>2 DEF Ring
<1>4. /\ log_count' \in 0 .. LOG_SLOTS
      /\ log_count' = IF log_count < LOG_SLOTS THEN log_count + 1 ELSE log_count
  BY DEF ConsoleTypeOK, Append1
<1>5. log' \in [Ring -> Nat] /\ \A s \in Ring : log'[s] = IF s = log_head THEN posted + 1 ELSE log[s]
  BY DEF ConsoleTypeOK, Append1
<1> QED BY <1>2, <1>3, <1>4, <1>5

LEMMA MessageRing ==
    ASSUME ConsoleInv, NEW c \in Colours, Message(c)
    PROVE  RingInv'
<1>1. posted' = posted + 1 /\ Append1 /\ ConsoleTypeOK /\ RingInv
  BY DEF Message, ConsoleInv
<1>2. /\ log_head \in Ring /\ log_count \in 0 .. LOG_SLOTS /\ posted \in Nat
      /\ log \in [Ring -> Nat]
  BY <1>1 DEF ConsoleTypeOK
<1>3. /\ log_head' = IF log_head + 1 < LOG_SLOTS THEN log_head + 1 ELSE 0
      /\ log_count' = IF log_count < LOG_SLOTS THEN log_count + 1 ELSE log_count
      /\ \A s \in Ring : log'[s] = IF s = log_head THEN posted + 1 ELSE log[s]
  BY <1>1, HeadMoves
<1>4. log_count' <= posted' /\ (log_count' < LOG_SLOTS => log_head' = log_count')
  BY <1>1, <1>2, <1>3 DEF RingInv
<1>5. \A s \in Ring : s < log_head => log[s] = posted - log_head + 1 + s
  BY <1>1 DEF RingInv
<1>6. log_count = LOG_SLOTS =>
          \A s \in Ring : s >= log_head => log[s] = posted - log_head + 1 + s - LOG_SLOTS
  BY <1>1 DEF RingInv
<1>7. ASSUME NEW s \in Ring, s < log_head'
      PROVE  log'[s] = posted' - log_head' + 1 + s
  BY <1>1, <1>2, <1>3, <1>5, <1>7
<1>8. ASSUME log_count' = LOG_SLOTS, NEW s \in Ring, s >= log_head'
      PROVE  log'[s] = posted' - log_head' + 1 + s - LOG_SLOTS
  <2>1. CASE log_head + 1 < LOG_SLOTS
    <3>1. log_count = LOG_SLOTS
      BY <1>1, <1>2, <1>3, <1>8, <2>1 DEF RingInv
    <3> QED BY <1>1, <1>2, <1>3, <1>6, <1>8, <2>1, <3>1
  <2>2. CASE log_head + 1 = LOG_SLOTS
    <3>1. log_head' = 0 /\ log_head = LOG_SLOTS - 1 /\ s \in 0 .. log_head
      BY <1>2, <1>3, <2>2
    <3>2. CASE s = log_head
      BY <1>1, <1>2, <1>3, <3>1, <3>2
    <3>3. CASE s < log_head
      <4>1. log'[s] = log[s] /\ log[s] = posted - log_head + 1 + s
        BY <1>3, <1>5, <3>3
      <4> QED BY <1>1, <1>2, <3>1, <4>1
    <3> QED BY <3>1, <3>2, <3>3
  <2> QED BY <1>2, <2>1, <2>2
<1> QED BY <1>4, <1>7, <1>8 DEF RingInv

\* The panel after a message: the boxes that stay, and the new one.
LEMMA MessagePanel ==
    ASSUME ConsoleTypeOK, NEW c \in Colours, Message(c)
    PROVE  /\ panel_slot' \in [Boxes -> Ring] /\ slot_colour' \in [Boxes -> Colours]
           /\ msg_count' \in 1 .. MSG_SLOTS /\ msg_count' = Room + 1 /\ Room \in Nat
           /\ panel_slot'[Room + 1] = log_head
           /\ \A b \in 1 .. Room : panel_slot'[b] =
                 IF msg_count = MSG_SLOTS THEN panel_slot[b + 1] ELSE panel_slot[b]
<1>1. Room \in 0 .. (MSG_SLOTS - 1) /\ (msg_count = MSG_SLOTS => Room = MSG_SLOTS - 1)
      /\ (msg_count # MSG_SLOTS => Room = msg_count)
  BY DEF Room, ConsoleTypeOK
<1>2. Scrolled(panel_slot) \in [Boxes -> Ring] /\ Scrolled(slot_colour) \in [Boxes -> Colours]
  BY DEF Scrolled, ConsoleTypeOK
<1>3. \A b \in Boxes : Scrolled(panel_slot)[b] =
          IF msg_count = MSG_SLOTS /\ b < MSG_SLOTS THEN panel_slot[b + 1] ELSE panel_slot[b]
  BY DEF Scrolled
<1>4. /\ panel_slot' = [Scrolled(panel_slot) EXCEPT ![Room + 1] = log_head]
      /\ slot_colour' = [Scrolled(slot_colour) EXCEPT ![Room + 1] = c]
      /\ msg_count' = Room + 1
  BY DEF Message
<1>5. log_head \in Ring
  BY DEF ConsoleTypeOK
<1> HIDE DEF Room, Scrolled
<1>6. panel_slot' \in [Boxes -> Ring] /\ slot_colour' \in [Boxes -> Colours]
  BY <1>1, <1>2, <1>4, <1>5
<1>7. \A b \in 1 .. Room : panel_slot'[b] = Scrolled(panel_slot)[b]
  BY <1>1, <1>2, <1>4
<1>8. panel_slot'[Room + 1] = log_head
  BY <1>1, <1>2, <1>4
<1> QED BY <1>1, <1>3, <1>4, <1>6, <1>7, <1>8

LEMMA MessageHolds ==
    ASSUME ConsoleInv, NEW c \in Colours, Message(c)
    PROVE  ConsoleInv'
<1>1. ConsoleTypeOK /\ RingInv /\ PanelInv /\ Append1 /\ posted' = posted + 1 /\ top' = top
  BY DEF ConsoleInv, Message
<1>2. /\ log_head' \in Ring /\ log_count' \in 0 .. LOG_SLOTS /\ log' \in [Ring -> Nat]
      /\ log_count' = IF log_count < LOG_SLOTS THEN log_count + 1 ELSE log_count
  BY <1>1, HeadMoves
<1>3. /\ panel_slot' \in [Boxes -> Ring] /\ slot_colour' \in [Boxes -> Colours]
      /\ msg_count' \in 1 .. MSG_SLOTS /\ msg_count' = Room + 1 /\ Room \in Nat
      /\ panel_slot'[Room + 1] = log_head
      /\ \A b \in 1 .. Room : panel_slot'[b] =
            IF msg_count = MSG_SLOTS THEN panel_slot[b + 1] ELSE panel_slot[b]
  BY <1>1, MessagePanel
<1>4. ConsoleTypeOK'
  <2>1. posted' \in Nat
    BY <1>1 DEF ConsoleTypeOK
  <2>2. top' \in -1 .. Bottom'
    BY <1>1, <1>2, BottomFollows DEF Message, Command
  <2>3. msg_count' \in 0 .. MSG_SLOTS
    BY <1>3
  <2> QED BY <1>2, <1>3, <2>1, <2>2, <2>3 DEF ConsoleTypeOK
<1>5. PanelInv'
  <2> SUFFICES ASSUME log_count' < LOG_SLOTS, NEW b \in 1 .. msg_count'
               PROVE  panel_slot'[b] < log_count'
    BY DEF PanelInv
  <2>1. log_count \in Nat /\ log_count < LOG_SLOTS /\ log_count' = log_count + 1
        /\ msg_count \in 0 .. MSG_SLOTS
    BY <1>1, <1>2 DEF ConsoleTypeOK
  <2>2. log_head = log_count /\ \A a \in 1 .. msg_count : panel_slot[a] < log_count
    BY <1>1, <2>1 DEF RingInv, PanelInv
  <2>3. CASE b = Room + 1
    BY <1>3, <2>1, <2>2, <2>3
  <2>4. CASE b # Room + 1
    <3>1. b \in 1 .. Room
      BY <1>3, <2>4
    <3>2. panel_slot'[b] < log_count
      <4>1. CASE msg_count = MSG_SLOTS
        <5>1. b + 1 \in 1 .. msg_count
          BY <1>3, <3>1, <4>1
        <5> QED BY <1>3, <2>2, <3>1, <4>1, <5>1
      <4>2. CASE msg_count # MSG_SLOTS
        <5>1. b \in 1 .. msg_count
          BY <2>1, <3>1, <4>2 DEF Room
        <5> QED BY <1>3, <2>2, <3>1, <4>2, <5>1
      <4> QED BY <4>1, <4>2
    <3>3. panel_slot'[b] \in Ring
      BY <1>3, <3>1
    <3> QED BY <2>1, <3>2, <3>3
  <2> QED BY <2>3, <2>4
<1> QED BY <1>1, <1>4, <1>5, MessageRing DEF ConsoleInv

-----------------------------------------------------------------------------
LEMMA AckHolds ==
    ASSUME ConsoleInv, NEW n \in Boxes, Ack(n)
    PROVE  ConsoleInv'
<1>1. ConsoleTypeOK'
  <2>1. Bottom' = Bottom
    BY BottomFollows DEF Ack, ring
  <2> QED BY <2>1 DEF ConsoleInv, ConsoleTypeOK, Ack, ring
<1>2. PanelInv'
  <2> SUFFICES ASSUME log_count' < LOG_SLOTS, NEW b \in 1 .. msg_count'
               PROVE  panel_slot'[b] < log_count'
    BY DEF PanelInv
  <2>1. log_count' = log_count /\ b \in 1 .. msg_count /\ b + 1 \in 1 .. msg_count
    BY DEF ConsoleInv, ConsoleTypeOK, Ack, ring
  <2>2. panel_slot'[b] = panel_slot[b] \/ panel_slot'[b] = panel_slot[b + 1]
    BY <2>1 DEF ConsoleInv, ConsoleTypeOK, Ack
  <2> QED BY <2>1, <2>2 DEF ConsoleInv, PanelInv
<1>3. RingInv'
  BY DEF ConsoleInv, RingInv, Ack, ring
<1> QED BY <1>1, <1>2, <1>3 DEF ConsoleInv

LEMMA OtherHolds ==
    ASSUME ConsoleInv, AckAll \/ ClearMessages \/ OpenView \/ Up \/ Down \/ CloseView
    PROVE  ConsoleInv'
<1>1. ConsoleTypeOK'
  <2>1. CASE AckAll
    <3>1. Bottom' = Bottom
      BY <2>1, BottomFollows DEF AckAll, ring
    <3> QED BY <2>1, <3>1 DEF ConsoleInv, ConsoleTypeOK, AckAll, ring
  <2>2. CASE ClearMessages
    <3>1. top' \in -1 .. Bottom'
      BY <2>2, BottomFollows DEF ClearMessages, Command
    <3> QED BY <2>2, <3>1 DEF ConsoleInv, ConsoleTypeOK, ClearMessages
  <2>3. CASE UNCHANGED <<ring, panel, posted>>
    <3>1. Bottom' = Bottom /\ Bottom \in Nat
      BY <2>3, BottomFollows DEF ring, ConsoleInv, ConsoleTypeOK
    <3>2. top' \in -1 .. Bottom
      <4>1. CASE OpenView
        BY <3>1, <4>1 DEF OpenView
      <4>2. CASE Down
        BY <3>1, <4>2 DEF ConsoleInv, ConsoleTypeOK, Down, Bottom, Total
      <4>3. CASE Up \/ CloseView
        BY <3>1, <4>3 DEF ConsoleInv, ConsoleTypeOK, Up, CloseView
      <4>4. CASE AckAll \/ ClearMessages
        BY <3>1, <4>4 DEF AckAll, ClearMessages, Command
      <4> QED BY <4>1, <4>2, <4>3, <4>4
    <3> QED BY <2>3, <3>1, <3>2 DEF ConsoleInv, ConsoleTypeOK, ring, panel
  <2> QED BY <2>1, <2>2, <2>3 DEF OpenView, Up, Down, CloseView
<1>2. RingInv' /\ PanelInv'
  <2>1. CASE AckAll
    BY <2>1 DEF ConsoleInv, ConsoleTypeOK, RingInv, PanelInv, AckAll, ring
  <2>2. CASE ClearMessages
    BY <2>2 DEF ConsoleInv, ConsoleTypeOK, RingInv, PanelInv, ClearMessages
  <2>3. CASE UNCHANGED <<ring, panel, posted>>
    BY <2>3 DEF ConsoleInv, RingInv, PanelInv, ring, panel
  <2> QED BY <2>1, <2>2, <2>3 DEF OpenView, Up, Down, CloseView
<1> QED BY <1>1, <1>2 DEF ConsoleInv

LEMMA ConsoleSteps == ConsoleInv /\ [ConsoleNext]_console => ConsoleInv'
<1> SUFFICES ASSUME ConsoleInv, [ConsoleNext]_console PROVE ConsoleInv'
  OBVIOUS
<1>1. CASE UNCHANGED console
  <2>1. Bottom' = Bottom
    BY <1>1, BottomFollows DEF console, ring
  <2> QED BY <1>1, <2>1 DEF ConsoleInv, ConsoleTypeOK, RingInv, PanelInv, console, ring, panel
<1> QED
  BY <1>1, MessageHolds, AckHolds, OtherHolds DEF ConsoleNext, Player

LEMMA ConsoleInvariant == ConsoleSpec => []ConsoleInv
<1> QED BY ConsoleStarts, ConsoleSteps, PTL DEF ConsoleSpec

-----------------------------------------------------------------------------
(* The theorems *)

\* The ring's and the panel's indices stay inside their arrays.
THEOREM ConsoleTyped == ConsoleSpec => []ConsoleTypeOK
<1>1. ConsoleInv => ConsoleTypeOK
  BY DEF ConsoleInv
<1> QED BY <1>1, ConsoleInvariant, PTL

\* MSGS draws the latest messages in the order they came, none lost and none
\* twice, for a ring of any size, wherever a new game begins in it.
THEOREM TheRecordIsTheLatest == ConsoleSpec => []RecordIsTheLatest
<1>1. ASSUME ConsoleInv, NEW n \in 0 .. (log_count - 1)
      PROVE  Fetch(n) = posted - log_count + 1 + n
  <2>1. CASE log_count < LOG_SLOTS
    BY <1>1, <2>1 DEF ConsoleInv, ConsoleTypeOK, RingInv, Fetch
  <2>2. CASE log_count = LOG_SLOTS
    <3>1. log_head \in Ring /\ n \in Ring /\ posted \in Nat
      BY <1>1, <2>2 DEF ConsoleInv, ConsoleTypeOK
    <3>2. CASE log_head + n < LOG_SLOTS
      <4>1. (log_head + n) % LOG_SLOTS = log_head + n /\ log_head + n \in Ring
        BY <3>1, <3>2, Around
      <4> QED BY <1>1, <2>2, <3>1, <3>2, <4>1 DEF ConsoleInv, RingInv, Fetch
    <3>3. CASE log_head + n >= LOG_SLOTS
      <4>1. (log_head + n) % LOG_SLOTS = log_head + n - LOG_SLOTS
            /\ log_head + n - LOG_SLOTS \in Ring /\ log_head + n - LOG_SLOTS < log_head
        BY <3>1, <3>3, Around
      <4> QED BY <1>1, <2>2, <3>1, <3>3, <4>1 DEF ConsoleInv, RingInv, Fetch
    <3> QED BY <3>1, <3>2, <3>3
  <2> QED BY <1>1, <2>1, <2>2 DEF ConsoleInv, ConsoleTypeOK
<1>2. ASSUME ConsoleInv, top >= 0, NEW r \in 0 .. (MSGV_LINES - 1), top + r < Total
      PROVE  Line(r) = posted - log_count + 1 + (top + r) \div PER_ENTRY
  <2>1. (top + r) \div PER_ENTRY \in 0 .. (log_count - 1)
    BY <1>2 DEF ConsoleInv, ConsoleTypeOK, Total
  <2>2. ~(top + r >= Total)
    BY <1>2 DEF ConsoleInv, ConsoleTypeOK, Total
  <2> HIDE DEF PER_ENTRY
  <2>3. Line(r) = Fetch((top + r) \div PER_ENTRY)
    BY <2>2 DEF Line
  <2> QED BY <1>1, <1>2, <2>1, <2>3
<1>3. ConsoleInv => RecordIsTheLatest
  BY <1>1, <1>2 DEF RecordIsTheLatest
<1> QED BY <1>3, ConsoleInvariant, PTL

-----------------------------------------------------------------------------
(* The ring and the panel as the journal. *)

Queue == [b \in 1 .. msg_count |-> Shown(b)]

LEMMA InitRefines == ConsoleInit => J!Init
<1> SUFFICES ASSUME ConsoleInit PROVE J!Init
  OBVIOUS
<1>1. msg_count = 0 /\ posted = 0 /\ log_count = 0
  BY DEF ConsoleInit
<1>2. [b \in 1 .. msg_count |-> Shown(b)] = <<>>
  BY <1>1
<1> QED BY <1>1, <1>2 DEF J!Init

\* The entry the head is on holds the message that leaves the record, and a
\* box on any other entry holds another message.
LEMMA OldestIsAtHead ==
    ASSUME ConsoleInv, NEW b \in 1 .. msg_count
    PROVE  (panel_slot[b] = log_head)
              <=> (log_count = LOG_SLOTS /\ Shown(b) = posted + 1 - LOG_SLOTS)
<1> DEFINE p == panel_slot[b]
<1>1. /\ p \in Ring /\ log_head \in Ring /\ posted \in Nat /\ log_count \in 0 .. LOG_SLOTS
  BY DEF ConsoleInv, ConsoleTypeOK
<1>2. CASE log_count < LOG_SLOTS
  <2>1. p < log_count /\ log_head = log_count
    BY <1>2 DEF ConsoleInv, RingInv, PanelInv
  <2> QED BY <1>1, <1>2, <2>1
<1>3. CASE log_count = LOG_SLOTS
  <2>1. /\ p < log_head => log[p] = posted - log_head + 1 + p
        /\ p >= log_head => log[p] = posted - log_head + 1 + p - LOG_SLOTS
    BY <1>1, <1>3 DEF ConsoleInv, RingInv
  <2> HIDE DEF p
  <2>2. (p = log_head) <=> (log[p] = posted + 1 - LOG_SLOTS)
    BY <1>1, <2>1
  <2> QED BY <1>3, <2>2 DEF p, Shown
<1> QED BY <1>1, <1>2, <1>3

LEMMA IsSequence ==
    ASSUME NEW n \in Nat, NEW f, f = [i \in 1 .. n |-> f[i]], \A i \in 1 .. n : f[i] \in Nat
    PROVE  f \in Seq(Nat) /\ Len(f) = n
  OBVIOUS

LEMMA QueueIs ==
    ASSUME ConsoleTypeOK
    PROVE  /\ Queue \in Seq(Nat) /\ Len(Queue) = msg_count /\ DOMAIN Queue = 1 .. msg_count
           /\ \A b \in 1 .. msg_count : Queue[b] = Shown(b)
<1>1. msg_count \in Nat /\ \A b \in 1 .. msg_count : Shown(b) \in Nat
  BY DEF ConsoleTypeOK, Shown
<1> QED BY <1>1 DEF Queue

LEMMA PostRefines ==
    ASSUME ConsoleInv, NEW c \in Colours, Message(c)
    PROVE  J!Post
<1> DEFINE Shifted == IF Len(Queue) = MSG_SLOTS THEN Tail(Queue) ELSE Queue
           Gone == [i \in DOMAIN Shifted |-> J!Displaced(Shifted[i])]
<1>1. ConsoleTypeOK /\ ConsoleTypeOK' /\ Append1 /\ posted' = posted + 1
  BY MessageHolds DEF ConsoleInv, Message
<1>2. /\ log_count' = IF log_count < LOG_SLOTS THEN log_count + 1 ELSE log_count
      /\ \A s \in Ring : log'[s] = IF s = log_head THEN posted + 1 ELSE log[s]
  BY <1>1, HeadMoves
<1>3. /\ panel_slot' \in [Boxes -> Ring]
      /\ msg_count' \in 1 .. MSG_SLOTS /\ msg_count' = Room + 1 /\ Room \in Nat
      /\ panel_slot'[Room + 1] = log_head
      /\ \A b \in 1 .. Room : panel_slot'[b] =
            IF msg_count = MSG_SLOTS THEN panel_slot[b + 1] ELSE panel_slot[b]
  BY <1>1, MessagePanel
<1>4. /\ Queue \in Seq(Nat) /\ Len(Queue) = msg_count
      /\ \A b \in 1 .. msg_count : Queue[b] = Shown(b)
  BY <1>1, QueueIs
<1>5. Room = IF msg_count = MSG_SLOTS THEN msg_count - 1 ELSE msg_count
  BY DEF Room
<1>6. /\ Shifted \in Seq(Nat) /\ Len(Shifted) = Room /\ DOMAIN Shifted = 1 .. Room
      /\ \A i \in 1 .. Room : Shifted[i] =
            IF msg_count = MSG_SLOTS THEN Shown(i + 1) ELSE Shown(i)
  <2> HIDE DEF Queue
  <2>1. msg_count \in 0 .. MSG_SLOTS
    BY <1>1 DEF ConsoleTypeOK
  <2>2. CASE msg_count = MSG_SLOTS
    <3>1. Shifted = Tail(Queue) /\ Queue # <<>>
      BY <1>4, <2>2
    <3>2. Shifted \in Seq(Nat) /\ Len(Shifted) = Room /\ DOMAIN Shifted = 1 .. Room
          /\ \A i \in 1 .. Room : Shifted[i] = Queue[i + 1]
      BY <1>4, <1>5, <2>2, <3>1
    <3> QED BY <1>4, <1>5, <2>2, <3>2
  <2>3. CASE msg_count # MSG_SLOTS
    BY <1>4, <1>5, <2>3
  <2> QED BY <2>2, <2>3
<1>7. ASSUME NEW i \in 1 .. Room
      PROVE  J!Displaced(Shifted[i]) = log'[panel_slot'[i]]
  <2> DEFINE o == IF msg_count = MSG_SLOTS THEN i + 1 ELSE i
  <2>1. o \in 1 .. msg_count /\ Shifted[i] = Shown(o) /\ panel_slot'[i] = panel_slot[o]
    <3> HIDE DEF Shifted
    <3>1. msg_count \in Nat
      BY <1>1 DEF ConsoleTypeOK
    <3>2. CASE msg_count = MSG_SLOTS
      BY <1>3, <1>5, <1>6, <3>1, <3>2
    <3>3. CASE msg_count # MSG_SLOTS
      BY <1>3, <1>5, <1>6, <3>1, <3>3
    <3> QED BY <3>2, <3>3
  <2> HIDE DEF o, Shifted
  <2>2. panel_slot[o] \in Ring
    BY <1>1, <2>1 DEF ConsoleTypeOK
  <2>3. (panel_slot[o] = log_head)
           <=> (log_count = LOG_SLOTS /\ Shown(o) = posted + 1 - LOG_SLOTS)
    BY <2>1, OldestIsAtHead
  <2> QED BY <1>2, <2>1, <2>2, <2>3 DEF J!Displaced, Shown
<1> HIDE DEF Shifted
<1>11. /\ log' \in [Ring -> Nat] /\ posted \in Nat /\ log_head \in Ring
       /\ \A b \in 1 .. (Room + 1) : log'[panel_slot'[b]] \in Nat
  <2>1. log' \in [Ring -> Nat] /\ posted \in Nat /\ log_head \in Ring
    BY <1>1 DEF ConsoleTypeOK
  <2>2. \A b \in 1 .. (Room + 1) : panel_slot'[b] \in Ring
    BY <1>3
  <2> QED BY <2>1, <2>2
<1>8. Gone \in Seq(Nat) /\ Len(Gone) = Room
      /\ \A i \in 1 .. Room : Gone[i] = log'[panel_slot'[i]]
  <2>1. \A i \in 1 .. Room : log'[panel_slot'[i]] \in Nat
    BY <1>3, <1>11
  <2>2. Gone = [i \in 1 .. Room |-> log'[panel_slot'[i]]]
    BY <1>6, <1>7
  <2> HIDE DEF Gone
  <2>3. /\ \A i \in 1 .. Room : Gone[i] = log'[panel_slot'[i]]
        /\ Gone = [i \in 1 .. Room |-> Gone[i]]
    BY <2>2
  <2> QED BY <1>3, <2>1, <2>3, IsSequence
<1> HIDE DEF Gone
<1>9. Queue' = Append(Gone, posted + 1)
  <2>1. Queue' \in Seq(Nat) /\ Len(Queue') = Room + 1
        /\ \A b \in 1 .. (Room + 1) : Queue'[b] = log'[panel_slot'[b]]
    <3>1. \A b \in 1 .. msg_count' : log'[panel_slot'[b]] \in Nat
      BY <1>3, <1>11
    <3>2. Queue' = [b \in 1 .. msg_count' |-> log'[panel_slot'[b]]]
      BY DEF Queue, Shown
    <3> QED BY <1>3, <3>1, <3>2
  <2>2. log'[panel_slot'[Room + 1]] = posted + 1
    <3>1. log_head \in Ring
      BY <1>1 DEF ConsoleTypeOK
    <3> QED BY <1>2, <1>3, <3>1
  <2>3. Append(Gone, posted + 1) \in Seq(Nat) /\ Len(Append(Gone, posted + 1)) = Room + 1
        /\ \A b \in 1 .. Room : Append(Gone, posted + 1)[b] = Gone[b]
        /\ Append(Gone, posted + 1)[Room + 1] = posted + 1
    <3>1. posted + 1 \in Nat
      BY <1>1 DEF ConsoleTypeOK
    <3> QED BY <1>3, <1>8, <3>1
  <2> HIDE DEF Queue
  <2>4. \A b \in 1 .. (Room + 1) : Queue'[b] = Append(Gone, posted + 1)[b]
    <3> SUFFICES ASSUME NEW b \in 1 .. (Room + 1)
                 PROVE  Queue'[b] = Append(Gone, posted + 1)[b]
      OBVIOUS
    <3>1. CASE b = Room + 1
      BY <2>1, <2>2, <2>3, <3>1
    <3>2. CASE b # Room + 1
      <4>1. b \in 1 .. Room
        BY <1>3, <3>2
      <4> QED BY <1>8, <2>1, <2>3, <4>1
    <3> QED BY <3>1, <3>2
  <2> QED BY <2>1, <2>3, <2>4
<1>10. log_count' = IF log_count < LOG_SLOTS THEN log_count + 1 ELSE log_count
  BY <1>2
<1> QED BY <1>1, <1>9, <1>10 DEF J!Post, J!Shifted, Gone, Shifted, Queue

LEMMA AckRefines ==
    ASSUME ConsoleInv, NEW n \in Boxes, Ack(n)
    PROVE  J!Acknowledge
<1>1. ConsoleTypeOK /\ ConsoleTypeOK'
  BY AckHolds DEF ConsoleInv
<1>2. /\ n \in 1 .. msg_count /\ msg_count \in 1 .. MSG_SLOTS /\ msg_count' = msg_count - 1
      /\ UNCHANGED <<posted, log_count, log>>
      /\ \A b \in 1 .. msg_count' :
            panel_slot'[b] = IF b < n THEN panel_slot[b] ELSE panel_slot[b + 1]
  BY <1>1 DEF Ack, ring, ConsoleTypeOK
<1>3. /\ Queue \in Seq(Nat) /\ Len(Queue) = msg_count /\ DOMAIN Queue = 1 .. msg_count
      /\ \A b \in 1 .. msg_count : Queue[b] = log[panel_slot[b]]
  BY <1>1, QueueIs DEF Shown
<1>4. Queue' = [b \in 1 .. (msg_count - 1) |-> log[panel_slot'[b]]]
  BY <1>2 DEF Queue, Shown
<1> HIDE DEF Queue
<1>5. Queue' = [i \in 1 .. (Len(Queue) - 1) |-> IF i < n THEN Queue[i] ELSE Queue[i + 1]]
  <2>1. \A i \in 1 .. (msg_count - 1) :
            log[panel_slot'[i]] = IF i < n THEN Queue[i] ELSE Queue[i + 1]
    <3> SUFFICES ASSUME NEW i \in 1 .. (msg_count - 1)
                 PROVE  log[panel_slot'[i]] = IF i < n THEN Queue[i] ELSE Queue[i + 1]
      OBVIOUS
    <3>1. i \in 1 .. msg_count /\ i + 1 \in 1 .. msg_count /\ i \in 1 .. msg_count'
      BY <1>2, SMT
    <3>2. Queue[i] = log[panel_slot[i]] /\ Queue[i + 1] = log[panel_slot[i + 1]]
      BY <1>3, <3>1
    <3>3. panel_slot'[i] = IF i < n THEN panel_slot[i] ELSE panel_slot[i + 1]
      BY <1>2, <3>1
    <3> QED
      BY <3>2, <3>3
  <2> QED BY <1>3, <1>4, <2>1
<1> QED BY <1>2, <1>3, <1>5 DEF J!Acknowledge, J!Drop, Queue

LEMMA EmptyQueue == ASSUME msg_count' = 0 PROVE Queue' = <<>>
  BY DEF Queue

LEMMA StillRefines ==
    ASSUME UNCHANGED <<ring, panel, posted>>
    PROVE  UNCHANGED <<posted, log_count, Queue>>
  BY DEF ring, panel, Queue, Shown

\* The panel and the ring implement the journal: acknowledging, scrolling off
\* and a new game take boxes off the screen and nothing out of the record, and
\* a box shows its own message until that message's place is taken.
THEOREM ConsoleImplementsJournal == ConsoleSpec => ImplementsJournal
<1>1. ConsoleInv /\ [ConsoleNext]_console => [J!Next]_<<posted, log_count, Queue>>
  <2> SUFFICES ASSUME ConsoleInv, [ConsoleNext]_console PROVE [J!Next]_<<posted, log_count, Queue>>
    OBVIOUS
  <2>1. CASE \E c \in Colours : Message(c)
    BY <2>1, PostRefines DEF J!Next
  <2>2. CASE \E n \in Boxes : Ack(n)
    BY <2>2, AckRefines DEF J!Next
  <2>3. CASE AckAll
    BY <2>3, EmptyQueue DEF AckAll, ring, J!Next, J!Acknowledge, Queue
  <2>4. CASE ClearMessages
    BY <2>4, EmptyQueue DEF ClearMessages, J!Next, J!Clear, Queue
  <2>5. CASE OpenView \/ Up \/ Down \/ CloseView \/ UNCHANGED console
    <3>1. UNCHANGED <<ring, panel, posted>>
      BY <2>5 DEF OpenView, Up, Down, CloseView, console
    <3> QED BY <3>1, StillRefines
  <2> QED BY <2>1, <2>2, <2>3, <2>4, <2>5 DEF ConsoleNext, Player
<1>2. ConsoleInv /\ [ConsoleNext]_console => [J!Next]_<<posted, log_count, [b \in 1 .. msg_count |-> Shown(b)]>>
  BY <1>1 DEF Queue
<1> QED BY <1>2, InitRefines, ConsoleInvariant, PTL DEF ConsoleSpec, ImplementsJournal, J!Spec
=============================================================================
