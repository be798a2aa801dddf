------------------------------ MODULE Granules ------------------------------
(***************************************************************************)
(* The CoCo 3's filesystem, coco3/src/coco3storage.c: Disk BASIC's         *)
(* granules on a drive that fails, under a machine that can be switched    *)
(* off.  The allocation table is read once and kept in memory; a write     *)
(* changes it there first, then the disk: data, table, directory entry.    *)
(* One sector buffer is shared by the directory, the table, every write    *)
(* and the one open stream.                                                *)
(*                                                                         *)
(* A sector of file data is the pair <<write, k>>: the k-th sector of the  *)
(* write-th plat_write_all.  A sector is written whole or not at all.      *)
(***************************************************************************)
EXTENDS Integers, Sequences, FiniteSets

CONSTANTS
    Names,          \* the files the program writes
    NUM_GRAN, SEC_SIZE, GRAN_SECS,
    Slots,          \* the entries of the directory, 1 .. Slots
    PoolGran,       \* the granule of the string pool, entry 1, never written
    PoolSecs,       \* its sectors
    Lens,           \* the lengths written
    MaxWrites       \* BOUND on the writes begun

GRAN_BYTES == GRAN_SECS * SEC_SIZE
Gran == 0 .. (NUM_GRAN - 1)
None == 255                         \* 0xFF: no granule, and a free granule
Last(k) == 192 + k                  \* $C0|k: the last granule, k sectors used

ASSUME GranulesAssumption ==
    /\ NUM_GRAN \in 1 .. 191 /\ PoolGran \in Gran
    /\ SEC_SIZE \in Nat \ {0} /\ GRAN_SECS \in 1 .. 62
    /\ Slots \in Nat \ {0} /\ PoolSecs \in 1 .. GRAN_SECS
    /\ Lens \subseteq Nat \ {0} /\ MaxWrites \in Nat
    /\ Names \cap {"free", "pool"} = {}

VARIABLES
    dfat, dir, data,        \* the disk: table, directory, data sectors
    ready, fat,             \* the table in memory, once it has been read
    secbuf,                 \* the file sector in the shared buffer, or Junk
    st,                     \* the open stream
    job,                    \* the plat_write_all under way
    size,                   \* HISTORY: write -> its length
    saved,                  \* HISTORY: name -> the last write that reached the
                            \* directory
    torn                    \* HISTORY: names whose replacement was cut short

disk   == <<dfat, dir, data>>
memory == <<ready, fat>>
past   == <<size, saved, torn>>
vars   == <<disk, memory, secbuf, st, job, past>>

Junk  == <<-1, 0>>
Pool  == 0                          \* the pool's number among the writes
Entry == [name : Names, first : 0 .. 255, lastb : 1 .. SEC_SIZE]
Free  == [name |-> "free", first |-> None, lastb |-> 0]
PoolEntry == [name |-> "pool", first |-> PoolGran, lastb |-> SEC_SIZE]

Idle   == [pc |-> "idle", name |-> "free", len |-> 0, id |-> 0, slot |-> 0,
           first |-> None, gran |-> None, sec |-> 0, k |-> 0, old |-> None]
Closed == [open |-> FALSE, gran |-> None, sec |-> 0, pos |-> 0, avail |-> 0,
           lastbytes |-> 0, id |-> 0, heard |-> 0, pure |-> TRUE, ended |-> FALSE]

Init ==
    /\ dfat = [g \in Gran |-> IF g = PoolGran THEN Last(PoolSecs) ELSE None]
    /\ dir  = [s \in 1 .. Slots |-> IF s = 1 THEN PoolEntry ELSE Free]
    /\ data = [g \in Gran |-> [s \in 1 .. GRAN_SECS |->
                  IF g = PoolGran /\ s <= PoolSecs THEN <<Pool, s>> ELSE Junk]]
    /\ ready = FALSE /\ fat = [g \in Gran |-> None]
    /\ secbuf = Junk /\ st = Closed /\ job = Idle
    /\ size = <<>> /\ saved = [n \in Names |-> 0] /\ torn = {}

-----------------------------------------------------------------------------
(* The table and the directory *)

\* disk_ready reads the table once; from then on the copy is the table.
Table == IF ready THEN fat ELSE dfat
DiskReady == ready' = TRUE /\ fat' = Table

IsLast(v) == v >= 192               \* (v & 0xC0) == 0xC0: a free one as well
Links(t, g) == ~IsLast(t[g]) /\ t[g] < NUM_GRAN
SectorsIn(v) == IF IsLast(v) THEN v % 64 ELSE GRAN_SECS

\* The granules reached from g: the least set with g that keeps to the links.
Chain(t, g) ==
    LET kept == {S \in SUBSET Gran : g \in S /\ \A x \in S : Links(t, x) => t[x] \in S}
    IN  {h \in Gran : \A S \in kept : h \in S}

Holding(n) == {s \in 1 .. Slots : dir[s].name = n}
Lowest(S) == CHOOSE s \in S : \A r \in S : s <= r

-----------------------------------------------------------------------------
(* plat_write_all *)

Need(len) == (len - 1) \div GRAN_BYTES + 1
\* (mutant: free is read off the two top bits, as the last granule is)
BlanksByMask(t) == {g \in Gran : IsLast(t[g])}

Blanks(t) == {g \in Gran : t[g] = None}
OldChain(old) == IF old \in Gran THEN Chain(Table, old) ELSE {}

\* The entry with this name or, failing that, the first free one.
SlotFor(n) == IF Holding(n) # {} THEN Lowest(Holding(n)) ELSE Lowest(Holding("free"))

\* Capacity is counted before anything is freed.
Fits(old, len) ==
    Cardinality(Blanks(Table)) + Cardinality(OldChain(old)) >= Need(len)

Freed(old) ==
    LET gone == OldChain(old)
    IN  [g \in Gran |-> IF g \in gone THEN None ELSE Table[g]]

\* The first free granules of t, in their order, are linked one to the next.
Taken(t, len) ==
    LET free == Blanks(t)
    IN  {g \in free : Cardinality({h \in free : h < g}) < Need(len)}
Follows(S, g, h) == h \in S /\ h > g /\ \A i \in S : i > g => h <= i
Chunk(S, g, len) ==
    LET left == len - GRAN_BYTES * Cardinality({h \in S : h < g})
    IN  IF left > GRAN_BYTES THEN GRAN_BYTES ELSE left
\* (mutant: a last granule filled to a sector's end counts one sector more)
AllocatedOneMore(t, len) ==
    LET S == Taken(t, len)
    IN  [g \in Gran |->
            IF g \notin S THEN t[g]
            ELSE IF \E h \in S : Follows(S, g, h) THEN CHOOSE h \in S : Follows(S, g, h)
            ELSE Last(Chunk(S, g, len) \div SEC_SIZE + 1)]

Allocated(t, len) ==
    LET S == Taken(t, len)
    IN  [g \in Gran |->
            IF g \notin S THEN t[g]
            ELSE IF \E h \in S : Follows(S, g, h) THEN CHOOSE h \in S : Follows(S, g, h)
            ELSE Last((Chunk(S, g, len) - 1) \div SEC_SIZE + 1)]

Directed(n) == Holding(n) # {} \/ Holding("free") # {}
OldGran(n)  == IF Holding(n) # {} THEN dir[Lowest(Holding(n))].first ELSE None
Afresh(n)   == Freed(OldGran(n))

NewJob(n, len) ==
    [pc |-> "data", name |-> n, len |-> len, id |-> Len(size) + 1,
     slot |-> SlotFor(n), first |-> Lowest(Taken(Afresh(n), len)),
     gran |-> Lowest(Taken(Afresh(n), len)), sec |-> 1, k |-> 1, old |-> OldGran(n)]

\* A replacement that ends in an error: the old entry is still on the disk.
TornBy(n, old) == torn' = IF old \in Gran THEN torn \cup {n} ELSE torn

\* Steps 1 to 4, in memory: the directory is searched, the granules counted,
\* the old chain freed and the new one claimed.  "Counted, cannot happen" is
\* the case with no job.
Begin(n, len) ==
    /\ job.pc = "idle" /\ ~st.open /\ Len(size) < MaxWrites
    /\ Directed(n) /\ Fits(OldGran(n), len)
    /\ ready' = TRUE
    /\ fat' = Allocated(Afresh(n), len)
    /\ size' = Append(size, len)
    /\ secbuf' = Junk
    /\ IF Cardinality(Taken(Afresh(n), len)) = Need(len)
       THEN job' = NewJob(n, len) /\ torn' = torn
       ELSE job' = Idle /\ TornBy(n, OldGran(n))
    /\ UNCHANGED <<disk, st, saved>>

\* The directory or the disk is full, or a sector of the directory is bad.
Refuse ==
    /\ job.pc = "idle" /\ ~st.open
    /\ DiskReady /\ secbuf' = Junk
    /\ UNCHANGED <<disk, st, job, past>>

\* Step 5, a sector: the table in memory says where it goes.
Written(g, s, v) == [data EXCEPT ![g] = [@ EXCEPT ![s] = v]]
\* (mutants: the table is never written; the chain is not followed)
PutSectorSkipsTable ==
    /\ job.pc = "data" /\ secbuf' = <<job.id, job.k>>
    /\ data' = Written(job.gran, job.sec, secbuf')
    /\ job' = IF job.sec < SectorsIn(fat[job.gran])
                THEN [job EXCEPT !.sec = @ + 1, !.k = @ + 1]
              ELSE IF Links(fat, job.gran)
                THEN [job EXCEPT !.gran = fat[@], !.sec = 1, !.k = @ + 1]
              ELSE [job EXCEPT !.pc = "entry"]
    /\ UNCHANGED <<dfat, dir, memory, st, past>>
PutSectorStays ==
    /\ job.pc = "data" /\ secbuf' = <<job.id, job.k>>
    /\ data' = Written(job.gran, job.sec, secbuf')
    /\ job' = IF job.sec < SectorsIn(fat[job.gran]) THEN [job EXCEPT !.sec = @ + 1]
              ELSE IF Links(fat, job.gran) THEN [job EXCEPT !.sec = 1]
              ELSE [job EXCEPT !.pc = "fat"]
    /\ UNCHANGED <<dfat, dir, memory, st, past>>

PutSector ==
    /\ job.pc = "data" /\ secbuf' = <<job.id, job.k>>
    /\ data' = Written(job.gran, job.sec, secbuf')
    /\ job' = IF job.sec < SectorsIn(fat[job.gran])
                THEN [job EXCEPT !.sec = @ + 1, !.k = @ + 1]
              ELSE IF Links(fat, job.gran)
                THEN [job EXCEPT !.gran = fat[@], !.sec = 1, !.k = @ + 1]
              ELSE [job EXCEPT !.pc = "fat"]
    /\ UNCHANGED <<dfat, dir, memory, st, past>>

\* Step 6: read, changed, written.
PutTable ==
    /\ job.pc = "fat" /\ job' = [job EXCEPT !.pc = "entry"]
    /\ dfat' = fat /\ secbuf' = Junk
    /\ UNCHANGED <<dir, data, memory, st, past>>

\* Step 7, last: the entry makes the file findable.
Lastb(len) == IF len % SEC_SIZE = 0 THEN SEC_SIZE ELSE len % SEC_SIZE
NewEntry == [name |-> job.name, first |-> job.first, lastb |-> Lastb(job.len)]
Enter ==
    /\ dir' = [dir EXCEPT ![job.slot] = NewEntry]
    /\ saved' = [saved EXCEPT ![job.name] = job.id]
PutEntry ==
    /\ job.pc = "entry" /\ job' = Idle
    /\ Enter /\ secbuf' = Junk
    /\ UNCHANGED <<dfat, data, memory, st, size, torn>>

\* A sector fails in any of the three: STOR_ERROR, and the table in memory
\* stays as it is.  What failed may have reached the disk all the same.
Fail(landed) ==
    /\ job.pc # "idle" /\ job' = Idle
    /\ secbuf' = Junk
    /\ data' = IF landed /\ job.pc = "data"
               THEN Written(job.gran, job.sec, <<job.id, job.k>>) ELSE data
    /\ dfat' = IF landed /\ job.pc = "fat" THEN fat ELSE dfat
    /\ IF landed /\ job.pc = "entry" THEN Enter ELSE UNCHANGED <<dir, saved>>
    /\ IF landed /\ job.pc = "entry" THEN torn' = torn ELSE TornBy(job.name, job.old)
    /\ UNCHANGED <<memory, st, size>>

\* The power goes: memory with it.  A replacement is torn once it has written.
PowerOff ==
    /\ ready' = FALSE /\ fat' = [g \in Gran |-> None]
    /\ secbuf' = Junk /\ st' = Closed /\ job' = Idle
    /\ IF job.pc # "idle" /\ (job.k > 1 \/ job.pc # "data")
       THEN TornBy(job.name, job.old) ELSE torn' = torn
    /\ UNCHANGED <<disk, size, saved>>

-----------------------------------------------------------------------------
(* Reading *)

\* plat_read_all, and plat_raw_open once at the start: the shared buffer goes.
ReadAll ==
    /\ job.pc = "idle" /\ ~st.open
    /\ DiskReady /\ secbuf' = Junk
    /\ UNCHANGED <<disk, st, job, past>>

\* plat_open: closes what was open; the first plat_read fetches.
Open(n) ==
    /\ job.pc = "idle" /\ Holding(n) # {}
    /\ DiskReady /\ secbuf' = Junk
    /\ st' = LET e == dir[Lowest(Holding(n))]
             IN  [Closed EXCEPT !.open = TRUE, !.gran = e.first, !.pos = SEC_SIZE,
                                !.lastbytes = e.lastb, !.id = saved[n]]
    /\ UNCHANGED <<disk, job, past>>

OpenNothing ==
    /\ job.pc = "idle" /\ st' = Closed
    /\ DiskReady /\ secbuf' = Junk
    /\ UNCHANGED <<disk, job, past>>

\* next_sector, on a stream s: where the next sector is, if there is one.
AtGranuleEnd(s) == s.sec >= SectorsIn(fat[s.gran])
Moved(s) == IF AtGranuleEnd(s) /\ Links(fat, s.gran)
            THEN [s EXCEPT !.gran = fat[@], !.sec = 0] ELSE s
AtEnd(s) == s.gran \notin Gran \/ (AtGranuleEnd(s) /\ ~Links(fat, s.gran))
NextSector(s) ==
    LET m == Moved(s)
        v == fat[m.gran]
    IN  [m EXCEPT !.avail = IF IsLast(v) /\ m.sec = SectorsIn(v) - 1
                            THEN m.lastbytes ELSE SEC_SIZE,
                  !.sec = @ + 1, !.pos = 0]

\* A granule of a torn file may be free, and count 63 sectors: the drive is
\* then read on past its end, into what is not the file's.
SectorAt(g, s) == IF s \in 1 .. GRAN_SECS THEN data[g][s] ELSE Junk

\* plat_read, a byte: out of the buffer, after a new sector if it is used up.
IsNextByte(s, b) == b = <<s.id, s.heard \div SEC_SIZE + 1>> /\ s.pos = s.heard % SEC_SIZE
Heard(s, b) == [s EXCEPT !.pos = @ + 1, !.heard = @ + 1,
                         !.pure = @ /\ IsNextByte(s, b)]
ReadByte ==
    /\ st.open /\ ready
    /\ IF st.pos < st.avail
         THEN st' = Heard(st, secbuf) /\ secbuf' = secbuf
       ELSE IF AtEnd(st)
         THEN st' = [st EXCEPT !.ended = TRUE] /\ secbuf' = secbuf
       ELSE /\ secbuf' = SectorAt(Moved(st).gran, Moved(st).sec + 1)
            /\ st' = Heard(NextSector(st), secbuf')
    /\ UNCHANGED <<disk, memory, job, past>>

\* The drive fails as next_sector reads; plat_read stops short.
ReadFails ==
    /\ st.open /\ ready /\ st.pos >= st.avail /\ ~AtEnd(st)
    /\ secbuf' = Junk
    /\ st' = Moved(st)
    /\ UNCHANGED <<disk, memory, job, past>>

Close ==
    /\ st.open /\ st' = Closed
    /\ UNCHANGED <<disk, memory, secbuf, job, past>>

\* (mutant: through the shared buffer, as it once was)
RawSectorThroughSecbuf ==
    /\ job.pc = "idle" /\ DiskReady
    /\ secbuf' = data[PoolGran][1]
    /\ UNCHANGED <<disk, st, job, past>>

\* plat_raw_sector, for the string pool, between any two reads of a stream:
\* straight into the caller's buffer, and the shared one is left alone.
RawSector ==
    /\ job.pc = "idle" /\ DiskReady
    /\ secbuf' = IF ready THEN secbuf ELSE Junk
    /\ UNCHANGED <<disk, st, job, past>>

Writing == PutSector \/ PutTable \/ PutEntry
Faults  == (\E landed \in BOOLEAN : Fail(landed)) \/ PowerOff
Reading == ReadAll \/ OpenNothing \/ ReadByte \/ ReadFails \/ Close \/ RawSector
           \/ \E n \in Names : Open(n)

Next ==
    \/ \E n \in Names, len \in Lens : Begin(n, len)
    \/ Refuse \/ Writing \/ Faults \/ Reading

\* A write under way goes on until the drive answers or the power goes.
Fairness == WF_vars(Writing)
Spec == Init /\ [][Next]_vars /\ Fairness

-----------------------------------------------------------------------------
(* Properties *)

\* The types of everything above.
TypeOK ==
    /\ dfat \in [Gran -> 0 .. 255] /\ fat \in [Gran -> 0 .. 255]
    /\ dir \in [1 .. Slots -> Entry \cup {Free, PoolEntry}]
    /\ data \in [Gran -> [1 .. GRAN_SECS -> Int \X Int]]
    /\ ready \in BOOLEAN /\ secbuf \in Int \X Int
    /\ job.pc \in {"idle", "data", "fat", "entry"}
    /\ size \in Seq(Lens) /\ saved \in [Names -> Nat] /\ torn \subseteq Names

\* The chain from granule g spells the whole of a write, sector by sector along
\* the links and to the entry's last byte: what plat_read_all then returns.
Spells(t, e, id) ==
    LET C == Chain(t, e.first)
    IN  /\ data[e.first][1] = <<id, 1>>
        /\ \A g \in C :
              /\ t[g] # None /\ SectorsIn(t[g]) <= GRAN_SECS
              /\ \A s \in 1 .. SectorsIn(t[g]) :
                    data[g][s] = <<id, data[g][1][2] + s - 1>>
              /\ IF IsLast(t[g])
                 THEN size[id] = SEC_SIZE * (data[g][1][2] + SectorsIn(t[g]) - 2) + e.lastb
                 ELSE t[g] \in Gran /\ data[t[g]][1] = <<id, data[g][1][2] + GRAN_SECS>>

\* The write a file holds: 0 for no file, -1 for anything but one whole write.
Holds(t, n) ==
    IF Holding(n) = {} THEN 0
    ELSE LET e  == dir[Lowest(Holding(n))]
             id == IF e.first \in Gran THEN data[e.first][1][1] ELSE -1
         IN  IF id \in DOMAIN size /\ Spells(t, e, id) THEN id ELSE -1

Replacing(n) == job.pc # "idle" /\ job.name = n /\ job.old \in Gran

\* As long as no replacement has been cut short, every file reads back whole
\* as it was last written, by the running machine and by one switched on
\* afresh, whatever failed or was cut short before and at every step of a
\* write of another.
FilesAreWhole ==
    torn = {} => \A n \in Names : ~Replacing(n) =>
        Holds(dfat, n) = saved[n] /\ (ready => Holds(fat, n) = saved[n])

\* A stream gives the file it was opened on, byte for byte and to the last,
\* whatever the screen fetches from the string pool in between.
StreamIsItsFile ==
    st.open /\ torn = {} =>
        /\ st.pure /\ st.heard <= size[st.id]
        /\ st.ended => st.heard = size[st.id]

\* The string pool is never written on and never lost, even when the user's
\* files are: no fault, no torn file and no crossed chain reaches it.
PoolSurvives ==
    /\ dfat[PoolGran] = Last(PoolSecs) /\ Table[PoolGran] = Last(PoolSecs)
    /\ \A s \in 1 .. PoolSecs : data[PoolGran][s] = <<Pool, s>>

\* A write puts exactly as many sectors on the disk as its file has, then the
\* table, then the entry: it follows the chain it claimed to the end and no
\* further, even on a disk whose old chains cross or are torn.  This is the
\* loop of plat_write_all that has no other bound than the chain.
Sectors(len) == (len - 1) \div SEC_SIZE + 1
WritesLeft ==
    CASE job.pc = "idle"  -> 0
      [] job.pc = "entry" -> 1
      [] job.pc = "fat"   -> 2
      [] job.pc = "data"  -> Sectors(job.len) - job.k + 3
WriteRunsDown ==
    [][job.pc # "idle" /\ job' # Idle =>
          WritesLeft' = (IF job' = job THEN WritesLeft ELSE WritesLeft - 1) /\ WritesLeft' > 0]_vars

\* A write ends: the file is entered, or it failed.
WriteEnds == job.pc # "idle" ~> job.pc = "idle"

\* The files behave as core/storage.h has it.
C == INSTANCE Cabinet WITH
        contents <- [n \in Names |-> IF Replacing(n) THEN saved[n] ELSE Holds(dfat, n)]
ImplementsCabinet == C!Spec

\* coco3storage.c:523: a write cut short leaves "granules marked free and
\* nothing pointing at them, which is a leak", never "a directory entry
\* pointing at garbage".
NoEntryPointsAtGarbage ==
    job.pc = "idle" => \A n \in Names : Holds(dfat, n) # -1
=============================================================================
