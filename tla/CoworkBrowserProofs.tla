------------------------- MODULE CoworkBrowserProofs -------------------------
(* Proofs about the timeline of a Cowork job and its browser task, for any    *)
(* number of sessions, clients, events and responses and any page limit.      *)
EXTENDS CoworkBrowser, FiniteSetTheorems, TLAPS

-----------------------------------------------------------------------------
(* The timeline.  One session at most holds numbers that are not committed,   *)
(* and it holds the numbers right above the log: a session that has inserted  *)
(* nothing yet has allocated a number of the log or the first one above it,   *)
(* and waits if another holds that one.                                       *)
Top     == Cardinality(log)
Txns    == [pc : {"idle", "allocated", "flushed"}, next : 0..MaxEvents,
            mine : SUBSET (1..MaxEvents), ends : BOOLEAN]
Streams == [pc : {"closed", "open", "read", "sending", "finished"},
            cursor : 0..MaxEvents, terminal : BOOLEAN, page : SUBSET (1..MaxEvents)]

LastOf(t) == IF t.pc = "allocated" THEN t.next - 1 ELSE t.next

TxnKept(t) ==
  /\ t.pc = "idle" => t = NoTxn
  /\ t.pc = "flushed" => t.mine # {}
  /\ t.pc = "allocated" => t.next \in 1..(Top + 1) \/ t.mine # {}
  /\ t.mine # {} => t.mine = (Top + 1)..LastOf(t)
  /\ t.ends => t.pc = "flushed" /\ endsAt = 0

OneHolder ==
  \A s, t \in Sessions : txn[s].mine # {} /\ txn[t].mine # {} => s = t

(* A stream whose client has n events: its page continues them, and the page  *)
(* of a job that has ended reaches its end when one page can.                 *)
StreamKept(st, n) ==
  /\ n <= Top
  /\ st.pc = "closed" \/ st.cursor = n
  /\ st.terminal => endsAt # 0
  /\ st.pc = "sending" =>
       \E k \in n..Top : /\ st.page = (n + 1)..k
                         /\ st.terminal /\ endsAt <= PageLimit => endsAt <= k
  /\ st.pc = "finished" => st.terminal /\ (endsAt <= PageLimit => endsAt <= n)

TimelineInv ==
  /\ TimelineTypeOK /\ NoGaps /\ endsAt <= Top
  /\ \A s \in Sessions : TxnKept(txn[s])
  /\ OneHolder
  /\ \A c \in Clients : StreamKept(stream[c], Len(got[c]))
  /\ ExactReplay

(* What an interval is made of, and its largest number. *)
LEMMA LatestIs ==
  ASSUME NEW S \in SUBSET Nat, NEW n \in S \cup {0}, n \in Nat,
         \A m \in S : m <= n
  PROVE  Latest(S) = n
<1>1. Latest(S) \in S \cup {0} /\ \A m \in S : m <= Latest(S)
  <2>1. \E r \in S \cup {0} : \A m \in S : m <= r
    OBVIOUS
  <2> QED
    BY <2>1 DEF Latest
<1>2. Latest(S) \in Nat
  <2>1. S \cup {0} \subseteq Nat
    OBVIOUS
  <2> QED
    BY <1>1, <2>1
<1>3. n <= Latest(S) /\ Latest(S) <= n
  BY <1>1, <1>2
<1> QED
  BY <1>2, <1>3

LEMMA CountTo ==
  ASSUME NEW a \in Nat, NEW b \in Nat, a <= b
  PROVE  IsFiniteSet((a + 1)..b) /\ Cardinality((a + 1)..b) = b - a
<1>1. /\ IsFiniteSet((a + 1)..b)
      /\ Cardinality((a + 1)..b) = IF a + 1 > b THEN 0 ELSE b - (a + 1) + 1
  BY FS_Interval
<1>2. CASE a = b
  BY <1>1, <1>2
<1>3. CASE a < b
  BY <1>1, <1>3
<1> QED
  BY <1>2, <1>3

LEMMA LogIs ==
  ASSUME TimelineInv
  PROVE  /\ Top \in Nat /\ log = 1..Top /\ Top <= MaxEvents
         /\ endsAt \in Nat
<1>1. IsFiniteSet(1..MaxEvents) /\ log \in SUBSET (1..MaxEvents)
  BY FS_Interval, TimelineAssumption DEF TimelineInv, TimelineTypeOK
<1>2. Top \in Nat
  BY <1>1, FS_Subset, FS_CardinalityType DEF Top
<1>3. log = 1..Top
  BY DEF TimelineInv, NoGaps, Top
<1>4. Top <= MaxEvents
  <2>1. CASE Top = 0
    BY <2>1, TimelineAssumption
  <2>2. CASE Top # 0
    BY <1>1, <1>2, <1>3, <2>2
  <2> QED
    BY <2>1, <2>2
<1> QED
  BY <1>2, <1>3, <1>4, TimelineAssumption DEF TimelineInv, TimelineTypeOK

LEMMA TimelineTypes ==
  TimelineTypeOK <=>
    /\ log \subseteq 1..MaxEvents /\ endsAt \in 0..MaxEvents
    /\ txn \in [Sessions -> Txns] /\ stream \in [Clients -> Streams]
    /\ got \in [Clients -> Seq(1..MaxEvents)]
BY DEF TimelineTypeOK, Txns, Streams

(* A session changes what it holds, and neither the log nor a stream moves. *)
LEMMA TxnMoves ==
  ASSUME TimelineInv, NEW s \in Sessions, NEW t \in Txns,
         txn' = [txn EXCEPT ![s] = t],
         UNCHANGED <<log, endsAt, stream, got>>,
         TxnKept(t),
         t.mine # {} => \A r \in Sessions \ {s} : txn[r].mine = {}
  PROVE  TimelineInv'
<1>0. Top' = Top
  BY DEF Top
<1>1. \A r \in Sessions : txn'[r] = IF r = s THEN t ELSE txn[r]
  BY DEF TimelineInv, TimelineTypeOK
<1>2. TimelineTypeOK'
  BY TimelineTypes DEF TimelineInv, TimelineTypeOK, Txns
<1>3. \A r \in Sessions : TxnKept(txn[r])'
  BY <1>0, <1>1 DEF TimelineInv, TxnKept, LastOf
<1>4. OneHolder'
  BY <1>1 DEF TimelineInv, OneHolder
<1>5. \A c \in Clients : StreamKept(stream[c], Len(got[c]))'
  BY <1>0 DEF TimelineInv, StreamKept
<1>6. NoGaps' /\ ExactReplay' /\ (endsAt <= Top)'
  BY <1>0 DEF TimelineInv, NoGaps, ExactReplay
<1> QED
  BY <1>2, <1>3, <1>4, <1>5, <1>6 DEF TimelineInv

LEMMA NoTxnKept == NoTxn \in Txns /\ TxnKept(NoTxn) /\ NoTxn.mine = {}
BY TimelineAssumption DEF NoTxn, Txns, TxnKept

LEMMA AllocateKeeps ==
  ASSUME TimelineInv, NEW s \in Sessions, Allocate(s)
  PROVE  TimelineInv'
<1> DEFINE next == Latest(log \cup txn[s].mine) + 1
           t    == [txn[s] EXCEPT !.pc = "allocated", !.next = next]
<1>0. /\ Top \in Nat /\ log = 1..Top /\ Top <= MaxEvents
  BY LogIs
<1>1. txn[s] \in Txns /\ TxnKept(txn[s])
  BY TimelineTypes DEF TimelineInv
<1>2. /\ txn[s].pc \in {"idle", "flushed"} /\ ~txn[s].ends /\ next <= MaxEvents
      /\ UNCHANGED <<log, endsAt, stream, got>>
      /\ txn' = [txn EXCEPT ![s] = t]
  BY DEF Allocate, TimelineInv, TimelineTypeOK
<1>3. CASE txn[s].mine = {}
  <2>1. Latest(log \cup txn[s].mine) = Top
    BY <1>0, <1>3, LatestIs
  <2>2. next \in 1..(Top + 1) /\ next \in 0..MaxEvents
    BY <1>0, <1>2, <2>1
  <2> HIDE DEF next
  <2>3. t \in Txns /\ t.pc = "allocated" /\ t.next = next /\ t.mine = {} /\ t.ends = FALSE
    BY <1>1, <1>2, <1>3, <2>2 DEF Txns
  <2>4. TxnKept(t)
    BY <2>2, <2>3 DEF TxnKept
  <2> HIDE DEF t
  <2> QED
    BY <1>2, <2>3, <2>4, TxnMoves
<1>4. CASE txn[s].mine # {}
  <2> DEFINE k == txn[s].next
  <2>1. txn[s].pc = "flushed" /\ k \in Nat /\ txn[s].mine = (Top + 1)..k
    BY <1>1, <1>2, <1>4 DEF TxnKept, LastOf, NoTxn, Txns
  <2>2. k >= Top + 1
    BY <1>0, <1>4, <2>1
  <2>3. Latest(log \cup txn[s].mine) = k
    BY <1>0, <2>1, <2>2, LatestIs
  <2>4. next = k + 1 /\ next \in 0..MaxEvents
    BY <1>2, <2>1, <2>3
  <2> HIDE DEF next
  <2>5. /\ t \in Txns /\ t.pc = "allocated" /\ t.next = next
        /\ t.mine = (Top + 1)..k /\ t.ends = FALSE
    BY <1>1, <1>2, <2>1, <2>4 DEF Txns
  <2>6. TxnKept(t)
    <3> HIDE DEF t
    <3>1. t.next - 1 = k
      BY <2>1, <2>4, <2>5
    <3> QED
      BY <1>4, <2>1, <2>5, <3>1 DEF TxnKept, LastOf
  <2>7. \A r \in Sessions \ {s} : txn[r].mine = {}
    BY <1>4 DEF TimelineInv, OneHolder
  <2> HIDE DEF t
  <2> QED
    BY <1>2, <2>5, <2>6, <2>7, TxnMoves
<1> QED
  BY <1>3, <1>4

(* The number inserted is the first above the log and above what the session  *)
(* holds; whoever else had numbers would hold that one.                       *)
LEMMA InsertKeeps ==
  ASSUME TimelineInv, NEW s \in Sessions, Insert(s)
  PROVE  TimelineInv'
<1> DEFINE n == txn[s].next
<1>0. Top \in Nat /\ log = 1..Top
  BY LogIs
<1>1. txn[s] \in Txns /\ TxnKept(txn[s])
  BY TimelineTypes DEF TimelineInv
<1>2. txn[s].pc = "allocated" /\ ~Waits(s) /\ UNCHANGED <<log, endsAt, stream, got>>
  BY DEF Insert
<1>3. CASE n \in log
  BY <1>2, <1>3, NoTxnKept, TxnMoves DEF Insert
<1>4. CASE n \notin log
  <2>1. PICK ends \in {FALSE} \cup {endsAt = 0} :
          txn' = [txn EXCEPT ![s].pc = "flushed", ![s].ends = ends,
                             ![s].mine = @ \cup {txn[s].next}]
    BY <1>4 DEF Insert
  <2> DEFINE mine == txn[s].mine \cup {n}
             t    == [txn[s] EXCEPT !.pc = "flushed", !.ends = ends, !.mine = mine]
  <2>2. txn' = [txn EXCEPT ![s] = t]
    BY <2>1 DEF TimelineInv, TimelineTypeOK
  <2>3. mine = (Top + 1)..n /\ mine # {} /\ n \in 1..MaxEvents
    <3>1. CASE txn[s].mine = {}
      <4>1. n = Top + 1 /\ n <= MaxEvents
        BY <1>0, <1>1, <1>2, <1>4, <3>1 DEF TxnKept, Txns
      <4>2. mine = {n}
        BY <3>1
      <4> QED
        BY <1>0, <4>1, <4>2
    <3>2. CASE txn[s].mine # {}
      <4>1. /\ txn[s].mine = (Top + 1)..(n - 1) /\ n \in 0..MaxEvents
        BY <1>1, <1>2, <3>2 DEF TxnKept, LastOf, Txns
      <4>2. n - 1 >= Top + 1
        BY <1>0, <3>2, <4>1
      <4> QED
        BY <1>0, <4>1, <4>2, TimelineAssumption
    <3> QED
      BY <3>1, <3>2
  <2>4. \A r \in Sessions \ {s} : txn[r].mine = {}
    <3> SUFFICES ASSUME NEW r \in Sessions \ {s}, txn[r].mine # {}
                 PROVE  FALSE
      OBVIOUS
    <3>1. txn[s].mine = {}
      BY DEF TimelineInv, OneHolder
    <3>2. n = Top + 1
      BY <1>0, <1>1, <1>2, <1>4, <3>1 DEF TxnKept, Txns
    <3>3. txn[r].mine = (Top + 1)..LastOf(txn[r]) /\ txn[r] \in Txns
      BY TimelineTypes DEF TimelineInv, TxnKept
    <3>4. LastOf(txn[r]) \in Int
      BY <3>3, TimelineAssumption DEF LastOf, Txns
    <3>5. n \in txn[r].mine
      BY <1>0, <3>2, <3>3, <3>4
    <3> QED
      BY <1>2, <3>5 DEF Waits
  <2>5. ends \in BOOLEAN /\ (ends => endsAt = 0)
    BY <2>1
  <2>6. t \in Txns /\ t.pc = "flushed" /\ t.ends = ends /\ t.mine = mine /\ t.next = n
    <3>1. mine \in SUBSET (1..MaxEvents)
      BY <1>1, <2>3 DEF Txns
    <3> HIDE DEF mine
    <3> QED
      BY <1>1, <2>5, <3>1 DEF Txns
  <2>7. TxnKept(t)
    <3> HIDE DEF t
    <3> QED
      BY <2>3, <2>5, <2>6 DEF TxnKept, LastOf
  <2> HIDE DEF t
  <2> QED
    BY <1>2, <2>2, <2>4, <2>6, <2>7, TxnMoves
<1> QED
  BY <1>3, <1>4

LEMMA AbandonKeeps ==
  ASSUME TimelineInv, NEW s \in Sessions, Abandon(s)
  PROVE  TimelineInv'
BY NoTxnKept, TxnMoves DEF Abandon

-----------------------------------------------------------------------------
(* What a commit adds to the log: it goes from one top to a higher one. *)
LEMMA CommitAdds ==
  ASSUME TimelineInv, NEW s \in Sessions, CommitEvents(s)
  PROVE  /\ log' = 1..Top' /\ Top' \in Nat /\ Top' > Top /\ Top' <= MaxEvents
         /\ txn[s].mine = (Top + 1)..Top'
         /\ txn[s].mine # {}
<1> DEFINE k == txn[s].next
<1>0. /\ Top \in Nat /\ log = 1..Top /\ Top <= MaxEvents
  BY LogIs
<1>1. txn[s] \in Txns /\ TxnKept(txn[s]) /\ txn[s].pc = "flushed"
  BY TimelineTypes DEF TimelineInv, CommitEvents
<1>2. txn[s].mine = (Top + 1)..k /\ txn[s].mine # {} /\ k \in 0..MaxEvents
  BY <1>1 DEF TxnKept, LastOf, Txns
<1>3. k \in Nat /\ k > Top /\ k <= MaxEvents
  BY <1>0, <1>2, TimelineAssumption
<1>4. log' = 1..k
  BY <1>0, <1>2, <1>3 DEF CommitEvents
<1>5. Top' = k
  BY <1>3, <1>4, FS_Interval DEF Top
<1> QED
  BY <1>2, <1>3, <1>4, <1>5

LEMMA CommitKeeps ==
  ASSUME TimelineInv, NEW s \in Sessions, CommitEvents(s)
  PROVE  TimelineInv'
<1>0. /\ Top \in Nat /\ log = 1..Top /\ endsAt \in Nat /\ endsAt <= Top
  BY LogIs DEF TimelineInv
<1>1. /\ log' = 1..Top' /\ Top' \in Nat /\ Top' > Top /\ Top' <= MaxEvents
      /\ txn[s].mine = (Top + 1)..Top' /\ txn[s].mine # {}
  BY CommitAdds
<1>2. \A r \in Sessions : txn'[r] = IF r = s THEN NoTxn ELSE txn[r]
  BY DEF CommitEvents, TimelineInv, TimelineTypeOK
<1>3. /\ endsAt' = IF txn[s].ends THEN Top' ELSE endsAt
      /\ endsAt' = endsAt \/ endsAt = 0
  <2>1. Latest(txn[s].mine) = Top'
    BY <1>0, <1>1, LatestIs
  <2>2. TxnKept(txn[s])
    BY DEF TimelineInv
  <2> QED
    BY <2>1, <2>2 DEF CommitEvents, TxnKept
<1>4. TimelineTypeOK'
  <2>1. txn' \in [Sessions -> Txns]
    BY NoTxnKept, TimelineTypes DEF CommitEvents, TimelineInv
  <2>2. endsAt' \in 0..MaxEvents
    BY <1>0, <1>1, <1>3, TimelineAssumption
  <2>3. log' \subseteq 1..MaxEvents
    BY <1>1, TimelineAssumption
  <2> QED
    BY <2>1, <2>2, <2>3 DEF CommitEvents, TimelineInv, TimelineTypeOK, Txns
<1>5. \A r \in Sessions : TxnKept(txn[r])'
  <2> SUFFICES ASSUME NEW r \in Sessions PROVE TxnKept(txn[r])'
    OBVIOUS
  <2>1. CASE r = s
    BY <1>2, <2>1 DEF TxnKept, NoTxn
  <2>2. CASE r # s
    <3>1. txn'[r] = txn[r] /\ txn[r].mine = {} /\ TxnKept(txn[r]) /\ txn[r] \in Txns
      BY <1>1, <1>2, <2>2, TimelineTypes DEF TimelineInv, OneHolder
    <3>2. txn[r].pc = "allocated" => txn[r].next \in 1..(Top' + 1)
      BY <1>0, <1>1, <3>1 DEF TxnKept
    <3>3. txn[r].ends = FALSE
      BY <3>1 DEF TxnKept, Txns
    <3> QED
      BY <3>1, <3>2, <3>3 DEF TxnKept
  <2> QED
    BY <2>1, <2>2
<1>6. OneHolder'
  BY <1>2 DEF TimelineInv, OneHolder, NoTxn
<1>7. \A c \in Clients : StreamKept(stream[c], Len(got[c]))'
  <2> SUFFICES ASSUME NEW c \in Clients PROVE StreamKept(stream[c], Len(got[c]))'
    OBVIOUS
  <2> DEFINE st == stream[c]
             n  == Len(got[c])
  <2>1. /\ StreamKept(st, n) /\ n \in Nat /\ st' = st /\ n' = n
    <3>1. got[c] \in Seq(1..MaxEvents)
      BY DEF TimelineInv, TimelineTypeOK
    <3> QED
      BY <3>1 DEF CommitEvents, TimelineInv
  <2>2. n <= Top' /\ (st.terminal => endsAt' = endsAt /\ endsAt' # 0)
    BY <1>0, <1>1, <1>3, <2>1 DEF StreamKept
  <2>3. st.pc = "sending" =>
          \E k \in n..Top' : /\ st.page = (n + 1)..k
                             /\ st.terminal /\ endsAt' <= PageLimit => endsAt' <= k
    BY <1>0, <1>1, <2>1, <2>2 DEF StreamKept
  <2> QED
    BY <2>1, <2>2, <2>3 DEF StreamKept
<1>8. NoGaps' /\ ExactReplay' /\ (endsAt <= Top)'
  <2>1. NoGaps'
    BY <1>1 DEF NoGaps, Top
  <2>2. ExactReplay'
    BY DEF ExactReplay, CommitEvents, TimelineInv
  <2>3. (endsAt <= Top)'
    BY <1>0, <1>1, <1>3
  <2> QED
    BY <2>1, <2>2, <2>3
<1> QED
  BY <1>4, <1>5, <1>6, <1>7, <1>8 DEF TimelineInv

-----------------------------------------------------------------------------
(* A stream moves, with what its client has received. *)
LEMMA StreamMoves ==
  ASSUME TimelineInv, NEW c \in Clients, NEW st \in Streams,
         NEW g \in Seq(1..MaxEvents),
         stream' = [stream EXCEPT ![c] = st], got' = [got EXCEPT ![c] = g],
         UNCHANGED <<log, endsAt, txn>>,
         StreamKept(st, Len(g)), g = [i \in 1..Len(g) |-> i]
  PROVE  TimelineInv'
<1>0. Top' = Top
  BY DEF Top
<1>1. \A d \in Clients : /\ stream'[d] = IF d = c THEN st ELSE stream[d]
                         /\ got'[d] = IF d = c THEN g ELSE got[d]
  BY DEF TimelineInv, TimelineTypeOK
<1>2. TimelineTypeOK'
  <2>1. stream' \in [Clients -> Streams] /\ got' \in [Clients -> Seq(1..MaxEvents)]
    BY TimelineTypes DEF TimelineInv
  <2> QED
    BY <2>1 DEF TimelineInv, TimelineTypeOK, Streams
<1>3. \A s \in Sessions : TxnKept(txn[s])'
  BY <1>0 DEF TimelineInv, TxnKept
<1>4. \A d \in Clients : StreamKept(stream[d], Len(got[d]))'
  BY <1>0, <1>1 DEF TimelineInv, StreamKept
<1>5. ExactReplay'
  BY <1>1 DEF TimelineInv, ExactReplay
<1>6. OneHolder' /\ NoGaps' /\ (endsAt <= Top)'
  BY <1>0 DEF TimelineInv, OneHolder, NoGaps
<1> QED
  BY <1>2, <1>3, <1>4, <1>5, <1>6 DEF TimelineInv

LEMMA StreamOf ==
  ASSUME TimelineInv, NEW c \in Clients
  PROVE  /\ stream[c] \in Streams /\ got[c] \in Seq(1..MaxEvents)
         /\ StreamKept(stream[c], Len(got[c]))
         /\ got[c] = [i \in 1..Len(got[c]) |-> i]
         /\ Len(got[c]) \in 0..Top /\ Top \in Nat /\ Top <= MaxEvents
         /\ endsAt \in 0..Top /\ MaxEvents \in Nat
         /\ got = [got EXCEPT ![c] = got[c]]
<1>1. /\ stream[c] \in Streams /\ got[c] \in Seq(1..MaxEvents)
      /\ StreamKept(stream[c], Len(got[c]))
      /\ got[c] = [i \in 1..Len(got[c]) |-> i]
  BY TimelineTypes DEF TimelineInv, ExactReplay
<1>2. Len(got[c]) \in Nat /\ Len(got[c]) <= Top
  BY <1>1 DEF StreamKept
<1>3. got = [got EXCEPT ![c] = got[c]]
  BY DEF TimelineInv, TimelineTypeOK
<1> QED
  BY <1>1, <1>2, <1>3, LogIs, TimelineAssumption DEF TimelineInv

(* A page is the next numbers, as many as fit and are there. *)
LEMMA PageIs ==
  ASSUME TimelineInv, NEW n \in 0..Top
  PROVE  \E k \in n..Top : /\ Page(n) = (n + 1)..k
                           /\ k = Top \/ k = n + PageLimit
<1>0. Top \in Nat /\ log = 1..Top /\ PageLimit \in Nat \ {0} /\ n \in Nat
  BY LogIs, TimelineAssumption
<1> DEFINE after == {e \in log : e > n}
<1>1. after = (n + 1)..Top
  BY <1>0
<1>2. ASSUME NEW e \in after
      PROVE  Cardinality({d \in after : d < e}) = e - 1 - n
  <2>1. e - 1 \in Nat /\ n <= e - 1 /\ e <= Top
    BY <1>0, <1>1, <1>2
  <2>2. {d \in after : d < e} = (n + 1)..(e - 1)
    BY <1>0, <1>1, <2>1
  <2> QED
    BY <1>0, <2>1, <2>2, CountTo
<1>3. Page(n) = {e \in after : e - 1 - n < PageLimit}
  <2>1. Page(n) = {e \in after : Cardinality({d \in after : d < e}) < PageLimit}
    BY DEF Page
  <2> HIDE DEF after
  <2> QED
    BY <1>2, <2>1
<1>4. CASE Top <= n + PageLimit
  <2>1. Page(n) = (n + 1)..Top
    BY <1>0, <1>1, <1>3, <1>4
  <2> QED
    BY <1>0, <2>1
<1>5. CASE Top > n + PageLimit
  <2>1. Page(n) = (n + 1)..(n + PageLimit)
    BY <1>0, <1>1, <1>3, <1>5
  <2> QED
    BY <1>0, <1>5, <2>1
<1> QED
  BY <1>0, <1>4, <1>5

LEMMA ClientKeeps ==
  ASSUME TimelineInv, NEW c \in Clients,
         \/ Connect(c) \/ ReadJob(c) \/ ListEvents(c)
         \/ Send(c) \/ EndPage(c) \/ Drop(c)
  PROVE  TimelineInv'
<1> DEFINE st == stream[c]
           n  == Len(got[c])
<1>0. /\ st \in Streams /\ got[c] \in Seq(1..MaxEvents) /\ StreamKept(st, n)
      /\ got[c] = [i \in 1..n |-> i] /\ n \in 0..Top /\ Top \in Nat
      /\ Top <= MaxEvents /\ endsAt \in 0..Top /\ MaxEvents \in Nat
      /\ got = [got EXCEPT ![c] = got[c]]
  BY StreamOf
<1>t. stream \in [Clients -> Streams] /\ UNCHANGED <<log, endsAt, txn>>
  BY TimelineTypes
     DEF TimelineInv, Connect, ReadJob, ListEvents, Send, EndPage, Drop
<1>1. CASE Connect(c)
  <2> DEFINE last == IF got[c] = <<>> THEN 0 ELSE got[c][Len(got[c])]
             new  == [NoStream EXCEPT !.pc = "open", !.cursor = last]
  <2>1. last = n
    <3>1. CASE got[c] = <<>>
      BY <3>1
    <3>2. CASE got[c] # <<>>
      <4>1. n \in 1..n
        BY <1>0, <3>2
      <4> QED
        BY <1>0, <3>2, <4>1
    <3> QED
      BY <3>1, <3>2
  <2>2. stream' = [stream EXCEPT ![c] = new] /\ got' = got
    BY <1>1 DEF Connect
  <2> HIDE DEF last
  <2>3. new \in Streams /\ new.pc = "open" /\ new.cursor = n /\ new.terminal = FALSE
    <3>1. NoStream \in Streams /\ NoStream.terminal = FALSE
      BY <1>0 DEF NoStream, Streams
    <3>2. last \in 0..MaxEvents
      BY <1>0, <2>1
    <3> QED
      BY <2>1, <3>1, <3>2 DEF Streams
  <2> HIDE DEF new
  <2>4. StreamKept(new, n)
    BY <1>0, <2>3 DEF StreamKept
  <2> QED
    BY <1>0, <1>t, <2>2, <2>3, <2>4, StreamMoves
<1>2. CASE ReadJob(c)
  <2> DEFINE new == [st EXCEPT !.pc = "read", !.terminal = (endsAt # 0)]
  <2>1. stream' = [stream EXCEPT ![c] = new] /\ got' = got /\ st.pc = "open"
    BY <1>2, <1>t DEF ReadJob
  <2>2. /\ new \in Streams /\ new.pc = "read" /\ new.cursor = st.cursor
        /\ new.terminal = (endsAt # 0)
    BY <1>0 DEF Streams
  <2> HIDE DEF new
  <2>3. StreamKept(new, n)
    BY <1>0, <2>1, <2>2 DEF StreamKept
  <2> QED
    BY <1>0, <1>t, <2>1, <2>2, <2>3, StreamMoves
<1>3. CASE ListEvents(c)
  <2> DEFINE page == Page(st.cursor)
             new  == [st EXCEPT !.pc = "sending", !.page = page]
  <2>1. stream' = [stream EXCEPT ![c] = new] /\ got' = got /\ st.pc = "read"
    BY <1>3, <1>t DEF ListEvents
  <2>2. st.cursor = n
    BY <1>0, <2>1 DEF StreamKept
  <2>3. PICK k \in n..Top : page = (n + 1)..k /\ (k = Top \/ k = n + PageLimit)
    BY <1>0, <2>2, PageIs
  <2>4. page \in SUBSET (1..MaxEvents)
    BY <1>0, <2>3
  <2> HIDE DEF page
  <2>5. /\ new \in Streams /\ new.pc = "sending" /\ new.cursor = n
        /\ new.terminal = st.terminal /\ new.page = page
    BY <1>0, <2>2, <2>4 DEF Streams
  <2> HIDE DEF new
  <2>6. endsAt <= PageLimit => endsAt <= k
    BY <1>0, <2>3, TimelineAssumption
  <2>7. StreamKept(new, n)
    BY <1>0, <2>3, <2>5, <2>6 DEF StreamKept
  <2> QED
    BY <1>0, <1>t, <2>1, <2>5, <2>7, StreamMoves
<1>4. CASE Send(c)
  <2>1. PICK e \in st.page :
          /\ \A d \in st.page : e <= d
          /\ stream' = [stream EXCEPT ![c].cursor = e, ![c].page = @ \ {e}]
          /\ got' = [got EXCEPT ![c] = Append(@, e)]
    BY <1>4 DEF Send
  <2>2. st.pc = "sending"
    BY <1>4 DEF Send
  <2>3. PICK k \in n..Top : /\ st.page = (n + 1)..k
                            /\ st.terminal /\ endsAt <= PageLimit => endsAt <= k
    BY <1>0, <2>2 DEF StreamKept
  <2>4. e = n + 1 /\ k \in (n + 1)..Top /\ e \in 1..MaxEvents
    <3>1. e \in (n + 1)..k
      BY <2>3
    <3>2. n + 1 \in st.page
      BY <1>0, <2>3, <3>1
    <3>3. e <= n + 1
      BY <2>1, <3>2
    <3> QED
      BY <1>0, <3>1, <3>3
  <2> DEFINE page == st.page \ {e}
             new  == [st EXCEPT !.cursor = e, !.page = page]
             g    == Append(got[c], e)
  <2>5. stream' = [stream EXCEPT ![c] = new]
    BY <1>t, <2>1
  <2>6. page = (e + 1)..k /\ page \in SUBSET (1..MaxEvents)
    BY <1>0, <2>3, <2>4
  <2>7. g \in Seq(1..MaxEvents) /\ Len(g) = n + 1 /\ g = [i \in 1..(n + 1) |-> i]
    BY <1>0, <2>4
  <2> HIDE DEF page
  <2>8. /\ new \in Streams /\ new.pc = "sending" /\ new.cursor = e
        /\ new.terminal = st.terminal /\ new.page = page
    <3>1. e \in 0..MaxEvents
      BY <2>4
    <3> QED
      BY <1>0, <2>2, <2>6, <3>1 DEF Streams
  <2> HIDE DEF new
  <2>9. StreamKept(new, n + 1)
    BY <1>0, <2>3, <2>4, <2>6, <2>8 DEF StreamKept
  <2>10. got' = [got EXCEPT ![c] = g]
    BY <2>1
  <2> HIDE DEF g
  <2> QED
    BY <1>t, <2>5, <2>7, <2>8, <2>9, <2>10, StreamMoves
<1>5. CASE EndPage(c)
  <2> DEFINE to  == IF st.terminal THEN "finished" ELSE "open"
             new == [st EXCEPT !.pc = to]
  <2>1. /\ stream' = [stream EXCEPT ![c] = new] /\ got' = got
        /\ st.pc = "sending" /\ st.page = {}
    BY <1>5, <1>t DEF EndPage
  <2>2. /\ new \in Streams /\ new.pc = to /\ new.cursor = st.cursor
        /\ new.terminal = st.terminal
    BY <1>0 DEF Streams
  <2>3. st.terminal /\ endsAt <= PageLimit => endsAt <= n
    <3>1. PICK k \in n..Top : /\ st.page = (n + 1)..k
                              /\ st.terminal /\ endsAt <= PageLimit => endsAt <= k
      BY <1>0, <2>1 DEF StreamKept
    <3>2. k > n => n + 1 \in st.page
      BY <1>0, <3>1
    <3>3. k = n
      BY <1>0, <2>1, <3>1, <3>2
    <3> QED
      BY <3>1, <3>3
  <2> HIDE DEF new
  <2>4. StreamKept(new, n)
    BY <1>0, <2>1, <2>2, <2>3 DEF StreamKept
  <2> QED
    BY <1>0, <1>t, <2>1, <2>2, <2>4, StreamMoves
<1>6. CASE Drop(c)
  <2>1. stream' = [stream EXCEPT ![c] = NoStream] /\ got' = got
    BY <1>6 DEF Drop
  <2>2. NoStream \in Streams /\ NoStream.pc = "closed" /\ NoStream.terminal = FALSE
    BY <1>0 DEF NoStream, Streams
  <2>3. StreamKept(NoStream, n)
    BY <1>0, <2>2 DEF StreamKept
  <2> QED
    BY <1>0, <1>t, <2>1, <2>2, <2>3, StreamMoves
<1> QED
  BY <1>1, <1>2, <1>3, <1>4, <1>5, <1>6

-----------------------------------------------------------------------------
(* Every step of a session or a client is a step of the timeline or leaves it *)
(* alone, whatever the handlers of the browser task do beside it.             *)
LEMMA TimelineInitially == BrowserInit => TimelineInv
<1> SUFFICES ASSUME BrowserInit PROVE TimelineInv
  OBVIOUS
<1>1. log = {} /\ endsAt = 0 /\ txn = [s \in Sessions |-> NoTxn]
  BY DEF BrowserInit, TimelineInit
<1>2. stream = [c \in Clients |-> NoStream] /\ got = [c \in Clients |-> <<>>]
  BY DEF BrowserInit, TimelineInit
<1>3. Top = 0
  BY <1>1, FS_EmptySet DEF Top
<1>4. NoGaps
  BY <1>1, FS_EmptySet DEF NoGaps
<1>5. NoStream \in Streams /\ NoStream.pc = "closed" /\ NoStream.terminal = FALSE
  BY TimelineAssumption DEF NoStream, Streams
<1>6. TimelineTypeOK
  <2>1. txn \in [Sessions -> Txns] /\ stream \in [Clients -> Streams]
    BY <1>1, <1>2, <1>5, NoTxnKept
  <2>2. got \in [Clients -> Seq(1..MaxEvents)]
    BY <1>2
  <2>3. endsAt \in 0..MaxEvents
    BY <1>1, TimelineAssumption
  <2> QED
    BY <1>1, <2>1, <2>2, <2>3, TimelineTypes
<1>7. \A s \in Sessions : txn[s] = NoTxn
  BY <1>1
<1>8. (\A s \in Sessions : TxnKept(txn[s])) /\ OneHolder
  BY <1>7, NoTxnKept DEF OneHolder
<1>9. \A c \in Clients : StreamKept(stream[c], Len(got[c])) /\ Len(got[c]) = 0
  BY <1>2, <1>3, <1>5 DEF StreamKept
<1>10. ExactReplay
  BY <1>2 DEF ExactReplay
<1> QED
  BY <1>1, <1>3, <1>4, <1>6, <1>8, <1>9, <1>10 DEF TimelineInv

LEMMA TimelineSame ==
  ASSUME TimelineInv, UNCHANGED timeline
  PROVE  TimelineInv'
<1>1. Top' = Top
  BY DEF Top, timeline
<1> QED
  BY <1>1 DEF timeline, TimelineInv, TimelineTypeOK, NoGaps, TxnKept, OneHolder,
              StreamKept, ExactReplay

LEMMA TimelineStep ==
  ASSUME [BrowserNext]_browserVars
  PROVE  \/ UNCHANGED timeline
         \/ \E s \in Sessions :
              Allocate(s) \/ Insert(s) \/ CommitEvents(s) \/ Abandon(s)
         \/ \E c \in Clients :
              \/ Connect(c) \/ ReadJob(c) \/ ListEvents(c)
              \/ Send(c) \/ EndPage(c) \/ Drop(c)
BY DEF BrowserNext, browserVars, Receive, Answer, Refuse, Append1, OtherSession, Client

LEMMA TimelineNext == TimelineInv /\ [BrowserNext]_browserVars => TimelineInv'
BY TimelineStep, TimelineSame, AllocateKeeps, InsertKeeps, CommitKeeps,
   AbandonKeeps, ClientKeeps

LEMMA TimelineAlways == BrowserSpec => []TimelineInv
BY TimelineInitially, TimelineNext, PTL DEF BrowserSpec

(* The committed numbers are 1, 2, 3, ... without a gap, although each        *)
(* session computes the number of its next event from what it can see.        *)
THEOREM NumbersWithoutGaps == BrowserSpec => []NoGaps
<1>1. TimelineInv => NoGaps
  BY DEF TimelineInv
<1> QED
  BY <1>1, TimelineAlways, PTL

(* A client has received the first events of the job, each once and in order, *)
(* over however many streams it opened and lost.                              *)
THEOREM ReplaysExactly == BrowserSpec => []ExactReplay
<1>1. TimelineInv => ExactReplay
  BY DEF TimelineInv
<1> QED
  BY <1>1, TimelineAlways, PTL

(* job_finished reaches a client only when it has every event up to the one   *)
(* that ended the job, for every job whose events one page can hold.          *)
THEOREM FinishedHasAll == BrowserSpec => []FinishedMeansComplete
<1>1. ASSUME TimelineInv PROVE FinishedMeansComplete
  <2> SUFFICES ASSUME NEW c \in Clients, stream[c].pc = "finished",
                      endsAt <= PageLimit
               PROVE  Len(got[c]) >= endsAt
    BY DEF FinishedMeansComplete
  <2>1. endsAt <= Len(got[c]) /\ Len(got[c]) \in Nat /\ endsAt \in Nat
    <3>1. /\ StreamKept(stream[c], Len(got[c])) /\ Len(got[c]) \in 0..Top
          /\ Top \in Nat /\ endsAt \in 0..Top
      BY <1>1, StreamOf
    <3> QED
      BY <3>1 DEF StreamKept
  <2> QED
    BY <2>1
<1> QED
  BY <1>1, TimelineAlways, PTL

-----------------------------------------------------------------------------
(* The browser task and the requests for it. *)
TaskTypeOK ==
  /\ task \in Tasks
  /\ serving \in [Sessions -> [old : Tasks, new : Tasks, active : BOOLEAN]]

LEMMA NewTaskType ==
  /\ NewTask \in Tasks
  /\ NoRequest \in [old : Tasks, new : Tasks, active : BOOLEAN]
  /\ NoRequest.active = FALSE
<1>1. NewTask \in Tasks
  BY DEF NewTask, Tasks, TaskStates
<1> QED
  BY <1>1 DEF NoRequest

(* What a handler makes of a task is a task, and it keeps a response.  *)
HandlerKeeps(t, new) ==
  /\ new \in Tasks
  /\ t.response # "none" /\ t.completed => new.response = t.response /\ new.completed
  /\ new.response # "none" /\ ~new.completed => t.response # "none" /\ ~t.completed

LEMMA HandlersKeep ==
  ASSUME NEW t \in Tasks
  PROVE  /\ HandlerKeeps(t, Acknowledged(t))
         /\ \A p \in TaskStates : HandlerKeeps(t, Progressed(t, p))
         /\ \A d \in Deliveries, p \in TaskStates : HandlerKeeps(t, Completed(t, d, p))
<1>1. HandlerKeeps(t, Acknowledged(t))
  BY DEF HandlerKeeps, Acknowledged, Tasks, TaskStates
<1>2. ASSUME NEW p \in TaskStates PROVE HandlerKeeps(t, Progressed(t, p))
  BY DEF HandlerKeeps, Progressed, Tasks
<1>3. ASSUME NEW d \in Deliveries, NEW p \in TaskStates
      PROVE  HandlerKeeps(t, Completed(t, d, p))
  BY DEF HandlerKeeps, Completed, Tasks
<1> QED
  BY <1>1, <1>2, <1>3

LEMMA Received ==
  ASSUME TaskTypeOK, NEW s \in Sessions, Receive(s)
  PROVE  \E new \in Tasks :
           /\ HandlerKeeps(task, new)
           /\ serving' = [serving EXCEPT ![s] = [old |-> task, new |-> new,
                                                 active |-> TRUE]]
           /\ UNCHANGED task
<1>1. PICK new \in {Acknowledged(task)}
            \cup {Progressed(task, p) : p \in {"acknowledged", "composing", "streaming"}}
            \cup UNION {{Completed(task, d, p) : p \in Delivered} : d \in Deliveries} :
        /\ new # task
        /\ serving' = [serving EXCEPT ![s] = [old |-> task, new |-> new, active |-> TRUE]]
  BY DEF Receive
<1>2. HandlerKeeps(task, new)
  <2>1. {"acknowledged", "composing", "streaming"} \subseteq TaskStates
        /\ Delivered \subseteq TaskStates
    BY DEF TaskStates
  <2>2. task \in Tasks
    BY DEF TaskTypeOK
  <2> QED
    BY <2>1, <2>2, HandlersKeep
<1>3. new \in Tasks /\ UNCHANGED task
  BY <1>2 DEF HandlerKeeps, Receive
<1> QED
  BY <1>1, <1>2, <1>3

LEMMA TaskTypeNext == TaskTypeOK /\ [BrowserNext]_browserVars => TaskTypeOK'
<1> SUFFICES ASSUME TaskTypeOK, [BrowserNext]_browserVars PROVE TaskTypeOK'
  OBVIOUS
<1>1. ASSUME NEW s \in Sessions, Receive(s) PROVE TaskTypeOK'
  <2>1. PICK new \in Tasks :
          /\ serving' = [serving EXCEPT ![s] = [old |-> task, new |-> new, active |-> TRUE]]
          /\ UNCHANGED task
    BY <1>1, Received
  <2> QED
    BY <2>1 DEF TaskTypeOK
<1>2. ASSUME NEW s \in Sessions, Answer(s) PROVE TaskTypeOK'
  <2>1. serving[s].old \in Tasks /\ serving[s].new \in Tasks
    BY DEF TaskTypeOK
  <2>2. task' \in Tasks
    BY <1>2, <2>1 DEF Answer, Column, TaskTypeOK, Tasks
  <2>3. serving' = [serving EXCEPT ![s] = NoRequest]
    BY <1>2 DEF Answer
  <2> QED
    BY <2>2, <2>3, NewTaskType DEF TaskTypeOK
<1>3. ASSUME NEW s \in Sessions, Refuse(s) PROVE TaskTypeOK'
  BY <1>3, NewTaskType DEF Refuse, TaskTypeOK
<1>4. CASE UNCHANGED browser
  BY <1>4 DEF browser, TaskTypeOK
<1> QED
  BY <1>1, <1>2, <1>3, <1>4 DEF BrowserNext, browserVars, Append1, OtherSession, Client

LEMMA TaskTypeAlways == BrowserSpec => []TaskTypeOK
<1>1. BrowserInit => TaskTypeOK
  BY NewTaskType DEF BrowserInit, TaskTypeOK
<1> QED
  BY <1>1, TaskTypeNext, PTL DEF BrowserSpec

(* The timeline, the streams and the browser task keep their types. *)
THEOREM BrowserTypeCorrect == BrowserSpec => []BrowserTypeOK
<1>1. TimelineInv /\ TaskTypeOK => BrowserTypeOK
  BY DEF TimelineInv, TaskTypeOK, BrowserTypeOK
<1> QED
  BY <1>1, TimelineAlways, TaskTypeAlways, PTL

(* One request at a time: its copy is the row, and what it will write keeps a *)
(* response that is in.                                                       *)
ServedAlone ==
  /\ \A s, t \in Sessions : serving[s].active /\ serving[t].active => s = t
  /\ task.response # "none" => task.completed
  /\ \A s \in Sessions :
       serving[s].active => /\ serving[s].old = task
                            /\ HandlerKeeps(task, serving[s].new)

(* The columns a fresh copy writes make the row what the copy is. *)
LEMMA AnswerWrites ==
  ASSUME TaskTypeOK, ServedAlone, NEW s \in Sessions, Answer(s)
  PROVE  task' = serving[s].new /\ HandlerKeeps(task, task')
<1>1. serving[s].active /\ serving[s].old = task /\ HandlerKeeps(task, serving[s].new)
  BY DEF Answer, ServedAlone
<1>2. serving[s].new \in Tasks /\ task \in Tasks
  BY DEF TaskTypeOK
<1>3. task' = [state |-> serving[s].new.state, completed |-> serving[s].new.completed,
               response |-> serving[s].new.response]
  BY <1>1 DEF Answer, Column
<1>4. task' = serving[s].new
  BY <1>2, <1>3 DEF Tasks
<1> QED
  BY <1>1, <1>4

LEMMA ServedNext ==
  ASSUME ~Overlapping, TaskTypeOK, ServedAlone, [BrowserNext]_browserVars
  PROVE  ServedAlone'
<1>1. ASSUME NEW s \in Sessions, Receive(s) PROVE ServedAlone'
  <2>1. PICK new \in Tasks :
          /\ HandlerKeeps(task, new)
          /\ serving' = [serving EXCEPT ![s] = [old |-> task, new |-> new, active |-> TRUE]]
          /\ UNCHANGED task
    BY <1>1, Received
  <2>2. \A t \in Sessions : ~serving[t].active
    BY <1>1 DEF Receive
  <2>3. \A t \in Sessions : serving'[t].active => t = s
    BY <2>1, <2>2 DEF TaskTypeOK
  <2>4. serving'[s].old = task' /\ HandlerKeeps(task', serving'[s].new)
    BY <2>1 DEF TaskTypeOK
  <2> QED
    BY <2>1, <2>3, <2>4 DEF ServedAlone, HandlerKeeps
<1>2. ASSUME NEW s \in Sessions, Answer(s) PROVE ServedAlone'
  <2>1. task' = serving[s].new /\ HandlerKeeps(task, task')
    BY <1>2, AnswerWrites
  <2>2. \A t \in Sessions : ~serving'[t].active
    BY <1>2, NewTaskType DEF Answer, ServedAlone, TaskTypeOK
  <2> QED
    BY <2>1, <2>2 DEF ServedAlone, HandlerKeeps
<1>3. ASSUME NEW s \in Sessions, Refuse(s) PROVE ServedAlone'
  BY <1>3, NewTaskType DEF Refuse, ServedAlone, TaskTypeOK, HandlerKeeps
<1>4. CASE UNCHANGED browser
  BY <1>4 DEF browser, ServedAlone, HandlerKeeps
<1> QED
  BY <1>1, <1>2, <1>3, <1>4 DEF BrowserNext, browserVars, Append1, OtherSession, Client

(* While the requests for the task do not overlap, the response that was      *)
(* delivered first stays, however often and in whatever state the Companion   *)
(* delivers, acknowledges or reports progress again.                          *)
THEOREM FirstResponseStays == ASSUME ~Overlapping PROVE BrowserSpec => FirstResponseKept
<1>1. BrowserInit => ServedAlone
  BY NewTaskType DEF BrowserInit, ServedAlone, NewTask
<1>2. TaskTypeOK /\ ServedAlone /\ [BrowserNext]_browserVars => ServedAlone'
  BY ServedNext
<1>3. BrowserSpec => []ServedAlone
  BY <1>1, <1>2, TaskTypeAlways, PTL DEF BrowserSpec
<1> DEFINE Kept == task.response # "none" => task'.response = task.response
<1>4. ASSUME TaskTypeOK, ServedAlone, [BrowserNext]_browserVars PROVE [Kept]_browserVars
  <2>1. ASSUME NEW s \in Sessions, Answer(s) PROVE Kept
    BY <1>4, <2>1, AnswerWrites DEF HandlerKeeps, ServedAlone
  <2>2. CASE task' = task
    BY <2>2
  <2> QED
    BY <1>4, <2>1, <2>2
       DEF BrowserNext, browserVars, Receive, Refuse, Append1, OtherSession, Client, browser
<1> QED
  BY <1>3, <1>4, TaskTypeAlways, PTL DEF BrowserSpec, FirstResponseKept
=============================================================================
