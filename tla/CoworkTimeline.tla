--------------------------- MODULE CoworkTimeline ---------------------------
(* The durable timeline of one Cowork job: sessions that append events under  *)
(* a sequence number each computes for itself (cowork_jobs.append_event), and *)
(* clients that follow the timeline over a stream that polls it page by page  *)
(* and that they may lose and open again (cowork_routes.get_job_stream).      *)
(*                                                                            *)
(* The table has a unique constraint on (job, sequence).  A session that      *)
(* inserts a number another open transaction has inserted waits for it; once  *)
(* that one has committed, the insert fails.                                  *)
EXTENDS Naturals, Sequences, FiniteSets

CONSTANTS
  Sessions,   \* database sessions that append events of the job
  Clients,    \* clients that follow the job
  PageLimit,  \* the limit of list_events
  MaxEvents   \* bound: no session allocates a number above it

ASSUME TimelineAssumption ==
  /\ IsFiniteSet(Sessions)
  /\ PageLimit \in Nat \ {0} /\ MaxEvents \in Nat

VARIABLES
  log,     \* sequence numbers of the committed events
  endsAt,  \* number of the event that made the job terminal, 0 before
  txn,     \* the open transaction of each session
  stream,  \* the stream each client holds
  got      \* the numbers each client has received, over all its streams

timeline == <<log, endsAt, txn, stream, got>>

NoTxn    == [pc |-> "idle", next |-> 0, mine |-> {}, ends |-> FALSE]
NoStream == [pc |-> "closed", cursor |-> 0, terminal |-> FALSE, page |-> {}]

TimelineInit ==
  /\ log = {} /\ endsAt = 0
  /\ txn = [s \in Sessions |-> NoTxn]
  /\ stream = [c \in Clients |-> NoStream]
  /\ got = [c \in Clients |-> <<>>]

Latest(numbers) ==
  CHOOSE n \in numbers \cup {0} : \A m \in numbers : m <= n

-----------------------------------------------------------------------------
(* Mutant of Allocate: numbers come from a counter all sessions share. *)
AllocateShared(s) ==
  LET used == UNION {txn[t].mine \cup {txn[t].next} : t \in Sessions}
      next == Latest(log \cup used) + 1 IN
  /\ txn[s].pc \in {"idle", "flushed"} /\ ~txn[s].ends /\ next <= MaxEvents
  /\ txn' = [txn EXCEPT ![s].pc = "allocated", ![s].next = next]
  /\ UNCHANGED <<log, endsAt, stream, got>>

(* append_event() in two round trips: read the largest number this session    *)
(* can see, then insert the next one.                                         *)
Allocate(s) ==
  LET next == Latest(log \cup txn[s].mine) + 1 IN
  /\ txn[s].pc \in {"idle", "flushed"} /\ ~txn[s].ends /\ next <= MaxEvents
  /\ txn' = [txn EXCEPT ![s].pc = "allocated", ![s].next = next]
  /\ UNCHANGED <<log, endsAt, stream, got>>

Waits(s) == \E t \in Sessions \ {s} : txn[s].next \in txn[t].mine

(* A clash rolls the whole session back.  The second attempt of the loop      *)
(* reads the job's expired columns and raises, so it appends nothing.         *)
Insert(s) ==
  /\ txn[s].pc = "allocated" /\ ~Waits(s)
  /\ IF txn[s].next \in log
     THEN txn' = [txn EXCEPT ![s] = NoTxn]
     ELSE \E ends \in {FALSE} \cup {endsAt = 0} :
            txn' = [txn EXCEPT ![s].pc = "flushed", ![s].ends = ends,
                               ![s].mine = @ \cup {txn[s].next}]
  /\ UNCHANGED <<log, endsAt, stream, got>>

(* The job becomes terminal with the event that says so. *)
CommitEvents(s) ==
  /\ txn[s].pc = "flushed"
  /\ log' = log \cup txn[s].mine
  /\ endsAt' = IF txn[s].ends THEN Latest(txn[s].mine) ELSE endsAt
  /\ txn' = [txn EXCEPT ![s] = NoTxn]
  /\ UNCHANGED <<stream, got>>

(* The session ends without a commit: an exception, or its process dies. *)
Abandon(s) ==
  /\ txn[s].pc # "idle"
  /\ txn' = [txn EXCEPT ![s] = NoTxn]
  /\ UNCHANGED <<log, endsAt, stream, got>>

-----------------------------------------------------------------------------
(* The stream: every poll opens a session, reads the job and then a page.     *)
Connect(c) ==
  /\ stream[c].pc = "closed"
  /\ stream' = [stream EXCEPT ![c] = [NoStream EXCEPT !.pc = "open",
                  !.cursor = IF got[c] = <<>> THEN 0 ELSE got[c][Len(got[c])]]]
  /\ UNCHANGED <<log, endsAt, txn, got>>

ReadJob(c) ==
  /\ stream[c].pc = "open"
  /\ stream' = [stream EXCEPT ![c].pc = "read", ![c].terminal = (endsAt # 0)]
  /\ UNCHANGED <<log, endsAt, txn, got>>

(* Mutant of Page: the event at the cursor is sent again. *)
PageFrom(cursor) ==
  LET from == {e \in log : e >= cursor}
  IN {e \in from : Cardinality({d \in from : d < e}) < PageLimit}

(* list_events(): the first of what lies after the cursor, up to the limit. *)
Page(cursor) ==
  LET after == {e \in log : e > cursor}
  IN {e \in after : Cardinality({d \in after : d < e}) < PageLimit}

ListEvents(c) ==
  /\ stream[c].pc = "read"
  /\ stream' = [stream EXCEPT ![c].pc = "sending",
                              ![c].page = Page(stream[c].cursor)]
  /\ UNCHANGED <<log, endsAt, txn, got>>

(* The page goes out in the order of the numbers. *)
Send(c) ==
  /\ stream[c].pc = "sending"
  /\ \E e \in stream[c].page :
       /\ \A d \in stream[c].page : e <= d
       /\ stream' = [stream EXCEPT ![c].cursor = e, ![c].page = @ \ {e}]
       /\ got' = [got EXCEPT ![c] = Append(@, e)]
  /\ UNCHANGED <<log, endsAt, txn>>

(* Mutant of EndPage: the job is read after the page instead of before it. *)
EndPageLate(c) ==
  /\ stream[c].pc = "sending" /\ stream[c].page = {}
  /\ stream' = [stream EXCEPT ![c].pc = IF endsAt # 0 THEN "finished" ELSE "open"]
  /\ UNCHANGED <<log, endsAt, txn, got>>

(* The page is out: job_finished if the job was terminal, else poll again. *)
EndPage(c) ==
  /\ stream[c].pc = "sending" /\ stream[c].page = {}
  /\ stream' = [stream EXCEPT ![c].pc =
                  IF stream[c].terminal THEN "finished" ELSE "open"]
  /\ UNCHANGED <<log, endsAt, txn, got>>

Drop(c) ==
  /\ stream[c].pc \in {"open", "read", "sending"}
  /\ stream' = [stream EXCEPT ![c] = NoStream]
  /\ UNCHANGED <<log, endsAt, txn, got>>

-----------------------------------------------------------------------------
TimelineTypeOK ==
  /\ log \subseteq 1..MaxEvents /\ endsAt \in 0..MaxEvents
  /\ txn \in [Sessions -> [pc : {"idle", "allocated", "flushed"},
                           next : 0..MaxEvents, mine : SUBSET (1..MaxEvents),
                           ends : BOOLEAN]]
  /\ stream \in [Clients -> [pc : {"closed", "open", "read", "sending", "finished"},
                             cursor : 0..MaxEvents, terminal : BOOLEAN,
                             page : SUBSET (1..MaxEvents)]]
  /\ got \in [Clients -> Seq(1..MaxEvents)]

(* Events become visible in the order of their numbers and without gaps, so a *)
(* cursor that has passed a number never misses one below it, although every  *)
(* session computes its numbers on its own.                                   *)
NoGaps == log = 1..Cardinality(log)

(* A client that reconnects with the last number it saw receives every event  *)
(* once and in order ("replays exactly what it missed").                      *)
ExactReplay == \A c \in Clients : got[c] = [i \in 1..Len(got[c]) |-> i]

(* job_finished is sent only to a client that has every event up to the one   *)
(* that ended the job, while one page holds them all: with more events than   *)
(* that, a client that connects late is told the job is over after one page.  *)
FinishedMeansComplete ==
  \A c \in Clients :
    stream[c].pc = "finished" /\ endsAt <= PageLimit => Len(got[c]) >= endsAt
=============================================================================
