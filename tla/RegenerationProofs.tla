-------------------------- MODULE RegenerationProofs --------------------------
(* Proofs about Regeneration, for any number of runs, requests and people.    *)
EXTENDS Regeneration, SequenceTheorems, TLAPS

-----------------------------------------------------------------------------
(* A run that is performed has one request that performs it; the request's    *)
(* copy of the stages is the row's, and what it is at follows them.           *)
Done(k)     == [i \in 1..k |-> Sequence[i]]
Performs(q) == request[q].pc \in Performing

RequestType == [pc : {"idle", "starting", "approving"} \cup Performing,
                of : Runs \cup {NoRun}, who : People \cup {Nobody},
                stages : Seq(Performing), runtime : Runtimes]

RequestKept(q) ==
  LET r == request[q].of IN
  /\ request[q].pc = "starting" => request[q].who \in People
  /\ request[q].pc = "approving" =>
       r \in Stored /\ request[q].who \in People \ {run[r].requester}
  /\ Performs(q) =>
       /\ r \in Stored /\ run[r].status = "running"
       /\ run[r].held => run[r].approver # Nobody
       /\ \E k \in 0..5 : /\ request[q].pc = Sequence[k + 1]
                          /\ request[q].stages = Done(k) /\ run[r].stages = Done(k)

RunKept(row) ==
  /\ row.status \in {"requires_approval", "blocked"} => row.stages = <<>>
  /\ row.status = "running" => \E k \in 0..5 : row.stages = Done(k)
  /\ row.status = "completed" => row.stages = Done(6)
  /\ row.status = "failed" => row.stages = <<"contain", "failed">>
  /\ row.held /\ row.stages # <<>> => row.approver # Nobody
  /\ row.approver # row.requester

OnePerformer ==
  \A p, q \in Requests :
    Performs(p) /\ Performs(q) /\ request[p].of = request[q].of => p = q

RunsInv ==
  /\ RegenerationTypeOK
  /\ \A q \in Requests : RequestKept(q)
  /\ \A r \in Stored : RunKept(run[r])
  /\ OnePerformer

(* Requests to start a run that do not overlap: one run at most is under way, *)
(* and the request that performs it is the only one to write the runtime.     *)
Active1 == \A r, s \in Stored : run[r].status \in Active /\ run[s].status \in Active => r = s

StartKept ==
  \A q \in Requests : request[q].pc = "starting" =>
    /\ \A r \in Stored : run[r].status \notin Active
    /\ \A p \in Requests : request[p].pc = "starting" => p = q

CopyKept(q) ==
  Performs(q) /\ request[q].pc # "contain" =>
    /\ request[q].runtime = runtime /\ runtime.status # "active"
    /\ request[q].pc \in {"rehydrate", "verify", "rejoin"} => runtime.by = request[q].of

SerialInv ==
  /\ RunsInv /\ Active1 /\ StartKept
  /\ \A q \in Requests : CopyKept(q)
  /\ runtime.status = "active" =>
       runtime.by \in Stored /\ run[runtime.by].status = "completed"

-----------------------------------------------------------------------------
(* The order of the stages. *)
LEMMA SequenceFacts ==
  /\ Sequence \in Seq(Performing) /\ Len(Sequence) = 6
  /\ Sequence[1] = "contain" /\ Sequence[2] = "checkpoint" /\ Sequence[3] = "recreate"
  /\ Sequence[4] = "rehydrate" /\ Sequence[5] = "verify" /\ Sequence[6] = "rejoin"
  /\ Performing = {"contain", "checkpoint", "recreate", "rehydrate", "verify", "rejoin"}
<1>1. /\ Sequence[1] = "contain" /\ Sequence[2] = "checkpoint" /\ Sequence[3] = "recreate"
      /\ Sequence[4] = "rehydrate" /\ Sequence[5] = "verify" /\ Sequence[6] = "rejoin"
      /\ Len(Sequence) = 6
  BY DEF Sequence
<1>2. 1..6 = {1, 2, 3, 4, 5, 6}
  OBVIOUS
<1>3. Performing = {Sequence[1], Sequence[2], Sequence[3], Sequence[4], Sequence[5], Sequence[6]}
  BY <1>2 DEF Performing
<1>4. Performing = {"contain", "checkpoint", "recreate", "rehydrate", "verify", "rejoin"}
  BY <1>1, <1>3
<1>5. Sequence \in Seq(Performing)
  BY <1>4 DEF Sequence
<1> QED
  BY <1>1, <1>4, <1>5

(* What is done is a sequence of stages, and a request that performs stage    *)
(* k + 1 adds it to the k it has done.                                        *)
LEMMA DoneIsSeq ==
  ASSUME NEW k \in 0..6
  PROVE  /\ Done(k) \in Seq(Performing) /\ Len(Done(k)) = k
         /\ \A i \in 1..k : Done(k)[i] = Sequence[i]
<1>1. Done(k) \in [1..k -> Performing]
  BY DEF Done, Performing
<1>2. Done(k) \in Seq(Performing)
  BY <1>1, SeqDef
<1>3. Len(Done(k)) = k
  BY <1>1, <1>2, LenProperties
<1> QED
  BY <1>2, <1>3 DEF Done

LEMMA DoneAppend ==
  ASSUME NEW k \in 0..5
  PROVE  Append(Done(k), Sequence[k + 1]) = Done(k + 1)
<1> DEFINE s == Append(Done(k), Sequence[k + 1])
<1>1. /\ Done(k) \in Seq(Performing) /\ Len(Done(k)) = k
      /\ \A i \in 1..k : Done(k)[i] = Sequence[i]
  BY DoneIsSeq, k \in 0..6
<1>2. /\ Done(k + 1) \in Seq(Performing) /\ Len(Done(k + 1)) = k + 1
      /\ \A i \in 1..(k + 1) : Done(k + 1)[i] = Sequence[i]
  BY DoneIsSeq, k + 1 \in 0..6
<1>3. Sequence[k + 1] \in Performing
  BY DEF Performing
<1>4. /\ s \in Seq(Performing) /\ Len(s) = k + 1
      /\ \A i \in 1..(k + 1) : s[i] = IF i = k + 1 THEN Sequence[k + 1] ELSE Done(k)[i]
  BY <1>1, <1>3, AppendProperties
<1>5. \A i \in 1..Len(s) : s[i] = Done(k + 1)[i]
  BY <1>1, <1>2, <1>4
<1> HIDE DEF s
<1> QED
  BY <1>2, <1>4, <1>5, SeqEqual DEF s

LEMMA DonePrefix ==
  ASSUME NEW k \in 0..6
  PROVE  /\ IsPrefix(Done(k), Sequence)
         /\ Done(k) = Sequence <=> k = 6
         /\ Done(k) = <<>> <=> k = 0
<1>1. /\ Done(k) \in Seq(Performing) /\ Len(Done(k)) = k
      /\ \A i \in 1..k : Done(k)[i] = Sequence[i]
  BY DoneIsSeq
<1>2. Sequence \in Seq(Performing) /\ Len(Sequence) = 6
  BY SequenceFacts
<1>3. SubSeq(Done(k), 1, k) = Done(k)
  BY <1>1, SubSeqFull
<1>4. /\ SubSeq(Sequence, 1, k) \in Seq(Performing)
      /\ Len(SubSeq(Sequence, 1, k)) = k
      /\ \A i \in 1..k : SubSeq(Sequence, 1, k)[i] = Sequence[i]
  <2>1. \A i \in 1..k : Sequence[i] \in Performing
    BY DEF Performing
  <2>2. /\ SubSeq(Sequence, 1, k) \in Seq(Performing)
        /\ Len(SubSeq(Sequence, 1, k)) = IF 1 <= k THEN k - 1 + 1 ELSE 0
        /\ \A i \in 1..(k - 1 + 1) : SubSeq(Sequence, 1, k)[i] = Sequence[1 + i - 1]
    BY <2>1, SubSeqProperties, 1 \in Int, k \in Int
  <2> QED
    BY <2>2
<1>5. SubSeq(Sequence, 1, k) = Done(k)
  <2> DEFINE s == SubSeq(Sequence, 1, k)
             t == Done(k)
  <2>1. s \in Seq(Performing) /\ t \in Seq(Performing) /\ Len(s) = Len(t)
        /\ \A i \in 1..Len(s) : s[i] = t[i]
    BY <1>1, <1>4
  <2> HIDE DEF s, t
  <2>2. s = t
    BY <2>1, SeqEqual
  <2> QED
    BY <2>2 DEF s, t
<1>6. IsPrefix(Done(k), Sequence)
  BY <1>1, <1>2, <1>3, <1>5 DEF IsPrefix
<1>7. k = 6 => Done(k) = Sequence
  BY <1>2, <1>5, SubSeqFull
<1>8. Done(k) = <<>> <=> k = 0
  BY <1>1, EmptySeq
<1> QED
  BY <1>1, <1>2, <1>6, <1>7, <1>8

LEMMA AppendTwice ==
  ASSUME NEW x, NEW y
  PROVE  Append(<<>>, x) = <<x>> /\ Append(<<x>>, y) = <<x, y>>
<1> DEFINE S == {x, y}
<1>1. <<>> \in Seq(S) /\ <<x>> \in Seq(S) /\ <<x, y>> \in Seq(S)
  OBVIOUS
<1>2. x \in S /\ y \in S
  OBVIOUS
<1> HIDE DEF S
<1>3. Append(<<>>, x) = <<x>>
  <2> DEFINE s == Append(<<>>, x)
             t == <<x>>
  <2>1. s \in Seq(S) /\ Len(s) = 1 /\ s[1] = x
    BY <1>1, <1>2, AppendProperties
  <2>2. t \in Seq(S) /\ Len(t) = 1 /\ t[1] = x
    BY <1>1
  <2> HIDE DEF s, t
  <2>3. s = t
    BY <2>1, <2>2, SeqEqual
  <2> QED
    BY <2>3 DEF s, t
<1>4. Append(<<x>>, y) = <<x, y>>
  <2> DEFINE s == Append(<<x>>, y)
             t == <<x, y>>
  <2>1. s \in Seq(S) /\ Len(s) = 2 /\ s[1] = x /\ s[2] = y
    BY <1>1, <1>2, AppendProperties
  <2>2. t \in Seq(S) /\ Len(t) = 2 /\ t[1] = x /\ t[2] = y
    BY <1>1
  <2> HIDE DEF s, t
  <2>3. \A i \in 1..Len(s) : s[i] = t[i]
    BY <2>1, <2>2
  <2>4. s = t
    BY <2>1, <2>2, <2>3, SeqEqual
  <2> QED
    BY <2>4 DEF s, t
<1> QED
  BY <1>3, <1>4

LEMMA NextStage ==
  ASSUME NEW k \in 0..4
  PROVE  Next6(Sequence[k + 1]) = Sequence[k + 2]
<1> DEFINE i == CHOOSE j \in 1..5 : Sequence[j] = Sequence[k + 1]
<1>1. i \in 1..5 /\ Sequence[i] = Sequence[k + 1]
  <2>1. \E j \in 1..5 : Sequence[j] = Sequence[k + 1]
    BY k + 1 \in 1..5
  <2> QED
    BY <2>1
<1> HIDE DEF i
<1>2. i = k + 1
  <2>1. i \in {1, 2, 3, 4, 5} /\ k + 1 \in {1, 2, 3, 4, 5}
    BY <1>1
  <2> QED
    BY <1>1, <2>1, SequenceFacts
<1>3. Sequence[k + 1] # "rejoin"
  <2>1. k + 1 \in {1, 2, 3, 4, 5}
    OBVIOUS
  <2> QED
    BY <2>1, SequenceFacts
<1>4. Next6(Sequence[k + 1]) = Sequence[i + 1]
  BY <1>3 DEF Next6, i
<1> QED
  BY <1>2, <1>4

-----------------------------------------------------------------------------
(* The state and its types. *)
LEMMA InitRuns == RegenerationInit => RunsInv /\ SerialInv
<1> SUFFICES ASSUME RegenerationInit PROVE RunsInv /\ SerialInv
  OBVIOUS
<1> USE RegenerationAssumption DEF RegenerationInit
<1>1. Stored = {}
  BY DEF Stored
<1>2. \A q \in Requests : request[q].pc = "idle" /\ ~Performs(q)
  BY SequenceFacts DEF Idle, Performs
<1>3. NewRuntime \in Runtimes
  BY DEF NewRuntime, Runtimes
<1>4. Idle \in RequestType
  BY <1>3 DEF Idle, RequestType
<1>5. RegenerationTypeOK
  BY <1>3, <1>4 DEF RegenerationTypeOK, RequestType
<1>6. RunsInv
  BY <1>1, <1>2, <1>5 DEF RunsInv, RequestKept, OnePerformer
<1>7. SerialInv
  BY <1>1, <1>2, <1>6 DEF SerialInv, Active1, StartKept, CopyKept, NewRuntime
<1> QED
  BY <1>6, <1>7

LEMMA RowsStored ==
  ASSUME RegenerationTypeOK, NEW r \in Runs
  PROVE  /\ r \in Stored => run[r] \in Rows
         /\ run[r] \in Rows => r \in Stored
<1>1. run[r] \in Rows \/ run[r] = NoRow
  BY DEF RegenerationTypeOK
<1>2. \A row \in Rows : row # NoRow
  BY DEF Rows, NoRow, Statuses, Active
<1> QED
  BY <1>1, <1>2 DEF Stored

LEMMA RowsStoredNext ==
  ASSUME RegenerationTypeOK', NEW r \in Runs
  PROVE  /\ r \in Stored' => run'[r] \in Rows
         /\ run'[r] \in Rows => r \in Stored'
<1>1. run'[r] \in Rows \/ run'[r] = NoRow
  BY DEF RegenerationTypeOK
<1>2. \A row \in Rows : row # NoRow
  BY DEF Rows, NoRow, Statuses, Active
<1> QED
  BY <1>1, <1>2 DEF Stored

LEMMA IdleFacts ==
  /\ Idle \in RequestType /\ Idle.pc = "idle" /\ Idle.of = NoRun
  /\ NewRuntime \in Runtimes /\ "idle" \notin Performing
  /\ "starting" \notin Performing /\ "approving" \notin Performing
<1>1. NewRuntime \in Runtimes
  BY DEF NewRuntime, Runtimes
<1> QED
  BY <1>1, SequenceFacts DEF Idle, RequestType

(* A request that goes idle, and nothing else. *)
LEMMA AbortKeeps ==
  ASSUME RunsInv, NEW q \in Requests, Abort(q)
  PROVE  RunsInv'
<1> USE IdleFacts DEF RunsInv
<1>1. /\ run' = run /\ runtime' = runtime /\ Stored' = Stored
      /\ request'[q] = Idle /\ \A p \in Requests \ {q} : request'[p] = request[p]
  BY DEF Abort, Stored, RegenerationTypeOK
<1>2. RegenerationTypeOK'
  BY DEF Abort, RegenerationTypeOK, RequestType
<1>3. \A p \in Requests : RequestKept(p)'
  BY <1>1 DEF RequestKept, Performs
<1>4. OnePerformer'
  BY <1>1 DEF OnePerformer, Performs
<1> QED
  BY <1>1, <1>2, <1>3, <1>4

LEMMA StartCheckKeeps ==
  ASSUME RunsInv, NEW q \in Requests, StartCheck(q)
  PROVE  RunsInv'
<1> USE IdleFacts DEF RunsInv
<1>1. PICK p \in People :
        request' = [request EXCEPT ![q] = [Idle EXCEPT !.pc = "starting", !.who = p]]
  BY DEF StartCheck
<1> DEFINE new == [Idle EXCEPT !.pc = "starting", !.who = p]
<1>2. new \in RequestType /\ new.pc = "starting" /\ new.who = p
  BY DEF RequestType, Idle
<1> HIDE DEF new
<1>3. /\ run' = run /\ runtime' = runtime /\ Stored' = Stored
      /\ request'[q] = new /\ \A s \in Requests \ {q} : request'[s] = request[s]
  BY <1>1 DEF StartCheck, Stored, RegenerationTypeOK, new
<1>4. RegenerationTypeOK'
  BY <1>1, <1>2, <1>3 DEF RegenerationTypeOK, RequestType, new
<1>5. \A s \in Requests : RequestKept(s)'
  BY <1>2, <1>3 DEF RequestKept, Performs
<1>6. OnePerformer'
  BY <1>2, <1>3 DEF OnePerformer, Performs
<1> QED
  BY <1>3, <1>4, <1>5, <1>6

LEMMA ApproveReadKeeps ==
  ASSUME RunsInv, NEW q \in Requests, ApproveRead(q)
  PROVE  RunsInv'
<1> USE IdleFacts DEF RunsInv
<1>1. PICK p \in People, r \in Stored :
        /\ MayApprove(p, r)
        /\ request' = [request EXCEPT ![q] =
             [Idle EXCEPT !.pc = "approving", !.who = p, !.of = r]]
  BY DEF ApproveRead
<1> DEFINE new == [Idle EXCEPT !.pc = "approving", !.who = p, !.of = r]
<1>2. new \in RequestType /\ new.pc = "approving" /\ new.who = p /\ new.of = r
  BY DEF RequestType, Idle, Stored
<1> HIDE DEF new
<1>3. /\ run' = run /\ runtime' = runtime /\ Stored' = Stored
      /\ request'[q] = new /\ \A s \in Requests \ {q} : request'[s] = request[s]
  BY <1>1 DEF ApproveRead, Stored, RegenerationTypeOK, new
<1>4. RegenerationTypeOK'
  BY <1>1, <1>2, <1>3 DEF RegenerationTypeOK, RequestType, new
<1>5. \A s \in Requests : RequestKept(s)'
  BY <1>1, <1>2, <1>3 DEF RequestKept, Performs, MayApprove
<1>6. OnePerformer'
  BY <1>2, <1>3 DEF OnePerformer, Performs
<1> QED
  BY <1>3, <1>4, <1>5, <1>6

LEMMA StartStoreKeeps ==
  ASSUME RunsInv, NEW q \in Requests, StartStore(q)
  PROVE  RunsInv'
<1> USE IdleFacts, RegenerationAssumption DEF RunsInv
<1>1. PICK r \in Runs \ Stored, status \in Active \cup {"blocked"} :
        /\ run' = [run EXCEPT ![r] =
             [status |-> status, requester |-> request[q].who, approver |-> Nobody,
              held |-> (status = "requires_approval"), stages |-> <<>>]]
        /\ request' = [request EXCEPT ![q] =
             IF status = "running" THEN [Idle EXCEPT !.pc = "contain", !.of = r]
             ELSE Idle]
  BY DEF StartStore
<1> DEFINE row == [status |-> status, requester |-> request[q].who, approver |-> Nobody,
                   held |-> (status = "requires_approval"), stages |-> <<>>]
           new == IF status = "running" THEN [Idle EXCEPT !.pc = "contain", !.of = r]
                  ELSE Idle
<1>2. request[q].who \in People
  BY DEF StartStore, RequestKept
<1>3. /\ row \in Rows /\ row.status = status /\ row.requester \in People
      /\ row.approver = Nobody /\ row.stages = <<>>
  BY <1>2 DEF Rows, Statuses
<1>4. /\ new \in RequestType
      /\ new.pc = IF status = "running" THEN "contain" ELSE "idle"
      /\ status = "running" => new.of = r
      /\ new.stages = <<>>
  BY SequenceFacts DEF RequestType, Idle
<1> HIDE DEF row, new
<1>5. /\ runtime' = runtime /\ run'[r] = row /\ request'[q] = new
      /\ \A t \in Runs \ {r} : run'[t] = run[t]
      /\ \A p \in Requests \ {q} : request'[p] = request[p]
  BY <1>1 DEF StartStore, RegenerationTypeOK, row, new
<1>6. RegenerationTypeOK'
  BY <1>1, <1>3, <1>4, <1>5 DEF RegenerationTypeOK, RequestType, row, new
<1>7. r \in Stored' /\ \A t \in Stored : t # r /\ t \in Stored' /\ run'[t] = run[t]
  BY <1>3, <1>5, <1>6, RowsStoredNext DEF Stored
<1>8. \A t \in Stored' \ {r} : t \in Stored /\ run'[t] = run[t]
  BY <1>5 DEF Stored
<1>9. Done(0) = <<>>
  BY DonePrefix, 0 \in 0..6
<1>10. RunKept(run'[r])
  BY <1>2, <1>3, <1>5, <1>9, 0 \in 0..5 DEF RunKept, Active
<1>11. \A t \in Stored' : RunKept(run'[t])
  BY <1>8, <1>10
<1>12. \A p \in Requests : RequestKept(p)'
  <2> SUFFICES ASSUME NEW p \in Requests PROVE RequestKept(p)'
    OBVIOUS
  <2>1. CASE p = q
    <3>1. /\ request'[q].pc = "contain" => Sequence[0 + 1] = "contain" /\ status = "running"
      BY <1>4, <1>5, SequenceFacts
    <3>2. status = "running" => ~row.held
      BY DEF row
    <3>3. CASE status = "running"
      BY <1>3, <1>4, <1>5, <1>7, <1>9, <2>1, <3>1, <3>2, <3>3, 0 \in 0..5
         DEF RequestKept, Performs
    <3>4. CASE status # "running"
      BY <1>4, <1>5, <2>1, <3>4 DEF RequestKept, Performs
    <3> QED
      BY <3>3, <3>4
  <2>2. CASE p # q
    BY <1>5, <1>7, <2>2 DEF RequestKept, Performs
  <2> QED
    BY <2>1, <2>2
<1>13. OnePerformer'
  <2>1. \A p \in Requests \ {q} : Performs(p)' => request'[p].of # r
    BY <1>1, <1>5 DEF RequestKept, Performs
  <2>2. Performs(q)' => request'[q].of = r
    BY <1>4, <1>5 DEF Performs
  <2> QED
    BY <1>5, <2>1, <2>2 DEF OnePerformer, Performs
<1> QED
  BY <1>6, <1>11, <1>12, <1>13

LEMMA ApproveKeeps ==
  ASSUME RunsInv, NEW q \in Requests, Approve(q)
  PROVE  RunsInv'
<1> USE IdleFacts, RegenerationAssumption DEF RunsInv
<1> DEFINE r == request[q].of
           row == [run[r] EXCEPT !.status = "running", !.approver = request[q].who]
           new == [Idle EXCEPT !.pc = "contain", !.of = r, !.stages = run[r].stages]
<1>1. /\ run' = [run EXCEPT ![r].status = "running", ![r].approver = request[q].who]
      /\ request' = [request EXCEPT ![q] = new]
      /\ runtime' = runtime
      /\ run[r].status = "requires_approval"
  BY DEF Approve, Granted
<1>2. r \in Stored /\ request[q].who \in People /\ request[q].who # run[r].requester
  BY DEF Approve, RequestKept
<1>3. run[r] \in Rows /\ r \in Runs /\ run[r].stages = <<>>
  BY <1>1, <1>2, RowsStored DEF Stored, RunKept
<1>4. /\ row \in Rows /\ row.status = "running" /\ row.approver = request[q].who
      /\ row.requester = run[r].requester /\ row.stages = <<>> /\ row.held = run[r].held
  BY <1>2, <1>3 DEF Rows, Statuses, Active
<1>5. new \in RequestType /\ new.pc = "contain" /\ new.of = r /\ new.stages = <<>>
  BY <1>2, <1>3, SequenceFacts DEF RequestType, Idle
<1>6. /\ run' = [run EXCEPT ![r] = row] /\ run'[r] = row
      /\ \A t \in Runs \ {r} : run'[t] = run[t]
      /\ request'[q] = new /\ \A p \in Requests \ {q} : request'[p] = request[p]
  BY <1>1, <1>3 DEF RegenerationTypeOK
<1> HIDE DEF row, new, r
<1>7. RegenerationTypeOK'
  <2>1. run' \in [Runs -> Rows \cup {NoRow}]
    BY <1>3, <1>4, <1>6 DEF RegenerationTypeOK
  <2>2. request' \in [Requests -> RequestType]
    BY <1>1, <1>5 DEF RegenerationTypeOK, RequestType
  <2> QED
    BY <1>1, <2>1, <2>2 DEF RegenerationTypeOK, RequestType
<1>8. Stored' = Stored
  BY <1>2, <1>3, <1>4, <1>6, <1>7, RowsStoredNext DEF Stored
<1>9. Done(0) = <<>>
  BY DonePrefix, 0 \in 0..6
<1>10. \A t \in Stored' : RunKept(run'[t])
  BY <1>2, <1>4, <1>6, <1>8, <1>9, 0 \in 0..5 DEF RunKept, Stored
<1>11. \A p \in Requests : RequestKept(p)'
  <2> SUFFICES ASSUME NEW p \in Requests PROVE RequestKept(p)'
    OBVIOUS
  <2>1. CASE p = q
    <3>1. Performs(q)' /\ request'[q].pc = Sequence[0 + 1] /\ request'[q].pc = "contain"
      BY <1>5, <1>6, SequenceFacts DEF Performs
    <3>2. /\ request'[q].of \in Stored' /\ run'[r].status = "running"
          /\ run'[r].approver # Nobody
          /\ request'[q].stages = Done(0) /\ run'[r].stages = Done(0)
      BY <1>2, <1>4, <1>5, <1>6, <1>8, <1>9
    <3> QED
      BY <1>5, <1>6, <2>1, <3>1, <3>2, 0 \in 0..5 DEF RequestKept
  <2>2. CASE p # q
    <3>1. request[p].of # r => RequestKept(p)'
      BY <1>6, <1>8, <2>2 DEF RequestKept, Performs, Stored
    <3>2. request[p].of = r => ~Performs(p)
      BY <1>1 DEF RequestKept
    <3>3. request[p].of = r => RequestKept(p)'
      BY <1>4, <1>6, <1>8, <2>2, <3>2 DEF RequestKept, Performs
    <3> QED
      BY <3>1, <3>3
  <2> QED
    BY <2>1, <2>2
<1>12. OnePerformer'
  <2>1. \A p \in Requests : Performs(p) => request[p].of # r
    BY <1>1 DEF RequestKept
  <2> QED
    BY <1>5, <1>6, <2>1 DEF OnePerformer, Performs
<1> QED
  BY <1>7, <1>8, <1>10, <1>11, <1>12

-----------------------------------------------------------------------------
(* What a stage writes. *)
LEMMA RuntimeMixed ==
  ASSUME NEW a \in Runtimes, NEW b \in Runtimes, NEW c \in Runtimes,
         NEW d, d = [f \in DOMAIN a |-> IF c[f] = b[f] THEN a[f] ELSE c[f]]
  PROVE  /\ d \in Runtimes
         /\ d.status = IF c.status = b.status THEN a.status ELSE c.status
         /\ d.by = IF c.by = b.by THEN a.by ELSE c.by
         /\ d.generation = IF c.generation = b.generation THEN a.generation ELSE c.generation
<1>1. DOMAIN a = {"status", "by", "generation"}
  BY DEF Runtimes
<1>2. /\ d.status = IF c.status = b.status THEN a.status ELSE c.status
      /\ d.by = IF c.by = b.by THEN a.by ELSE c.by
      /\ d.generation = IF c.generation = b.generation THEN a.generation ELSE c.generation
  BY <1>1
<1>3. d = [status |-> d.status, by |-> d.by, generation |-> d.generation]
  BY <1>1
<1>4. /\ d.status \in {"none", "contained", "quarantined", "active"}
      /\ d.by \in Runs \cup {NoRun} /\ d.generation \in Nat
  BY <1>2 DEF Runtimes
<1>5. d \in Runtimes
  BY <1>3, <1>4 DEF Runtimes
<1> QED
  BY <1>2, <1>5

(* A stage that is done: the request and the row of its run move on together. *)
LEMMA StageDone ==
  ASSUME RunsInv, NEW q \in Requests, NEW k \in 0..4, request[q].pc = Sequence[k + 1],
         NEW r, r = request[q].of,
         NEW stages, stages = Append(request[q].stages, Sequence[k + 1]),
         NEW new \in Runtimes, runtime' \in Runtimes,
         run' = [run EXCEPT ![r] = [run[r] EXCEPT !.stages = stages, !.status = "running"]],
         request' = [request EXCEPT ![q] =
           [request[q] EXCEPT !.pc = Sequence[k + 2], !.stages = stages, !.runtime = new]]
  PROVE  RunsInv'
<1> USE DEF RunsInv
<1> DEFINE row == [run[r] EXCEPT !.stages = stages, !.status = "running"]
           copy == [request[q] EXCEPT !.pc = Sequence[k + 2], !.stages = stages,
                                      !.runtime = new]
<1>1. /\ Performs(q) /\ k \in 0..5 /\ k + 1 \in 0..5 /\ k + 1 \in 1..6 /\ k + 2 \in 1..6
      /\ k + 1 \in 0..6 /\ (k + 1) + 1 = k + 2
  BY DEF Performs, Performing
<1>2. \A i \in 0..5 : Sequence[i + 1] = Sequence[k + 1] => i = k
  <2>1. \A i \in 1..6, j \in 1..6 : Sequence[i] = Sequence[j] => i = j
    <3>1. 1..6 = {1, 2, 3, 4, 5, 6}
      OBVIOUS
    <3> QED
      BY <3>1, SequenceFacts
  <2> QED
    BY <1>1, <2>1
<1>3. /\ r \in Stored /\ run[r].status = "running"
      /\ run[r].held => run[r].approver # Nobody
      /\ request[q].stages = Done(k) /\ run[r].stages = Done(k)
  BY <1>1, <1>2 DEF RequestKept
<1>4. stages = Done(k + 1) /\ stages \in Seq(Performing)
  BY <1>1, <1>3, DoneAppend, DoneIsSeq
<1>5. run[r] \in Rows /\ r \in Runs
  BY <1>3, RowsStored DEF Stored
<1>6. Seq(Performing) \subseteq Seq({"failed"} \cup {Sequence[i] : i \in 1..6})
  <2>1. Performing \subseteq {"failed"} \cup {Sequence[i] : i \in 1..6}
    BY DEF Performing
  <2> QED
    BY <2>1, SeqMonotonic
<1>7. /\ row \in Rows /\ row.status = "running" /\ row.stages = stages
      /\ row.approver = run[r].approver /\ row.requester = run[r].requester
      /\ (row.held <=> run[r].held)
  BY <1>4, <1>5, <1>6 DEF Rows, Statuses, Active
<1>8. request[q] \in RequestType
  BY DEF RegenerationTypeOK, RequestType
<1>9. Sequence[k + 2] \in Performing
  BY <1>1 DEF Performing
<1>10. /\ copy \in RequestType /\ copy.pc = Sequence[k + 2] /\ copy.of = r
       /\ copy.stages = stages
  BY <1>4, <1>8, <1>9 DEF RequestType
<1>11. /\ run' = [run EXCEPT ![r] = row] /\ request' = [request EXCEPT ![q] = copy]
  OBVIOUS
<1> HIDE DEF row, copy
<1>12. /\ run'[r] = row /\ \A t \in Runs \ {r} : run'[t] = run[t]
       /\ request'[q] = copy /\ \A p \in Requests \ {q} : request'[p] = request[p]
  BY <1>5, <1>11 DEF RegenerationTypeOK
<1>13. RegenerationTypeOK'
  <2>1. run' \in [Runs -> Rows \cup {NoRow}]
    BY <1>5, <1>7, <1>11 DEF RegenerationTypeOK
  <2>2. request' \in [Requests -> RequestType]
    BY <1>10, <1>11 DEF RegenerationTypeOK, RequestType
  <2> QED
    BY <2>1, <2>2 DEF RegenerationTypeOK, RequestType
<1>14. Stored' = Stored
  BY <1>3, <1>5, <1>7, <1>12, <1>13, RowsStoredNext DEF Stored
<1>15. \A t \in Stored' : RunKept(run'[t])
  <2>1. RunKept(run'[r])
    <3>1. row.approver # row.requester
      BY <1>3, <1>7 DEF RunKept
    <3>2. row.held => row.approver # Nobody
      BY <1>3, <1>7
    <3> QED
      BY <1>1, <1>4, <1>7, <1>12, <3>1, <3>2 DEF RunKept
  <2> QED
    BY <1>12, <1>14, <2>1 DEF Stored
<1>16. \A p \in Requests : RequestKept(p)'
  <2> SUFFICES ASSUME NEW p \in Requests PROVE RequestKept(p)'
    OBVIOUS
  <2>1. CASE p = q
    <3>1. request'[q].pc \in Performing
      BY <1>9, <1>10, <1>12
    <3>2. request'[q].pc \notin {"starting", "approving"}
      BY <3>1, IdleFacts
    <3>3. request'[q].of = r /\ r \in Stored' /\ run'[r].status = "running"
      BY <1>3, <1>7, <1>10, <1>12, <1>14
    <3>4. run'[r].held => run'[r].approver # Nobody
      BY <1>3, <1>7, <1>12
    <3>5. /\ request'[q].pc = Sequence[(k + 1) + 1]
          /\ request'[q].stages = Done(k + 1) /\ run'[r].stages = Done(k + 1)
      <4>1. Sequence[(k + 1) + 1] = Sequence[k + 2]
        BY <1>1
      <4>2. request'[q].stages = stages /\ run'[r].stages = stages
        BY <1>7, <1>10, <1>12
      <4> QED
        BY <1>4, <1>10, <1>12, <4>1, <4>2
    <3> QED
      BY <1>1, <2>1, <3>2, <3>3, <3>4, <3>5 DEF RequestKept
  <2>2. CASE p # q
    <3>1. request[p].of = r => ~Performs(p)
      BY <1>1, <2>2 DEF OnePerformer
    <3>2. request'[p] = request[p]
      BY <1>12, <2>2
    <3>5. run'[r].requester = run[r].requester
      BY <1>7, <1>12
    <3>3. request[p].of = r => RequestKept(p)'
      <4> SUFFICES ASSUME request[p].of = r PROVE RequestKept(p)'
        OBVIOUS
      <4>1. RequestKept(p) /\ ~Performs(p)' /\ request'[p].of = r
        BY <3>1, <3>2 DEF Performs
      <4>2. request'[p].pc = "starting" => request'[p].who \in People
        BY <3>2, <4>1 DEF RequestKept
      <4>3. request'[p].pc = "approving" =>
              r \in Stored' /\ request'[p].who \in People \ {run'[r].requester}
        BY <1>14, <3>2, <3>5, <4>1 DEF RequestKept
      <4> QED
        BY <4>1, <4>2, <4>3 DEF RequestKept
    <3>4. request[p].of # r => RequestKept(p)'
      BY <1>12, <1>14, <3>2 DEF RequestKept, Performs, Stored
    <3> QED
      BY <3>3, <3>4
  <2> QED
    BY <2>1, <2>2
<1>17. OnePerformer'
  BY <1>1, <1>10, <1>12 DEF OnePerformer, Performs
<1> QED
  BY <1>13, <1>14, <1>15, <1>16, <1>17

(* A run that ends, completed or failed: the request ends with it. *)
LEMMA RunEnded ==
  ASSUME RunsInv, NEW q \in Requests, Performs(q), NEW r, r = request[q].of,
         NEW stages, NEW status, runtime' \in Runtimes,
         \/ status = "completed" /\ stages = Done(6)
         \/ status = "failed" /\ stages = <<"contain", "failed">>,
         run' = [run EXCEPT ![r] = [run[r] EXCEPT !.stages = stages, !.status = status]],
         request' = [request EXCEPT ![q] = Idle]
  PROVE  RunsInv'
<1> USE DEF RunsInv
<1> DEFINE row == [run[r] EXCEPT !.stages = stages, !.status = status]
<1>1. /\ r \in Stored /\ run[r].status = "running"
      /\ run[r].held => run[r].approver # Nobody
  BY DEF RequestKept
<1>2. run[r] \in Rows /\ r \in Runs
  BY <1>1, RowsStored DEF Stored
<1>3. stages \in Seq({"failed"} \cup {Sequence[i] : i \in 1..6})
  <2>1. Performing \subseteq {"failed"} \cup {Sequence[i] : i \in 1..6}
    BY DEF Performing
  <2>2. Done(6) \in Seq({"failed"} \cup {Sequence[i] : i \in 1..6})
    BY <2>1, DoneIsSeq, SeqMonotonic, 6 \in 0..6
  <2>3. "contain" \in {"failed"} \cup {Sequence[i] : i \in 1..6}
    BY <2>1, SequenceFacts
  <2>4. <<"contain", "failed">> \in Seq({"failed"} \cup {Sequence[i] : i \in 1..6})
    BY <2>3
  <2> QED
    BY <2>2, <2>4
<1>4. /\ row \in Rows /\ row.status = status /\ row.stages = stages
      /\ row.approver = run[r].approver /\ row.requester = run[r].requester
      /\ (row.held <=> run[r].held)
  BY <1>2, <1>3 DEF Rows, Statuses, Active
<1>5. run' = [run EXCEPT ![r] = row]
  OBVIOUS
<1> HIDE DEF row
<1>6. /\ run'[r] = row /\ \A t \in Runs \ {r} : run'[t] = run[t]
      /\ request'[q] = Idle /\ \A p \in Requests \ {q} : request'[p] = request[p]
  BY <1>2, <1>5 DEF RegenerationTypeOK
<1>7. RegenerationTypeOK'
  <2>1. run' \in [Runs -> Rows \cup {NoRow}]
    BY <1>2, <1>4, <1>5 DEF RegenerationTypeOK
  <2>2. request' \in [Requests -> RequestType]
    BY IdleFacts DEF RegenerationTypeOK, RequestType
  <2> QED
    BY <2>1, <2>2 DEF RegenerationTypeOK, RequestType
<1>8. Stored' = Stored
  BY <1>1, <1>2, <1>4, <1>6, <1>7, RowsStoredNext DEF Stored
<1>9. \A t \in Stored' : RunKept(run'[t])
  <2>1. RunKept(run'[r])
    <3>1. row.approver # row.requester
      BY <1>1, <1>4 DEF RunKept
    <3>2. row.held => row.approver # Nobody
      BY <1>1, <1>4
    <3> QED
      BY <1>4, <1>6, <3>1, <3>2 DEF RunKept
  <2> QED
    BY <1>6, <1>8, <2>1 DEF Stored
<1>10. \A p \in Requests : Performs(p)' => p # q /\ Performs(p) /\ request[p].of # r
  BY <1>6, IdleFacts DEF Performs, OnePerformer
<1>11. \A p \in Requests : RequestKept(p)'
  <2> SUFFICES ASSUME NEW p \in Requests PROVE RequestKept(p)'
    OBVIOUS
  <2>1. CASE p = q
    BY <1>6, <1>10, <2>1, IdleFacts DEF RequestKept
  <2>2. CASE p # q
    <3>1. request'[p] = request[p]
      BY <1>6, <2>2
    <3>2. request[p].of = r => RequestKept(p)'
      BY <1>4, <1>6, <1>8, <1>10, <3>1 DEF RequestKept, Performs
    <3>3. request[p].of # r => RequestKept(p)'
      BY <1>6, <1>8, <3>1 DEF RequestKept, Performs, Stored
    <3> QED
      BY <3>2, <3>3
  <2> QED
    BY <2>1, <2>2
<1>12. OnePerformer'
  BY <1>6, <1>10 DEF OnePerformer
<1> QED
  BY <1>7, <1>8, <1>9, <1>11, <1>12

-----------------------------------------------------------------------------
(* The stages themselves. *)
LEMMA Performer ==
  ASSUME RunsInv, NEW q \in Requests, Performs(q)
  PROVE  /\ request[q].of \in Stored /\ request[q].of \in Runs
         /\ run[request[q].of] \in Rows /\ run[request[q].of].status = "running"
         /\ request[q] \in RequestType /\ request[q].runtime \in Runtimes
         /\ runtime \in Runtimes
<1>1. request[q].of \in Stored /\ run[request[q].of].status = "running"
  BY DEF RunsInv, RequestKept
<1>2. request[q] \in RequestType /\ runtime \in Runtimes
  BY DEF RunsInv, RegenerationTypeOK, RequestType
<1>3. request[q].of \in Runs /\ run[request[q].of] \in Rows
  BY <1>1, RowsStored DEF RunsInv, Stored
<1> QED
  BY <1>1, <1>2, <1>3 DEF RequestType

LEMMA RecordedStage ==
  ASSUME RunsInv, NEW q \in Requests,
         NEW stage \in {"checkpoint", "recreate", "rehydrate", "verify"},
         request[q].pc = stage,
         NEW new \in Runtimes, Recorded(q, stage, "running", new)
  PROVE  /\ RunsInv'
         /\ request' = [request EXCEPT ![q] =
              [request[q] EXCEPT !.pc = Next6(stage), !.runtime = new,
                                 !.stages = Append(request[q].stages, stage)]]
         /\ run' = [run EXCEPT ![request[q].of] =
              [run[request[q].of] EXCEPT !.status = "running",
                 !.stages = Append(request[q].stages, stage)]]
<1> DEFINE r == request[q].of
           stages == Append(request[q].stages, stage)
<1>1. PICK k \in 0..4 : stage = Sequence[k + 1]
  <2>1. /\ Sequence[1 + 1] = "checkpoint" /\ Sequence[2 + 1] = "recreate"
        /\ Sequence[3 + 1] = "rehydrate" /\ Sequence[4 + 1] = "verify"
        /\ 1 \in 0..4 /\ 2 \in 0..4 /\ 3 \in 0..4 /\ 4 \in 0..4
    BY SequenceFacts
  <2> QED
    BY <2>1
<1>2. Next6(stage) = Sequence[k + 2]
  BY <1>1, NextStage
<1>3. Performs(q)
  BY <1>1 DEF Performs, Performing
<1>4. r \in Runs /\ run[r] \in Rows /\ run \in [Runs -> Rows \cup {NoRow}]
  BY <1>3, Performer DEF RunsInv, RegenerationTypeOK
<1>5. request[q] \in RequestType /\ request \in [Requests -> RequestType]
  BY <1>3, Performer DEF RunsInv, RegenerationTypeOK, RequestType
<1>6. run' = [run EXCEPT ![r] = [run[r] EXCEPT !.stages = stages, !.status = "running"]]
  <2>1. run' = [run EXCEPT ![r].stages = stages, ![r].status = "running"]
    BY DEF Recorded
  <2> HIDE DEF stages, r
  <2> QED
    BY <1>4, <2>1 DEF Rows
<1>7. request' = [request EXCEPT ![q] =
        [request[q] EXCEPT !.pc = Next6(stage), !.stages = stages, !.runtime = new]]
  BY DEF Recorded
<1>8. runtime' \in Runtimes
  <2>1. runtime' = [c \in DOMAIN runtime |->
                      IF new[c] = request[q].runtime[c] THEN runtime[c] ELSE new[c]]
    BY DEF Recorded
  <2>2. runtime \in Runtimes /\ request[q].runtime \in Runtimes
    BY <1>3, Performer
  <2> QED
    BY <2>1, <2>2, RuntimeMixed
<1>9. RunsInv'
  <2> HIDE DEF stages, r
  <2> QED
    BY <1>6, <1>7, <1>8, <1>1, <1>2, StageDone DEF stages, r
<1>10. [request[q] EXCEPT !.pc = Next6(stage), !.stages = stages, !.runtime = new] =
      [request[q] EXCEPT !.pc = Next6(stage), !.runtime = new, !.stages = stages]
  <2> HIDE DEF stages
  <2> QED
    BY <1>5 DEF RequestType
<1>11. [run[r] EXCEPT !.stages = stages, !.status = "running"] =
      [run[r] EXCEPT !.status = "running", !.stages = stages]
  <2> HIDE DEF stages, r
  <2> QED
    BY <1>4 DEF Rows
<1> QED
  BY <1>6, <1>7, <1>9, <1>10, <1>11

LEMMA RecordedEnd ==
  ASSUME RunsInv, NEW q \in Requests, Performs(q), NEW new \in Runtimes,
         NEW stage, NEW status, Recorded(q, stage, status, new),
         \/ status = "completed" /\ stage = "rejoin" /\ request[q].pc = "rejoin"
         \/ status = "failed" /\ stage = "failed" /\ request[q].pc = "checkpoint"
  PROVE  /\ RunsInv'
         /\ request' = [request EXCEPT ![q] = Idle]
         /\ run'[request[q].of].status = status
         /\ \A t \in Runs \ {request[q].of} : run'[t] = run[t]
<1> DEFINE r == request[q].of
           stages == Append(request[q].stages, stage)
<1>1. r \in Runs /\ run[r] \in Rows /\ run \in [Runs -> Rows \cup {NoRow}]
  BY Performer DEF RunsInv, RegenerationTypeOK
<1>2. run' = [run EXCEPT ![r] = [run[r] EXCEPT !.stages = stages, !.status = status]]
  <2>1. run' = [run EXCEPT ![r].stages = stages, ![r].status = status]
    BY DEF Recorded
  <2> HIDE DEF stages, r
  <2> QED
    BY <1>1, <2>1 DEF Rows
<1>3. request' = [request EXCEPT ![q] = Idle]
  BY DEF Recorded
<1>4. runtime' \in Runtimes
  BY Performer, RuntimeMixed DEF Recorded
<1>5. PICK k \in 0..5 : request[q].pc = Sequence[k + 1] /\ request[q].stages = Done(k)
  BY DEF RunsInv, RequestKept
<1>6. /\ request[q].pc = "rejoin" => k = 5
      /\ request[q].pc = "checkpoint" => k = 1
  <2>1. k \in {0, 1, 2, 3, 4, 5}
    OBVIOUS
  <2> QED
    BY <1>5, <2>1, SequenceFacts
<1>7. \/ status = "completed" /\ stages = Done(6)
      \/ status = "failed" /\ stages = <<"contain", "failed">>
  <2>1. CASE status = "completed"
    <3>1. stages = Append(Done(5), Sequence[5 + 1])
      BY <1>5, <1>6, <2>1, SequenceFacts
    <3>2. Append(Done(5), Sequence[5 + 1]) = Done(5 + 1)
      BY DoneAppend, 5 \in 0..5
    <3> QED
      BY <2>1, <3>1, <3>2
  <2>2. CASE status = "failed"
    <3>1. stages = Append(Done(1), "failed")
      BY <1>5, <1>6, <2>2
    <3>2. Done(1) = <<"contain">>
      <4>1. Append(Done(0), Sequence[0 + 1]) = Done(0 + 1)
        BY DoneAppend, 0 \in 0..5
      <4>2. Done(0) = <<>>
        BY DonePrefix, 0 \in 0..6
      <4> QED
        <5>1. Sequence[0 + 1] = "contain" /\ 0 + 1 = 1
          BY SequenceFacts
        <5>2. Done(1) = Append(<<>>, "contain")
          BY <4>1, <4>2, <5>1
        <5> QED
          BY <5>2, AppendTwice
    <3>3. Append(<<"contain">>, "failed") = <<"contain", "failed">>
      BY AppendTwice
    <3> QED
      BY <2>2, <3>1, <3>2, <3>3
  <2> QED
    BY <2>1, <2>2
<1>8. RunsInv'
  <2> HIDE DEF stages, r
  <2> QED
    BY <1>2, <1>3, <1>4, <1>7, RunEnded DEF stages, r
<1>9. run'[r].status = status /\ \A t \in Runs \ {r} : run'[t] = run[t]
  <2> HIDE DEF stages, r
  <2> QED
    BY <1>1, <1>2 DEF Rows
<1> QED
  BY <1>3, <1>8, <1>9

LEMMA ContainKeeps ==
  ASSUME RunsInv, NEW q \in Requests, Contain(q)
  PROVE  /\ RunsInv'
         /\ \E new \in Runtimes :
              /\ new.status # "active" /\ runtime' = new
              /\ new.by = runtime.by /\ new.generation = runtime.generation
              /\ request' = [request EXCEPT ![q] =
                   [request[q] EXCEPT !.pc = "checkpoint", !.runtime = new,
                                      !.stages = Append(request[q].stages, "contain")]]
              /\ run' = [run EXCEPT ![request[q].of] =
                   [run[request[q].of] EXCEPT !.status = "running",
                      !.stages = Append(request[q].stages, "contain")]]
<1> DEFINE r == request[q].of
           stages == Append(request[q].stages, "contain")
           new == IF runtime.status = "none" THEN runtime
                  ELSE [runtime EXCEPT !.status = "contained"]
<1>1. Performs(q) /\ request[q].pc = "contain"
  BY SequenceFacts DEF Contain, Performs
<1>2. r \in Runs /\ run[r] \in Rows /\ run[r].status = "running"
      /\ run \in [Runs -> Rows \cup {NoRow}]
  BY <1>1, Performer DEF RunsInv, RegenerationTypeOK
<1>3. request[q] \in RequestType /\ request \in [Requests -> RequestType]
      /\ runtime \in Runtimes
  BY <1>1, Performer DEF RunsInv, RegenerationTypeOK, RequestType
<1>4. /\ new \in Runtimes /\ new.status # "active" /\ runtime' = new
      /\ new.by = runtime.by /\ new.generation = runtime.generation
  BY <1>3 DEF Contain, Runtimes
<1>5. run' = [run EXCEPT ![r] = [run[r] EXCEPT !.stages = stages, !.status = "running"]]
  <2>1. run' = [run EXCEPT ![r].stages = stages]
    BY DEF Contain
  <2> HIDE DEF stages, r
  <2> QED
    BY <1>2, <2>1 DEF Rows
<1>6. request' = [request EXCEPT ![q] =
        [request[q] EXCEPT !.pc = "checkpoint", !.stages = stages, !.runtime = new]]
  <2>1. request' = [request EXCEPT ![q].pc = "checkpoint", ![q].runtime = new,
                                   ![q].stages = Append(@, "contain")]
    BY DEF Contain
  <2>2. request' = [request EXCEPT ![q].pc = "checkpoint", ![q].runtime = new,
                                   ![q].stages = stages]
    <3> HIDE DEF new
    <3> QED
      BY <1>3, <2>1 DEF RequestType
  <2> HIDE DEF stages, new
  <2> QED
    BY <1>3, <2>2 DEF RequestType
<1>7. /\ Sequence[0 + 1] = "contain" /\ Sequence[0 + 2] = "checkpoint" /\ 0 \in 0..4
  BY SequenceFacts
<1>8. RunsInv'
  <2> HIDE DEF stages, r, new
  <2>1. runtime' \in Runtimes
    BY <1>4
  <2> QED
    BY <1>1, <1>4, <1>5, <1>6, <1>7, <2>1, StageDone DEF stages, r
<1>9. [request[q] EXCEPT !.pc = "checkpoint", !.stages = stages, !.runtime = new] =
      [request[q] EXCEPT !.pc = "checkpoint", !.runtime = new, !.stages = stages]
  <2> HIDE DEF stages, new
  <2> QED
    BY <1>3 DEF RequestType
<1>10. [run[r] EXCEPT !.stages = stages, !.status = "running"] =
       [run[r] EXCEPT !.status = "running", !.stages = stages]
  <2> HIDE DEF stages, r
  <2> QED
    BY <1>2 DEF Rows
<1>11. /\ request' = [request EXCEPT ![q] =
            [request[q] EXCEPT !.pc = "checkpoint", !.runtime = new, !.stages = stages]]
       /\ run' = [run EXCEPT ![r] = [run[r] EXCEPT !.status = "running", !.stages = stages]]
  BY <1>5, <1>6, <1>9, <1>10
<1> HIDE DEF new
<1> QED
  BY <1>4, <1>8, <1>11

LEMMA StagesKeep ==
  ASSUME RunsInv, NEW q \in Requests,
         \/ Checkpoint(q) \/ Recreate(q) \/ Rehydrate(q) \/ Verify(q) \/ Rejoin(q)
  PROVE  RunsInv'
<1>1. CASE Checkpoint(q)
  <2>1. Performs(q) /\ request[q].pc = "checkpoint"
        /\ Same(q) \in Runtimes
    BY <1>1, Performer, SequenceFacts DEF Checkpoint, Performs, Same
  <2>2. CASE Recorded(q, "checkpoint", "running", Same(q))
    BY <2>1, <2>2, RecordedStage
  <2>3. CASE Recorded(q, "failed", "failed", Same(q))
    BY <2>1, <2>3, RecordedEnd
  <2> QED
    BY <1>1, <2>2, <2>3 DEF Checkpoint
<1>2. CASE Recreate(q)
  <2> DEFINE new == [status |-> "quarantined", by |-> request[q].of,
                     generation |-> request[q].runtime.generation + 1]
  <2>1. Performs(q) /\ request[q].pc = "recreate"
    BY <1>2, SequenceFacts DEF Recreate, Performs
  <2>2. new \in Runtimes
    BY <2>1, Performer DEF Runtimes
  <2>3. CASE Recorded(q, "recreate", "running", new)
    <3> HIDE DEF new
    <3> QED
      BY <2>1, <2>2, <2>3, RecordedStage
  <2>4. CASE request' = [request EXCEPT ![q] = Idle] /\ UNCHANGED <<run, runtime>>
    <3>1. Abort(q)
      BY <2>1, <2>4, IdleFacts DEF Abort, Performs
    <3> QED
      BY <3>1, AbortKeeps
  <2> QED
    BY <1>2, <2>3, <2>4 DEF Recreate
<1>3. CASE Rehydrate(q)
  <2>1. Performs(q) /\ request[q].pc = "rehydrate"
        /\ Same(q) \in Runtimes
    BY <1>3, Performer, SequenceFacts DEF Rehydrate, Performs, Same
  <2>2. Recorded(q, "rehydrate", "running", Same(q))
    BY <1>3 DEF Rehydrate
  <2> QED
    BY <2>1, <2>2, RecordedStage
<1>4. CASE Verify(q)
  <2>1. Performs(q) /\ request[q].pc = "verify"
        /\ Same(q) \in Runtimes
    BY <1>4, Performer, SequenceFacts DEF Verify, Performs, Same
  <2>2. Recorded(q, "verify", "running", Same(q))
    BY <1>4 DEF Verify
  <2> QED
    BY <2>1, <2>2, RecordedStage
<1>5. CASE Rejoin(q)
  <2> DEFINE new == [Same(q) EXCEPT !.status = "active"]
  <2>1. Performs(q) /\ request[q].pc = "rejoin" /\ new \in Runtimes
    <3>1. Performs(q) /\ request[q].pc = "rejoin"
      BY <1>5, SequenceFacts DEF Rejoin, Performs
    <3>2. Same(q) \in Runtimes
      BY <3>1, Performer DEF Same
    <3> QED
      BY <3>1, <3>2 DEF Runtimes
  <2>2. Recorded(q, "rejoin", "completed", new)
    BY <1>5 DEF Rejoin
  <2> HIDE DEF new
  <2> QED
    BY <2>1, <2>2, RecordedEnd
<1> QED
  BY <1>1, <1>2, <1>3, <1>4, <1>5

LEMMA RunsStep == RunsInv /\ [RegenerationNext]_regenerationVars => RunsInv'
<1> SUFFICES ASSUME RunsInv, [RegenerationNext]_regenerationVars PROVE RunsInv'
  OBVIOUS
<1>1. CASE UNCHANGED regenerationVars
  <2>1. run' = run /\ runtime' = runtime /\ request' = request /\ Stored' = Stored
    BY <1>1 DEF regenerationVars, Stored
  <2> QED
    BY <2>1 DEF RunsInv, RegenerationTypeOK, RequestKept, OnePerformer, Performs
<1>2. ASSUME NEW q \in Requests,
             \/ StartCheck(q) \/ StartStore(q) \/ ApproveRead(q) \/ Approve(q)
             \/ Contain(q) \/ Abort(q)
      PROVE  RunsInv'
  BY <1>2, StartCheckKeeps, StartStoreKeeps, ApproveReadKeeps, ApproveKeeps,
     ContainKeeps, AbortKeeps
<1> QED
  BY <1>1, <1>2, StagesKeep DEF RegenerationNext

-----------------------------------------------------------------------------
(* What holds however many requests start runs at once. *)
LEMMA RunsAlways == RegenerationSpec => []RunsInv
<1> QED
  BY InitRuns, RunsStep, PTL DEF RegenerationSpec

(* RegenerationTypeOK: the row of every run and the copies of every request keep the      *)
(* types of start_regeneration() and _perform_regeneration().                 *)
THEOREM RegenerationTypeCorrect == RegenerationSpec => []RegenerationTypeOK
<1>1. RunsInv => RegenerationTypeOK
  BY DEF RunsInv
<1> QED
  BY <1>1, RunsAlways, PTL

(* GateHeld: a run that policy held is performed only after somebody other    *)
(* than its requester approved it (approve_regeneration()), for any number of *)
(* requests in flight.                                                        *)
THEOREM RegenerationGate == RegenerationSpec => []GateHeld
<1>1. RunsInv => GateHeld
  BY DEF RunsInv, RunKept, GateHeld
<1> QED
  BY <1>1, RunsAlways, PTL

(* StagesInOrder: _perform_regeneration() records each stage once, in a known *)
(* order, completes a run with all of them only, and fails it only at its     *)
(* checkpoint, for any number of requests in flight.                          *)
THEOREM RegenerationInOrder == RegenerationSpec => []StagesInOrder
<1>1. ASSUME RunsInv PROVE StagesInOrder
  <2> SUFFICES ASSUME NEW r \in Stored, run[r].status # "failed"
               PROVE  /\ IsPrefix(run[r].stages, Sequence)
                      /\ run[r].status = "completed" <=> run[r].stages = Sequence
    BY <1>1 DEF RunsInv, RunKept, StagesInOrder
  <2>1. RunKept(run[r]) /\ run[r] \in Rows
    BY <1>1, RowsStored DEF RunsInv, Stored
  <2>2. run[r].status \in {"requires_approval", "blocked", "running", "completed"}
    BY <2>1 DEF Rows, Statuses, Active
  <2>3. PICK k \in 0..6 : run[r].stages = Done(k) /\ (run[r].status = "completed" <=> k = 6)
    <3>1. Done(0) = <<>> /\ 0 \in 0..6 /\ 6 \in 0..6 /\ 0..5 \subseteq 0..6
      BY DonePrefix, 0 \in 0..6
    <3>2. CASE run[r].status \in {"requires_approval", "blocked"}
      BY <2>1, <3>1, <3>2 DEF RunKept
    <3>3. CASE run[r].status = "running"
      <4>1. PICK k \in 0..5 : run[r].stages = Done(k)
        BY <2>1, <3>3 DEF RunKept
      <4>2. k \in 0..6 /\ k # 6
        OBVIOUS
      <4> QED
        BY <3>3, <4>1, <4>2
    <3>4. CASE run[r].status = "completed"
      BY <2>1, <3>1, <3>4 DEF RunKept
    <3> QED
      BY <2>2, <3>2, <3>3, <3>4
  <2> QED
    BY <2>3, DonePrefix
<1> QED
  BY <1>1, RunsAlways, PTL

-----------------------------------------------------------------------------
(* Requests to start a run do not overlap. *)
ContainedStep ==
  runtime'.by # runtime.by =>
    runtime.status # "active" /\ runtime'.generation > runtime.generation
FailureStep ==
  \A r \in Stored : run[r].status = "running" /\ run'[r].status = "failed"
    => runtime'.status # "active"
SerialStep == SerialInv' /\ ContainedStep /\ FailureStep

(* The request that performs a run is alone with it. *)
LEMMA AlonePerforms ==
  ASSUME SerialInv, NEW q \in Requests, Performs(q)
  PROVE  /\ \A p \in Requests : Performs(p) => p = q
         /\ \A p \in Requests : request[p].pc # "starting"
         /\ \A s \in Stored : run[s].status \in Active => s = request[q].of
<1>1. request[q].of \in Stored /\ run[request[q].of].status = "running"
  BY Performer DEF SerialInv
<1>2. "running" \in Active
  BY DEF Active
<1>3. \A s \in Stored : run[s].status \in Active => s = request[q].of
  BY <1>1, <1>2 DEF SerialInv, Active1
<1>4. \A p \in Requests : Performs(p) => request[p].of = request[q].of
  BY <1>2, <1>3, Performer DEF SerialInv
<1>5. \A p \in Requests : request[p].pc # "starting"
  BY <1>1, <1>2 DEF SerialInv, StartKept
<1> QED
  BY <1>3, <1>4, <1>5 DEF SerialInv, RunsInv, OnePerformer

(* Nothing but the requests changes, and no new performer. *)
LEMMA ReadsSerial ==
  ASSUME SerialInv, NEW q \in Requests, RunsInv', UNCHANGED <<run, runtime>>,
         \A p \in Requests \ {q} : request'[p] = request[p],
         request'[q].pc \in {"idle", "starting", "approving"},
         request'[q].pc = "starting" =>
           /\ \A r \in Stored : run[r].status \notin Active
           /\ \A p \in Requests : request[p].pc # "starting"
  PROVE  SerialStep
<1> USE IdleFacts
<1>1. run' = run /\ runtime' = runtime /\ Stored' = Stored /\ ~Performs(q)'
  BY DEF Stored, Performs
<1>2. \A p \in Requests : CopyKept(p)'
  BY <1>1 DEF SerialInv, CopyKept, Performs
<1>3. StartKept'
  BY <1>1 DEF SerialInv, StartKept
<1>4. Active1'
  BY <1>1 DEF SerialInv, Active1
<1>5. ContainedStep /\ FailureStep
  BY <1>1 DEF ContainedStep, FailureStep
<1> QED
  BY <1>1, <1>2, <1>3, <1>4, <1>5 DEF SerialInv, SerialStep

LEMMA StartCheckSerial ==
  ASSUME SerialInv, ~Overlap, NEW q \in Requests, StartCheck(q)
  PROVE  SerialStep
<1>1. PICK p \in People :
        request' = [request EXCEPT ![q] = [Idle EXCEPT !.pc = "starting", !.who = p]]
  BY DEF StartCheck
<1> DEFINE new == [Idle EXCEPT !.pc = "starting", !.who = p]
<1>2. new.pc = "starting"
  BY DEF Idle
<1> HIDE DEF new
<1>3. request'[q] = new /\ \A s \in Requests \ {q} : request'[s] = request[s]
  BY <1>1 DEF SerialInv, RunsInv, RegenerationTypeOK, new
<1>4. /\ \A r \in Stored : run[r].status \notin Active
      /\ \A s \in Requests : request[s].pc # "starting"
      /\ UNCHANGED <<run, runtime>>
  BY DEF StartCheck, StartsAlone
<1>5. RunsInv'
  BY StartCheckKeeps DEF SerialInv
<1> QED
  BY <1>2, <1>3, <1>4, <1>5, ReadsSerial

LEMMA IdleOrReadSerial ==
  ASSUME SerialInv, NEW q \in Requests, Abort(q) \/ ApproveRead(q)
  PROVE  SerialStep
<1> USE IdleFacts
<1>1. RunsInv'
  BY AbortKeeps, ApproveReadKeeps DEF SerialInv
<1>2. request \in [Requests -> RequestType]
  BY DEF SerialInv, RunsInv, RegenerationTypeOK, RequestType
<1>3. /\ request'[q].pc \in {"idle", "approving"}
      /\ \A s \in Requests \ {q} : request'[s] = request[s]
  <2>1. CASE Abort(q)
    BY <1>2, <2>1 DEF Abort
  <2>2. CASE ApproveRead(q)
    <3>1. PICK p \in People, r \in Stored : request' = [request EXCEPT ![q] =
             [Idle EXCEPT !.pc = "approving", !.who = p, !.of = r]]
      BY <2>2 DEF ApproveRead
    <3> DEFINE new == [Idle EXCEPT !.pc = "approving", !.who = p, !.of = r]
    <3>2. new.pc = "approving"
      BY DEF Idle
    <3> HIDE DEF new
    <3>3. request'[q] = new /\ \A s \in Requests \ {q} : request'[s] = request[s]
      BY <1>2, <3>1 DEF new
    <3> QED
      BY <3>2, <3>3
  <2> QED
    BY <2>1, <2>2
<1>4. UNCHANGED <<run, runtime>>
  BY DEF Abort, ApproveRead
<1> QED
  BY <1>1, <1>3, <1>4, ReadsSerial

LEMMA StartStoreSerial ==
  ASSUME SerialInv, NEW q \in Requests, StartStore(q)
  PROVE  SerialStep
<1> USE IdleFacts
<1>1. PICK r \in Runs \ Stored, status \in Active \cup {"blocked"} :
        /\ run' = [run EXCEPT ![r] =
             [status |-> status, requester |-> request[q].who, approver |-> Nobody,
              held |-> (status = "requires_approval"), stages |-> <<>>]]
        /\ request' = [request EXCEPT ![q] =
             IF status = "running" THEN [Idle EXCEPT !.pc = "contain", !.of = r]
             ELSE Idle]
  BY DEF StartStore
<1> DEFINE new == IF status = "running" THEN [Idle EXCEPT !.pc = "contain", !.of = r]
                  ELSE Idle
<1>2. new.pc \in {"contain", "idle"}
  BY DEF Idle
<1> HIDE DEF new
<1>3. request \in [Requests -> RequestType] /\ run \in [Runs -> Rows \cup {NoRow}]
      /\ runtime' = runtime
  BY DEF SerialInv, RunsInv, RegenerationTypeOK, RequestType, StartStore
<1>4. request'[q] = new /\ \A s \in Requests \ {q} : request'[s] = request[s]
  BY <1>1, <1>3 DEF new
<1>5. \A t \in Runs \ {r} : run'[t] = run[t]
  BY <1>1, <1>3
<1>6. \A t \in Stored' \ {r} : t \in Stored /\ run'[t] = run[t]
  BY <1>5 DEF Stored
<1>7. \A t \in Stored : t # r /\ run'[t] = run[t] /\ t \in Stored'
  BY <1>5 DEF Stored
<1>8. \A t \in Stored : run[t].status \notin Active
  BY DEF SerialInv, StartKept, StartStore
<1>9. RunsInv'
  BY StartStoreKeeps DEF SerialInv
<1>10. Active1'
  BY <1>6, <1>8 DEF Active1
<1>11. \A p \in Requests : ~Performs(p)
  BY <1>8, Performer DEF SerialInv, Active
<1>12. StartKept'
  <2>1. \A p \in Requests \ {q} : request[p].pc # "starting"
    BY DEF SerialInv, StartKept, StartStore
  <2> QED
    BY <1>2, <1>4, <2>1 DEF StartKept
<1>13. \A p \in Requests : CopyKept(p)'
  BY <1>2, <1>4, <1>11 DEF CopyKept, Performs
<1>14. runtime'.status = "active" =>
         runtime'.by \in Stored' /\ run'[runtime'.by].status = "completed"
  BY <1>3, <1>7 DEF SerialInv
<1>15. ContainedStep /\ FailureStep
  BY <1>3, <1>7 DEF ContainedStep, FailureStep
<1> QED
  BY <1>9, <1>10, <1>12, <1>13, <1>14, <1>15 DEF SerialInv, SerialStep

LEMMA ApproveSerial ==
  ASSUME SerialInv, NEW q \in Requests, Approve(q)
  PROVE  SerialStep
<1> USE IdleFacts DEF Active
<1> DEFINE r == request[q].of
           new == [Idle EXCEPT !.pc = "contain", !.of = r, !.stages = run[r].stages]
<1>1. r \in Stored /\ run[r].status = "requires_approval" /\ r \in Runs /\ run[r] \in Rows
  <2>1. r \in Stored /\ run[r].status = "requires_approval"
    BY DEF Approve, SerialInv, RunsInv, RequestKept
  <2> QED
    BY <2>1, RowsStored DEF SerialInv, RunsInv, Stored
<1>2. /\ run' = [run EXCEPT ![r].status = "running", ![r].approver = request[q].who]
      /\ request' = [request EXCEPT ![q] = new] /\ runtime' = runtime
  BY DEF Approve, Granted
<1>3. new.pc = "contain"
  BY DEF Idle
<1> HIDE DEF new, r
<1>4. request \in [Requests -> RequestType] /\ run \in [Runs -> Rows \cup {NoRow}]
  BY DEF SerialInv, RunsInv, RegenerationTypeOK, RequestType
<1>5. request'[q] = new /\ \A s \in Requests \ {q} : request'[s] = request[s]
  BY <1>2, <1>4
<1>6. run'[r].status = "running" /\ \A t \in Runs \ {r} : run'[t] = run[t]
  BY <1>1, <1>2, <1>4 DEF Rows
<1>7. RunsInv'
  BY ApproveKeeps DEF SerialInv
<1>8. r \in Stored' /\ \A t \in Runs \ {r} : t \in Stored' <=> t \in Stored
  <2>1. run'[r] # NoRow
    BY <1>6 DEF NoRow
  <2> QED
    BY <1>1, <1>6, <2>1 DEF Stored
<1>9. \A t \in Stored' : t \in Stored /\ (run'[t].status \in Active => run[t].status \in Active)
  BY <1>1, <1>6, <1>8 DEF Stored
<1>10. Active1'
  BY <1>9 DEF SerialInv, Active1
<1>11. \A p \in Requests : request[p].pc # "starting"
  BY <1>1 DEF SerialInv, StartKept
<1>12. StartKept'
  BY <1>3, <1>5, <1>11 DEF StartKept
<1>13. \A p \in Requests : CopyKept(p)'
  BY <1>2, <1>3, <1>5 DEF SerialInv, CopyKept, Performs
<1>14. runtime'.status = "active" =>
         runtime'.by \in Stored' /\ run'[runtime'.by].status = "completed"
  <2>1. runtime.status = "active" => runtime.by # r /\ runtime.by \in Runs
    BY <1>1 DEF SerialInv, Stored
  <2> QED
    BY <1>2, <1>6, <1>8, <2>1 DEF SerialInv
<1>15. ContainedStep /\ FailureStep
  BY <1>1, <1>2, <1>6 DEF ContainedStep, FailureStep, Stored
<1> QED
  BY <1>7, <1>10, <1>12, <1>13, <1>14, <1>15 DEF SerialInv, SerialStep

(* A stage that is done and leaves the runtime out of service, the copy of    *)
(* the request being the row.                                                 *)
LEMMA StageSerial ==
  ASSUME SerialInv, NEW q \in Requests, Performs(q), RunsInv',
         NEW new \in Runtimes, new.status # "active", runtime' = new,
         NEW next \in Performing, next # "contain", NEW stages,
         next \in {"rehydrate", "verify", "rejoin"} => new.by = request[q].of,
         request' = [request EXCEPT ![q] =
           [request[q] EXCEPT !.pc = next, !.runtime = new, !.stages = stages]],
         run' = [run EXCEPT ![request[q].of] =
           [run[request[q].of] EXCEPT !.status = "running", !.stages = stages]],
         ContainedStep
  PROVE  SerialStep
<1> USE IdleFacts
<1> DEFINE r == request[q].of
           copy == [request[q] EXCEPT !.pc = next, !.runtime = new, !.stages = stages]
<1>1. /\ r \in Stored /\ r \in Runs /\ run[r] \in Rows /\ request[q] \in RequestType
      /\ request \in [Requests -> RequestType] /\ run \in [Runs -> Rows \cup {NoRow}]
      /\ run[r].status = "running"
  BY Performer DEF SerialInv, RunsInv, RegenerationTypeOK, RequestType
<1>2. copy.pc = next /\ copy.runtime = new /\ copy.of = r
  BY <1>1 DEF RequestType
<1>3. request' = [request EXCEPT ![q] = copy]
  OBVIOUS
<1>4. run'[r].status = "running" /\ \A t \in Runs \ {r} : run'[t] = run[t]
  <2> HIDE DEF r
  <2> QED
    BY <1>1 DEF Rows, r
<1> HIDE DEF copy
<1>5. request'[q] = copy /\ \A p \in Requests \ {q} : request'[p] = request[p]
  BY <1>1, <1>3
<1>6. \A t \in Stored' : t \in Stored /\ run'[t].status = run[t].status
  BY <1>1, <1>4 DEF Stored
<1>7. Active1'
  BY <1>6 DEF SerialInv, Active1
<1>8. StartKept'
  <2>1. next # "starting"
    OBVIOUS
  <2> QED
    BY <1>2, <1>5, <2>1, AlonePerforms DEF StartKept
<1>9. \A p \in Requests : CopyKept(p)'
  <2>1. \A p \in Requests \ {q} : ~Performs(p)'
    BY <1>5, AlonePerforms DEF Performs
  <2>2. CopyKept(q)'
    BY <1>2, <1>5 DEF CopyKept
  <2> QED
    BY <2>1, <2>2 DEF CopyKept
<1>10. FailureStep
  BY DEF FailureStep
<1> QED
  BY <1>7, <1>8, <1>9, <1>10 DEF SerialInv, SerialStep

(* A run that ends. *)
LEMMA EndSerial ==
  ASSUME SerialInv, NEW q \in Requests, Performs(q), RunsInv',
         request' = [request EXCEPT ![q] = Idle],
         NEW status \in {"completed", "failed"},
         run'[request[q].of].status = status,
         \A t \in Runs \ {request[q].of} : run'[t] = run[t],
         runtime'.status = "active" => status = "completed" /\ runtime'.by = request[q].of,
         ContainedStep
  PROVE  SerialStep
<1> USE IdleFacts
<1> DEFINE r == request[q].of
<1>1. /\ r \in Stored /\ r \in Runs /\ run[r].status = "running"
      /\ request \in [Requests -> RequestType]
  BY Performer DEF SerialInv, RunsInv, RegenerationTypeOK, RequestType
<1>2. request'[q] = Idle /\ \A p \in Requests \ {q} : request'[p] = request[p]
  BY <1>1
<1>3. r \in Stored'
  BY <1>1 DEF Stored, NoRow
<1>4. \A t \in Stored' \ {r} : t \in Stored /\ run'[t] = run[t] /\ run[t].status \notin Active
  <2>1. \A t \in Stored' \ {r} : t \in Stored /\ run'[t] = run[t]
    BY DEF Stored
  <2> QED
    BY <2>1, AlonePerforms
<1>5. Active1'
  BY <1>4 DEF Active1
<1>6. StartKept'
  BY <1>2, AlonePerforms DEF StartKept
<1>7. \A p \in Requests : CopyKept(p)'
  BY <1>2, AlonePerforms DEF CopyKept, Performs
<1>8. FailureStep
  <2>1. \A t \in Stored : t # r => run'[t] = run[t]
    BY DEF Stored
  <2> QED
    BY <1>1, <2>1 DEF FailureStep
<1> QED
  BY <1>3, <1>5, <1>6, <1>7, <1>8 DEF SerialInv, SerialStep

(* The copy is the row: what a request records is what the row becomes. *)
LEMMA CopyIsRow ==
  ASSUME NEW a \in Runtimes, NEW c \in Runtimes, NEW d,
         d = [f \in DOMAIN a |-> IF c[f] = a[f] THEN a[f] ELSE c[f]]
  PROVE  d = c
<1>1. /\ d \in Runtimes /\ d.status = c.status /\ d.by = c.by
      /\ d.generation = c.generation
  BY RuntimeMixed
<1> QED
  BY <1>1 DEF Runtimes

LEMMA RecordedRow ==
  ASSUME SerialInv, NEW q \in Requests, Performs(q), request[q].pc # "contain",
         NEW stage, NEW status, NEW new \in Runtimes, Recorded(q, stage, status, new)
  PROVE  runtime' = new /\ request[q].runtime = runtime /\ runtime.status # "active"
<1>1. request[q].runtime = runtime /\ runtime.status # "active"
  BY DEF SerialInv, CopyKept
<1>2. runtime' = [f \in DOMAIN runtime |->
                    IF new[f] = request[q].runtime[f] THEN runtime[f] ELSE new[f]]
  BY DEF Recorded
<1>3. runtime \in Runtimes
  BY Performer DEF SerialInv
<1>4. runtime' = [f \in DOMAIN runtime |-> IF new[f] = runtime[f] THEN runtime[f] ELSE new[f]]
  BY <1>1, <1>2
<1> QED
  BY <1>1, <1>3, <1>4, CopyIsRow

LEMMA ContainSerial ==
  ASSUME SerialInv, NEW q \in Requests, Contain(q)
  PROVE  SerialStep
<1>1. PICK new \in Runtimes :
        /\ RunsInv'
        /\ new.status # "active" /\ runtime' = new
        /\ new.by = runtime.by /\ new.generation = runtime.generation
        /\ request' = [request EXCEPT ![q] =
             [request[q] EXCEPT !.pc = "checkpoint", !.runtime = new,
                                !.stages = Append(request[q].stages, "contain")]]
        /\ run' = [run EXCEPT ![request[q].of] =
             [run[request[q].of] EXCEPT !.status = "running",
                !.stages = Append(request[q].stages, "contain")]]
  BY ContainKeeps DEF SerialInv
<1>2. Performs(q) /\ "checkpoint" \in Performing
  BY SequenceFacts DEF Contain, Performs
<1>3. ContainedStep
  BY <1>1 DEF ContainedStep
<1> QED
  BY <1>1, <1>2, <1>3, StageSerial

LEMMA NextStages ==
  /\ Next6("checkpoint") = "recreate" /\ Next6("recreate") = "rehydrate"
  /\ Next6("rehydrate") = "verify" /\ Next6("verify") = "rejoin"
<1>1. \A i, j \in 1..6 : Sequence[i] = Sequence[j] => i = j
  <2>1. 1..6 = {1, 2, 3, 4, 5, 6}
    OBVIOUS
  <2> QED
    BY <2>1, SequenceFacts
<1>2. \A k \in 2..5 : Next6(Sequence[k]) = Sequence[k + 1]
  <2> SUFFICES ASSUME NEW k \in 2..5 PROVE Next6(Sequence[k]) = Sequence[k + 1]
    OBVIOUS
  <2>1. k - 1 \in 0..4 /\ (k - 1) + 1 = k /\ (k - 1) + 2 = k + 1
    OBVIOUS
  <2>2. Next6(Sequence[(k - 1) + 1]) = Sequence[(k - 1) + 2]
    BY <2>1, NextStage
  <2> QED
    BY <2>1, <2>2
<1>3. /\ Next6(Sequence[2]) = Sequence[3] /\ Next6(Sequence[3]) = Sequence[4]
      /\ Next6(Sequence[4]) = Sequence[5] /\ Next6(Sequence[5]) = Sequence[6]
  BY <1>2
<1> QED
  BY <1>3, SequenceFacts

(* A stage between the first and the last that is recorded. *)
LEMMA RecordedSerial ==
  ASSUME SerialInv, NEW q \in Requests,
         NEW stage \in {"checkpoint", "recreate", "rehydrate", "verify"},
         request[q].pc = stage, NEW new \in Runtimes,
         Recorded(q, stage, "running", new), new.status # "active",
         stage # "checkpoint" => new.by = request[q].of,
         \/ new = runtime
         \/ new.generation > runtime.generation
  PROVE  SerialStep
<1>1. Performs(q) /\ request[q].pc # "contain"
  BY SequenceFacts DEF Performs
<1>2. runtime' = new /\ runtime.status # "active"
  BY <1>1, RecordedRow
<1> DEFINE stages == Append(request[q].stages, stage)
<1>3. /\ RunsInv'
      /\ request' = [request EXCEPT ![q] =
           [request[q] EXCEPT !.pc = Next6(stage), !.runtime = new, !.stages = stages]]
      /\ run' = [run EXCEPT ![request[q].of] =
           [run[request[q].of] EXCEPT !.status = "running", !.stages = stages]]
  <2>1. RunsInv
    BY DEF SerialInv
  <2>2. RunsInv'
    BY <2>1, RecordedStage
  <2>3. request' = [request EXCEPT ![q] =
           [request[q] EXCEPT !.pc = Next6(stage), !.runtime = new, !.stages = stages]]
    <3>1. request[q] \in RequestType
      BY <1>1, <2>1, Performer
    <3>2. request' = [request EXCEPT ![q] =
            [request[q] EXCEPT !.pc = Next6(stage), !.stages = stages, !.runtime = new]]
      BY DEF Recorded
    <3> HIDE DEF stages
    <3> QED
      BY <3>1, <3>2 DEF RequestType
  <2>4. run' = [run EXCEPT ![request[q].of] =
           [run[request[q].of] EXCEPT !.status = "running", !.stages = stages]]
    BY <2>1, RecordedStage
  <2> QED
    BY <2>2, <2>3, <2>4
<1>4. /\ Next6(stage) \in Performing /\ Next6(stage) # "contain"
      /\ Next6(stage) \in {"rehydrate", "verify", "rejoin"} => stage # "checkpoint"
  BY NextStages, SequenceFacts
<1>5. ContainedStep
  BY <1>2 DEF ContainedStep
<1> HIDE DEF stages
<1> QED
  BY <1>1, <1>2, <1>3, <1>4, <1>5, StageSerial

LEMMA StagesSerial ==
  ASSUME SerialInv, NEW q \in Requests,
         \/ Checkpoint(q) \/ Recreate(q) \/ Rehydrate(q) \/ Verify(q) \/ Rejoin(q)
  PROVE  SerialStep
<1>1. /\ Performs(q) /\ request[q].pc # "contain"
      /\ request[q].runtime = runtime /\ runtime.status # "active" /\ runtime \in Runtimes
      /\ request[q].pc \in {"rehydrate", "verify", "rejoin"} => runtime.by = request[q].of
  <2>1. Performs(q) /\ request[q].pc # "contain"
    BY SequenceFacts DEF Performs, Checkpoint, Recreate, Rehydrate, Verify, Rejoin
  <2> QED
    BY <2>1, Performer DEF SerialInv, CopyKept
<1>2. RunsInv'
  BY StagesKeep DEF SerialInv
<1>3. CASE Checkpoint(q)
  <2>1. CASE Recorded(q, "checkpoint", "running", runtime)
    BY <1>1, <1>3, <2>1, RecordedSerial DEF Checkpoint
  <2>2. CASE Recorded(q, "failed", "failed", runtime)
    <3>1. /\ request' = [request EXCEPT ![q] = Idle]
          /\ run'[request[q].of].status = "failed"
          /\ \A t \in Runs \ {request[q].of} : run'[t] = run[t]
      BY <1>1, <1>3, <2>2, RecordedEnd DEF Checkpoint, SerialInv
    <3>2. runtime' = runtime
      BY <1>1, <2>2, RecordedRow
    <3>3. ContainedStep
      BY <3>2 DEF ContainedStep
    <3>4. runtime'.status # "active"
      BY <1>1, <3>2
    <3> QED
      BY <1>1, <1>2, <3>1, <3>3, <3>4, EndSerial
  <2> QED
    BY <1>1, <1>3, <2>1, <2>2 DEF Checkpoint, Same
<1>4. CASE Recreate(q)
  <2> DEFINE new == [status |-> "quarantined", by |-> request[q].of,
                     generation |-> runtime.generation + 1]
  <2>1. new \in Runtimes /\ new.status # "active" /\ new.by = request[q].of
        /\ new.generation > runtime.generation
    BY <1>1, Performer DEF Runtimes, SerialInv
  <2>2. Recorded(q, "recreate", "running", new)
    BY <1>1, <1>4 DEF Recreate
  <2>3. request[q].pc = "recreate"
    BY <1>4 DEF Recreate
  <2> HIDE DEF new
  <2> QED
    BY <2>1, <2>2, <2>3, RecordedSerial
<1>5. CASE Rehydrate(q)
  <2>1. request[q].pc = "rehydrate" /\ Recorded(q, "rehydrate", "running", runtime)
    BY <1>1, <1>5 DEF Rehydrate, Same
  <2> QED
    BY <1>1, <2>1, RecordedSerial
<1>6. CASE Verify(q)
  <2>1. request[q].pc = "verify" /\ Recorded(q, "verify", "running", runtime)
    BY <1>1, <1>6 DEF Verify, Same
  <2> QED
    BY <1>1, <2>1, RecordedSerial
<1>7. CASE Rejoin(q)
  <2> DEFINE new == [runtime EXCEPT !.status = "active"]
  <2>1. new \in Runtimes /\ new.by = runtime.by
    BY <1>1 DEF Runtimes
  <2>2. Recorded(q, "rejoin", "completed", new) /\ request[q].pc = "rejoin"
    BY <1>1, <1>7 DEF Rejoin, Same
  <2> HIDE DEF new
  <2>3. /\ request' = [request EXCEPT ![q] = Idle]
        /\ run'[request[q].of].status = "completed"
        /\ \A t \in Runs \ {request[q].of} : run'[t] = run[t]
    BY <1>1, <2>1, <2>2, RecordedEnd DEF SerialInv
  <2>4. runtime' = new
    BY <1>1, <2>1, <2>2, RecordedRow
  <2>5. runtime'.by = request[q].of
    BY <1>1, <2>1, <2>2, <2>4
  <2>6. ContainedStep
    BY <2>1, <2>4 DEF ContainedStep
  <2> QED
    BY <1>1, <1>2, <2>3, <2>5, <2>6, EndSerial
<1> QED
  BY <1>3, <1>4, <1>5, <1>6, <1>7

LEMMA SerialNext == SerialInv /\ ~Overlap /\ RegenerationNext => SerialStep
<1> SUFFICES ASSUME SerialInv, ~Overlap, NEW q \in Requests,
                    \/ StartCheck(q) \/ StartStore(q) \/ ApproveRead(q) \/ Approve(q)
                    \/ Contain(q) \/ Checkpoint(q) \/ Recreate(q) \/ Rehydrate(q)
                    \/ Verify(q) \/ Rejoin(q) \/ Abort(q)
             PROVE  SerialStep
  BY DEF RegenerationNext
<1> QED
  BY StartCheckSerial, StartStoreSerial, IdleOrReadSerial, ApproveSerial,
     ContainSerial, StagesSerial

LEMMA SerialStutter == SerialInv /\ UNCHANGED regenerationVars => SerialStep
<1> SUFFICES ASSUME SerialInv, UNCHANGED regenerationVars PROVE SerialStep
  OBVIOUS
<1>1. run' = run /\ runtime' = runtime /\ request' = request /\ Stored' = Stored
  BY DEF regenerationVars, Stored
<1>2. RunsInv'
  BY RunsStep DEF SerialInv
<1>3. ContainedStep /\ FailureStep
  BY <1>1 DEF ContainedStep, FailureStep
<1>4. Active1' /\ StartKept' /\ \A q \in Requests : CopyKept(q)'
  BY <1>1 DEF SerialInv, Active1, StartKept, CopyKept, Performs
<1> QED
  BY <1>1, <1>2, <1>3, <1>4 DEF SerialInv, SerialStep

LEMMA SerialAlways ==
  ASSUME ~Overlap
  PROVE  RegenerationSpec => []SerialInv /\ [][ContainedStep /\ FailureStep]_regenerationVars
<1>1. SerialInv /\ [RegenerationNext]_regenerationVars
        => SerialInv' /\ [ContainedStep /\ FailureStep]_regenerationVars
  BY SerialNext, SerialStutter DEF SerialStep
<1> QED
  BY <1>1, InitRuns, PTL DEF RegenerationSpec

(* ActiveMeansChecked: when requests to start a run do not overlap, a runtime *)
(* in service was put there by the run that created its instance and that     *)
(* completed (the rejoin stage of _perform_regeneration()).                   *)
THEOREM ActiveIsChecked == ASSUME ~Overlap PROVE RegenerationSpec => []ActiveMeansChecked
<1>1. SerialInv => ActiveMeansChecked
  BY DEF SerialInv, ActiveMeansChecked
<1> QED
  BY <1>1, SerialAlways, PTL

(* ContainedFirst: under the same condition an instance in service is never   *)
(* replaced, and a new instance has a higher generation.                      *)
THEOREM ReplacedWhenContained == ASSUME ~Overlap PROVE RegenerationSpec => ContainedFirst
<1>1. [ContainedStep /\ FailureStep]_regenerationVars =>
        [runtime'.by # runtime.by =>
           /\ runtime.status # "active"
           /\ runtime'.generation > runtime.generation]_regenerationVars
  BY DEF ContainedStep
<1> QED
  BY <1>1, SerialAlways, PTL DEF ContainedFirst

(* FailedRemainsContained: under the same condition the failure of a run      *)
(* leaves the node out of service.                                            *)
THEOREM FailureKeepsContained == ASSUME ~Overlap PROVE RegenerationSpec => FailedRemainsContained
<1>1. [ContainedStep /\ FailureStep]_regenerationVars =>
        [\A r \in Stored : run[r].status = "running" /\ run'[r].status = "failed"
           => runtime'.status # "active"]_regenerationVars
  BY DEF FailureStep
<1> QED
  BY <1>1, SerialAlways, PTL DEF FailedRemainsContained
=============================================================================
