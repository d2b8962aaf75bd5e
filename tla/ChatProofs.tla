----------------------------- MODULE ChatProofs -----------------------------
(***************************************************************************)
(* Theorems about ChatMessages and ChatThread, for every set of messages,  *)
(* users and workers and every bound.                                      *)
(***************************************************************************)
EXTENDS ChatThread, FiniteSetTheorems, SequenceTheorems, WellFoundedInduction, TLAPS

-----------------------------------------------------------------------------
(* The inductive invariant of the server *)

SendSteps == {"findSent", "transaction", "findRaced", "announce"}
ReadSteps == {"readSeq", "setMark", "createMark"}

(* The rows are the log: one for each number, one for each message. *)
RowsOK ==
  /\ \A i \in 1..lastSeq : \E r \in rows : r.seq = i
  /\ \A r, s \in rows : r.seq = s.seq \/ r.msg = s.msg => r = s
  /\ \A r \in rows : tries[r.msg] > 0

RequestOK(w) ==
  /\ req[w].step \in SendSteps => req[w].msg \in Messages /\ tries[req[w].msg] > 0
  /\ req[w].step \in {"findRaced", "announce"} => Sent(req[w].msg)
  /\ req[w].step \in ReadSteps => req[w].user \in Users /\ req[w].msg = NoMessage
  /\ req[w].step \in {"setMark", "createMark"} => req[w].seq <= lastSeq

IInv == TypeOK /\ RowsOK /\ \A w \in Workers : RequestOK(w)

(* What a step of the server does, whoever takes it: a tab's timeouts only *)
(* count a fault.                                                          *)
CountFault == Fault /\ UNCHANGED <<lastSeq, rows, mark, req, tries>>
ServerStep == Next \/ CountFault

-----------------------------------------------------------------------------
(* Requests *)

LEMMA GotoType ==
  ASSUME TypeOK, NEW w \in Workers, NEW step \in Steps, Goto(w, step)
  PROVE  /\ req' \in [Workers -> Request]
         /\ req'[w] = [req[w] EXCEPT !.step = step]
         /\ \A v \in Workers \ {w} : req'[v] = req[v]
BY DEF TypeOK, Goto, Request

LEMMA DoneType ==
  ASSUME TypeOK, NEW w \in Workers, Done(w)
  PROVE  /\ req' \in [Workers -> Request]
         /\ req'[w] = Idle
         /\ \A v \in Workers \ {w} : req'[v] = req[v]
<1>1. Idle \in Request
  BY DEF Idle, Request, Steps
<1> QED
  BY <1>1 DEF TypeOK, Done

(* The message and the user of a request that only moves on stay fit. *)
LEMMA OthersKept ==
  ASSUME IInv, NEW w \in Workers, rows \subseteq rows', lastSeq' >= lastSeq, lastSeq' \in Nat,
         \A m \in Messages : tries'[m] >= tries[m], tries' \in [Messages -> Nat],
         \A v \in Workers \ {w} : req'[v] = req[v]
  PROVE  \A v \in Workers \ {w} : RequestOK(v)'
<1> SUFFICES ASSUME NEW v \in Workers \ {w} PROVE RequestOK(v)'
  OBVIOUS
<1>1. RequestOK(v) /\ req'[v] = req[v] /\ req[v] \in Request
  BY DEF IInv, TypeOK
<1>2. Sent(req[v].msg) => Sent(req[v].msg)'
  BY <1>1 DEF Sent
<1>3. tries \in [Messages -> Nat] /\ lastSeq \in Nat
  BY ChatAssumption DEF IInv, TypeOK
<1> QED
  BY <1>1, <1>2, <1>3 DEF RequestOK, SendSteps, ReadSteps, Request

-----------------------------------------------------------------------------
(* Every step keeps the invariant *)

LEMMA StartSendKeeps ==
  ASSUME IInv, NEW w \in Workers, NEW m \in Messages, StartSend(w, m)
  PROVE  IInv'
<1> USE DEF IInv
<1>1. req'[w] = [step |-> "findSent", msg |-> m, user |-> NoUser, seq |-> 0]
  BY DEF StartSend, TypeOK, Idle
<1>2. req' \in [Workers -> Request] /\ \A v \in Workers \ {w} : req'[v] = req[v]
  BY <1>1 DEF StartSend, TypeOK, Idle, Request, Steps
<1>3. /\ tries' \in [Messages -> 0..MaxTries]
      /\ tries'[m] > 0
      /\ \A x \in Messages : tries'[x] >= tries[x]
  BY ChatAssumption DEF StartSend, TypeOK
<1>4. TypeOK'
  BY <1>2, <1>3 DEF StartSend, TypeOK
<1>5. RowsOK'
  <2>1. \A r \in rows : tries'[r.msg] > 0
    BY <1>3, ChatAssumption DEF RowsOK, TypeOK
  <2> QED
    BY <2>1 DEF RowsOK, StartSend
<1>6. RequestOK(w)'
  BY <1>1, <1>3 DEF RequestOK, SendSteps, ReadSteps
<1>7. \A v \in Workers \ {w} : RequestOK(v)'
  <2>1. tries' \in [Messages -> Nat] /\ rows \subseteq rows' /\ lastSeq' >= lastSeq /\ lastSeq' \in Nat
    BY <1>3, ChatAssumption DEF StartSend, TypeOK
  <2> QED
    BY <2>1, <1>2, <1>3, OthersKept
<1> QED
  BY <1>4, <1>5, <1>6, <1>7

(* A step that only moves a request on. *)
LEMMA MoveKeeps ==
  ASSUME IInv, NEW w \in Workers, UNCHANGED <<lastSeq, rows, tries>>,
         mark' \in [Users -> {NoRow} \cup 0..lastSeq],
         req' \in [Workers -> Request], \A v \in Workers \ {w} : req'[v] = req[v],
         faults' \in 0..MaxFaults, RequestOK(w)'
  PROVE  IInv'
<1>1. TypeOK'
  BY DEF IInv, TypeOK
<1>2. RowsOK'
  BY DEF IInv, RowsOK
<1>3. tries \in [Messages -> Nat] /\ lastSeq \in Nat
  BY ChatAssumption DEF IInv, TypeOK
<1>4. \A v \in Workers \ {w} : RequestOK(v)'
  BY <1>3, OthersKept
<1> QED
  BY <1>1, <1>2, <1>4 DEF IInv

LEMMA GotoKeeps ==
  ASSUME IInv, NEW w \in Workers, NEW step \in Steps, Goto(w, step),
         UNCHANGED <<lastSeq, rows, mark, tries, faults>>,
         \/ req[w].step = "findSent" /\ step = "transaction"
         \/ req[w].step = "transaction" /\ step = "findRaced" /\ Sent(req[w].msg)
         \/ req[w].step = "setMark" /\ step = "createMark"
  PROVE  IInv'
<1>1. /\ req' \in [Workers -> Request]
      /\ req'[w] = [req[w] EXCEPT !.step = step]
      /\ \A v \in Workers \ {w} : req'[v] = req[v]
  BY GotoType DEF IInv
<1>2. req[w] \in Request /\ RequestOK(w)
  BY DEF IInv, TypeOK
<1>3. /\ req'[w].step = step /\ req'[w].msg = req[w].msg
      /\ req'[w].user = req[w].user /\ req'[w].seq = req[w].seq
  BY <1>1, <1>2 DEF Request
<1>4. RequestOK(w)'
  BY <1>2, <1>3 DEF RequestOK, SendSteps, ReadSteps, Sent
<1> QED
  BY <1>1, <1>4, MoveKeeps DEF IInv, TypeOK

LEMMA DoneKeeps ==
  ASSUME IInv, NEW w \in Workers, Done(w), UNCHANGED <<lastSeq, rows, tries>>,
         mark' \in [Users -> {NoRow} \cup 0..lastSeq], faults' \in 0..MaxFaults
  PROVE  IInv'
<1>1. req'[w] = Idle /\ req' \in [Workers -> Request] /\ \A v \in Workers \ {w} : req'[v] = req[v]
  BY DoneType DEF IInv
<1>2. RequestOK(w)'
  BY <1>1 DEF RequestOK, Idle, SendSteps, ReadSteps
<1> QED
  BY <1>1, <1>2, MoveKeeps

LEMMA TransactionKeeps ==
  ASSUME IInv, NEW w \in Workers, Transaction(w)
  PROVE  IInv'
<1> DEFINE m == req[w].msg
           row == [seq |-> lastSeq + 1, msg |-> m]
<1>1. /\ m \in Messages /\ tries[m] > 0 /\ ~ Sent(m)
      /\ lastSeq' = lastSeq + 1 /\ rows' = rows \cup {row}
      /\ mark' = [mark EXCEPT ![Sender[m]] = lastSeq + 1]
      /\ Goto(w, "announce") /\ UNCHANGED <<tries, faults>>
  BY DEF Transaction, At, IInv, RequestOK, SendSteps
<1>2. /\ req' \in [Workers -> Request]
      /\ req'[w] = [req[w] EXCEPT !.step = "announce"]
      /\ \A v \in Workers \ {w} : req'[v] = req[v]
  BY <1>1, GotoType DEF IInv, Steps
<1>r. row \in rows' /\ row.seq = lastSeq + 1 /\ row.msg = m
  BY <1>1
<1>3. lastSeq \in Nat /\ lastSeq' \in Nat
  BY <1>1 DEF IInv, TypeOK
<1>4. rows' \subseteq [seq: 1..lastSeq', msg: Messages]
  BY <1>1, <1>3 DEF IInv, TypeOK
<1>5. mark' \in [Users -> {NoRow} \cup 0..lastSeq']
  BY <1>1, <1>3, ChatAssumption DEF IInv, TypeOK
<1>6. TypeOK'
  BY <1>1, <1>2, <1>3, <1>4, <1>5 DEF IInv, TypeOK
<1>7. RowsOK'
  <2>1. ASSUME NEW i \in 1..lastSeq' PROVE \E r \in rows' : r.seq = i
    <3>1. CASE i = lastSeq + 1
      BY <3>1, <1>r
    <3>2. CASE i # lastSeq + 1
      <4>1. i \in 1..lastSeq
        BY <3>2, <1>1, <1>3
      <4> QED
        BY <4>1, <1>1 DEF IInv, RowsOK
    <3> QED
      BY <3>1, <3>2
  <2>2. \A r \in rows : r.seq # lastSeq + 1 /\ r.msg # m
    BY <1>1, <1>3 DEF IInv, TypeOK, Sent
  <2>3. \A r, s \in rows' : r.seq = s.seq \/ r.msg = s.msg => r = s
    BY <1>1, <2>2 DEF IInv, RowsOK
  <2>4. \A r \in rows' : tries'[r.msg] > 0
    BY <1>1 DEF IInv, RowsOK
  <2> QED
    BY <2>1, <2>3, <2>4 DEF RowsOK
<1>8. RequestOK(w)'
  <2>1. req[w] \in Request
    BY DEF IInv, TypeOK
  <2>2. req'[w].step = "announce" /\ req'[w].msg = m
    BY <1>2, <2>1 DEF Request
  <2>3. \E r \in rows' : r.msg = m
    BY <1>r
  <2> QED
    BY <2>2, <2>3, <1>1 DEF RequestOK, SendSteps, ReadSteps, Sent
<1>9. \A v \in Workers \ {w} : RequestOK(v)'
  <2>1. tries' \in [Messages -> Nat] /\ lastSeq' >= lastSeq /\ rows \subseteq rows'
        /\ \A x \in Messages : tries'[x] >= tries[x]
    BY <1>1, <1>3, ChatAssumption DEF IInv, TypeOK
  <2> QED
    BY <2>1, <1>2, <1>3, OthersKept
<1> QED
  BY <1>6, <1>7, <1>8, <1>9 DEF IInv

LEMMA StartReadKeeps ==
  ASSUME IInv, NEW w \in Workers, NEW u \in Users, NEW seq \in Nat, StartRead(w, u, seq)
  PROVE  IInv'
<1>1. req'[w] = [step |-> "readSeq", msg |-> NoMessage, user |-> u, seq |-> seq]
  BY DEF StartRead, IInv, TypeOK, Idle
<1>2. req' \in [Workers -> Request] /\ \A v \in Workers \ {w} : req'[v] = req[v]
  BY <1>1 DEF StartRead, IInv, TypeOK, Idle, Request, Steps
<1>3. RequestOK(w)'
  BY <1>1 DEF RequestOK, SendSteps, ReadSteps
<1> QED
  BY <1>2, <1>3, MoveKeeps DEF StartRead, IInv, TypeOK

LEMMA ReadSeqKeeps ==
  ASSUME IInv, NEW w \in Workers, ReadSeq(w)
  PROVE  IInv'
<1> DEFINE target == IF req[w].seq <= lastSeq THEN req[w].seq ELSE lastSeq
<1>1. req[w] \in Request /\ RequestOK(w) /\ At(w, "readSeq") /\ lastSeq \in Nat
  BY DEF IInv, TypeOK, ReadSeq
<1>2. target \in Nat /\ target <= lastSeq
  BY <1>1 DEF Request
<1>3. req' = [req EXCEPT ![w] = [[req[w] EXCEPT !.step = "setMark"] EXCEPT !.seq = target]]
  BY <1>1 DEF ReadSeq, IInv, TypeOK, Request
<1>4. /\ req'[w].step = "setMark" /\ req'[w].msg = req[w].msg
      /\ req'[w].user = req[w].user /\ req'[w].seq = target
      /\ req' \in [Workers -> Request] /\ \A v \in Workers \ {w} : req'[v] = req[v]
  BY <1>1, <1>2, <1>3 DEF IInv, TypeOK, Request, Steps
<1>5. RequestOK(w)'
  BY <1>1, <1>2, <1>4 DEF RequestOK, SendSteps, ReadSteps, At, ReadSeq
<1> QED
  BY <1>4, <1>5, MoveKeeps DEF ReadSeq, IInv, TypeOK

(* The read position a request sets is within the log. *)
LEMMA TargetInLog ==
  ASSUME IInv, NEW w \in Workers, At(w, "setMark") \/ At(w, "createMark")
  PROVE  req[w].user \in Users /\ req[w].seq \in 0..lastSeq
BY DEF IInv, TypeOK, Request, RequestOK, At, ReadSteps

LEMMA SetMarkKeeps ==
  ASSUME IInv, NEW w \in Workers, SetMark(w)
  PROVE  IInv'
<1>1. req[w].user \in Users /\ req[w].seq \in 0..lastSeq /\ mark \in [Users -> {NoRow} \cup 0..lastSeq]
  BY TargetInLog DEF SetMark, IInv, TypeOK
<1>2. CASE mark[req[w].user] # NoRow /\ mark[req[w].user] < req[w].seq
  BY <1>1, <1>2, DoneKeeps DEF SetMark, IInv, TypeOK
<1>3. CASE ~ (mark[req[w].user] # NoRow /\ mark[req[w].user] < req[w].seq)
  BY <1>3, GotoKeeps DEF SetMark, At, Steps
<1> QED
  BY <1>2, <1>3

LEMMA CreateMarkKeeps ==
  ASSUME IInv, NEW w \in Workers, CreateMark(w)
  PROVE  IInv'
<1>1. req[w].user \in Users /\ req[w].seq \in 0..lastSeq /\ mark \in [Users -> {NoRow} \cup 0..lastSeq]
  BY TargetInLog DEF CreateMark, IInv, TypeOK
<1>2. mark' \in [Users -> {NoRow} \cup 0..lastSeq]
  BY <1>1 DEF CreateMark
<1> QED
  BY <1>2, DoneKeeps DEF CreateMark, IInv, TypeOK

LEMMA SendKeeps ==
  ASSUME IInv, NEW w \in Workers, Send(w)
  PROVE  IInv'
<1>1. CASE FindSent(w) \/ FindRaced(w) \/ Announce(w)
  BY <1>1, DoneKeeps DEF FindSent, FindRaced, Announce, IInv, TypeOK
<1>2. CASE FindNothing(w)
  BY <1>2, GotoKeeps DEF FindNothing, At, Steps
<1>3. CASE Transaction(w)
  BY <1>3, TransactionKeeps
<1>4. CASE Conflict(w)
  BY <1>4, GotoKeeps DEF Conflict, At, Steps
<1> QED
  BY <1>1, <1>2, <1>3, <1>4 DEF Send

LEMMA StepKeeps ==
  ASSUME IInv, ServerStep
  PROVE  IInv'
<1>1. ASSUME NEW w \in Workers, NEW m \in Messages, StartSend(w, m) PROVE IInv'
  BY <1>1, StartSendKeeps
<1>2. ASSUME NEW w \in Workers, NEW u \in Users, NEW seq \in 1..Cardinality(Messages), StartRead(w, u, seq)
      PROVE IInv'
  BY <1>2, FS_CardinalityType, ChatAssumption, StartReadKeeps
<1>3. ASSUME NEW w \in Workers, Send(w) PROVE IInv'
  BY <1>3, SendKeeps
<1>4. ASSUME NEW w \in Workers, Read(w) PROVE IInv'
  BY <1>4, ReadSeqKeeps, SetMarkKeeps, CreateMarkKeeps DEF Read
<1>5. ASSUME NEW w \in Workers, Throw(w) PROVE IInv'
  <2>1. faults' \in 0..MaxFaults
    BY <1>5, ChatAssumption DEF Throw, Fault, IInv, TypeOK
  <2> QED
    BY <1>5, <2>1, DoneKeeps DEF Throw, IInv, TypeOK
<1>6. CASE CountFault
  <2>1. faults' \in 0..MaxFaults
    BY <1>6, ChatAssumption DEF CountFault, Fault, IInv, TypeOK
  <2> QED
    BY <1>6, <2>1 DEF CountFault, IInv, TypeOK, RowsOK, RequestOK, Sent
<1> QED
  BY <1>1, <1>2, <1>3, <1>4, <1>5, <1>6 DEF ServerStep, Next

LEMMA StutterKeeps ==
  ASSUME IInv, UNCHANGED chatVars
  PROVE  IInv'
BY DEF chatVars, IInv, TypeOK, RowsOK, RequestOK, Sent

LEMMA InitHolds == Init => IInv
<1> SUFFICES ASSUME Init PROVE IInv
  OBVIOUS
<1>1. Len(Earlier) \in Nat /\ \A i \in 1..Len(Earlier) : Earlier[i] \in Messages
  BY ChatAssumption, LenProperties, ElementOfSeq
<1>2. Idle \in Request
  BY DEF Idle, Request, Steps
<1>3. TypeOK
  BY <1>1, <1>2, ChatAssumption DEF Init, TypeOK
<1>4. RowsOK
  <2>1. \A r \in rows : r.msg \in Messages /\ Sent(r.msg)
    BY <1>3 DEF TypeOK, Sent
  <2>2. \A r \in rows : tries[r.msg] > 0
    BY <2>1, ChatAssumption DEF Init
  <2>3. \A r, s \in rows : r.seq = s.seq \/ r.msg = s.msg => r = s
    BY <1>1, ChatAssumption DEF Init
  <2>4. ASSUME NEW i \in 1..lastSeq PROVE \E r \in rows : r.seq = i
    <3>1. [seq |-> i, msg |-> Earlier[i]] \in rows
      BY DEF Init
    <3> QED
      BY <3>1
  <2> QED
    BY <2>2, <2>3, <2>4 DEF RowsOK
<1>5. \A w \in Workers : RequestOK(w)
  BY DEF Init, Idle, RequestOK, SendSteps, ReadSteps
<1> QED
  BY <1>3, <1>4, <1>5 DEF IInv

-----------------------------------------------------------------------------
(* The theorems about the server *)

THEOREM Inductive == Spec => []IInv
<1>1. IInv /\ [Next]_chatVars => IInv'
  BY StepKeeps, StutterKeeps DEF ServerStep
<1> QED
  BY <1>1, InitHolds, PTL DEF Spec

(* Read positions stay within the log and rows within the numbers given    *)
(* out (Conversation.lastSeq), whichever requests interleave.              *)
THEOREM TypeCorrect == Spec => []TypeOK
<1>1. IInv => TypeOK
  BY DEF IInv
<1> QED
  BY <1>1, Inductive, PTL

-----------------------------------------------------------------------------
(* ChatMessages implements ChatLog *)

Log == [i \in 1..lastSeq |-> (CHOOSE r \in rows : r.seq = i).msg]
Position == [u \in Users |-> IF mark[u] = NoRow THEN 0 ELSE mark[u]]

(* The row of a number is the one CHOOSE finds. *)
LEMMA RowFound ==
  ASSUME IInv
  PROVE  \A r \in rows : r.seq \in 1..lastSeq /\ r.msg \in Messages /\ Log[r.seq] = r.msg
<1> SUFFICES ASSUME NEW r \in rows
             PROVE  r.seq \in 1..lastSeq /\ r.msg \in Messages /\ Log[r.seq] = r.msg
  OBVIOUS
<1>1. r.seq \in 1..lastSeq /\ r.msg \in Messages
  BY DEF IInv, TypeOK
<1>2. (CHOOSE s \in rows : s.seq = r.seq) = r
  BY DEF IInv, RowsOK
<1> QED
  BY <1>1, <1>2 DEF Log

LEMMA SameRange ==
  ASSUME NEW a \in Nat, NEW b \in Nat, 1..a = 1..b
  PROVE  a = b
<1>1. CASE a < b
  <2>1. b \in 1..b /\ b \notin 1..a
    BY <1>1
  <2> QED
    BY <2>1
<1>2. CASE b < a
  <2>1. a \in 1..a /\ a \notin 1..b
    BY <1>2
  <2> QED
    BY <2>1
<1> QED
  BY <1>1, <1>2

LEMMA LogIsSeq ==
  ASSUME IInv
  PROVE  /\ lastSeq \in Nat
         /\ Log \in Seq(Messages) /\ Len(Log) = lastSeq
         /\ \A i \in 1..lastSeq : \E r \in rows : r.seq = i /\ Log[i] = r.msg
<1>1. lastSeq \in Nat
  BY DEF IInv, TypeOK
<1>2. \A i \in 1..lastSeq : \E r \in rows : r.seq = i /\ Log[i] = r.msg
  <2> SUFFICES ASSUME NEW i \in 1..lastSeq PROVE \E r \in rows : r.seq = i /\ Log[i] = r.msg
    OBVIOUS
  <2>1. PICK r \in rows : r.seq = i
    BY DEF IInv, RowsOK
  <2> QED
    BY <2>1, RowFound
<1>3. Log \in [1..lastSeq -> Messages]
  <2>1. \A i \in 1..lastSeq : Log[i] \in Messages
    BY <1>2 DEF IInv, TypeOK
  <2> QED
    BY <2>1 DEF Log
<1>4. Log \in Seq(Messages)
  BY <1>1, <1>3, SeqDef
<1>5. Len(Log) \in Nat /\ DOMAIN Log = 1..Len(Log)
  BY <1>4, LenProperties
<1>6. 1..Len(Log) = 1..lastSeq
  BY <1>3, <1>5
<1>7. Len(Log) = lastSeq
  BY <1>1, <1>5, <1>6, SameRange
<1> QED
  BY <1>1, <1>2, <1>4, <1>7

(* A step that leaves the rows and the positions is a stutter of the log. *)
LEMMA Unseen ==
  ASSUME UNCHANGED <<lastSeq, rows, mark>>
  PROVE  UNCHANGED <<Log, Position>>
BY DEF Log, Position

LEMMA TransactionPosts ==
  ASSUME IInv, IInv', NEW w \in Workers, Transaction(w)
  PROVE  Abstract!Post(req[w].msg)
<1> DEFINE m == req[w].msg
           row == [seq |-> lastSeq + 1, msg |-> m]
<1>1. /\ ~ Sent(m) /\ lastSeq' = lastSeq + 1 /\ rows' = rows \cup {row}
      /\ mark' = [mark EXCEPT ![Sender[m]] = lastSeq + 1]
      /\ m \in Messages
  BY DEF Transaction, At, IInv, RequestOK, SendSteps
<1>2. /\ lastSeq \in Nat /\ Log \in Seq(Messages) /\ Len(Log) = lastSeq
      /\ \A i \in 1..lastSeq : \E r \in rows : r.seq = i /\ Log[i] = r.msg
  BY LogIsSeq
<1>3. Log' \in Seq(Messages) /\ Len(Log') = lastSeq + 1
  <2>1. (Log \in Seq(Messages) /\ Len(Log) = lastSeq)'
    BY LogIsSeq, PTL
  <2> QED
    BY <2>1, <1>1
<1>4. ~ \E i \in 1..Len(Log) : Log[i] = m
  BY <1>1, <1>2 DEF Sent
<1>5. \A r \in rows' : Log'[r.seq] = r.msg
  <2>1. (\A r \in rows : r.seq \in 1..lastSeq /\ r.msg \in Messages /\ Log[r.seq] = r.msg)'
    BY RowFound, PTL
  <2> QED
    BY <2>1
<1>6. Log' = Append(Log, m)
  <2>1. /\ Append(Log, m) \in Seq(Messages)
        /\ Len(Append(Log, m)) = lastSeq + 1
        /\ \A i \in 1..lastSeq : Append(Log, m)[i] = Log[i]
        /\ Append(Log, m)[lastSeq + 1] = m
    BY <1>1, <1>2, AppendProperties
  <2>2. Log'[lastSeq + 1] = m
    <3>1. row \in rows' /\ row.seq = lastSeq + 1 /\ row.msg = m
      BY <1>1
    <3> QED
      BY <3>1, <1>5
  <2>3. \A i \in 1..lastSeq : Log'[i] = Log[i]
    BY <1>1, <1>2, <1>5
  <2>4. \A i \in 1..Len(Log') : Log'[i] = Append(Log, m)[i]
    BY <1>2, <1>3, <2>1, <2>2, <2>3
  <2> QED
    BY <1>3, <2>1, <2>4, SeqEqual
<1>7. Position' = [Position EXCEPT ![Sender[m]] = Len(Log) + 1]
  <2>1. mark \in [Users -> {NoRow} \cup 0..lastSeq] /\ Sender[m] \in Users
    BY <1>1, ChatAssumption DEF IInv, TypeOK
  <2>2. \A u \in Users : mark'[u] = IF u = Sender[m] THEN lastSeq + 1 ELSE mark[u]
    BY <1>1, <2>1
  <2>3. \A u \in Users : Position'[u] = IF u = Sender[m] THEN lastSeq + 1 ELSE Position[u]
    BY <1>2, <2>2 DEF Position, NoRow
  <2> QED
    BY <1>2, <2>3 DEF Position
<1> QED
  BY <1>4, <1>6, <1>7 DEF Abstract!Post, Abstract!Logged, Log, Position

(* Setting a row's position, or creating it, is a read or a stutter. *)
LEMMA MarkReads ==
  ASSUME IInv, NEW u \in Users, NEW seq \in 0..lastSeq, UNCHANGED <<lastSeq, rows>>,
         mark[u] < seq, mark' = [mark EXCEPT ![u] = seq]
  PROVE  [Abstract!Next]_<<Log, Position>>
<1>1. Len(Log) = lastSeq /\ lastSeq \in Nat
  BY LogIsSeq
<1>2. Log' = Log /\ Position' = [Position EXCEPT ![u] = seq] /\ mark[u] \in {NoRow} \cup 0..lastSeq
  <2>1. mark \in [Users -> {NoRow} \cup 0..lastSeq]
    BY DEF IInv, TypeOK
  <2>2. \A v \in Users : Position'[v] = IF v = u THEN seq ELSE Position[v]
    BY <1>1, <2>1 DEF Position, NoRow
  <2>3. Position' = [Position EXCEPT ![u] = seq]
    BY <2>2 DEF Position
  <2>4. Log' = Log
    BY DEF Log
  <2> QED
    BY <2>1, <2>3, <2>4
<1>3. CASE Position[u] < seq
  <2>1. seq \in 1..Len(Log)
    BY <1>1, <1>2, <1>3 DEF Position, NoRow
  <2>2. Abstract!Read(u, seq)
    BY <1>1, <1>2, <1>3, <2>1 DEF Abstract!Read, Log, Position
  <2> QED
    BY <2>1, <2>2 DEF Abstract!Next, Log
<1>4. CASE ~ Position[u] < seq
  <2>1. Position[u] = seq
    BY <1>1, <1>2, <1>4 DEF Position, NoRow
  <2>2. Position' = Position
    BY <1>2, <2>1 DEF Position
  <2> QED
    BY <1>2, <2>2
<1> QED
  BY <1>3, <1>4

LEMMA StepIsAbstract ==
  ASSUME IInv, IInv', ServerStep \/ UNCHANGED chatVars
  PROVE  [Abstract!Next]_<<Log, Position>>
<1>1. CASE UNCHANGED <<lastSeq, rows, mark>>
  BY <1>1, Unseen
<1>2. ASSUME NEW w \in Workers, Transaction(w) PROVE [Abstract!Next]_<<Log, Position>>
  <2>1. req[w].msg \in Messages
    BY <1>2 DEF Transaction, At, IInv, RequestOK, SendSteps
  <2> QED
    <3>1. Abstract!Post(req[w].msg)
      BY <1>2, TransactionPosts
    <3>2. Abstract!Next
      BY <2>1, <3>1 DEF Abstract!Next, Abstract!Post, Abstract!Logged
    <3> QED
      BY <3>2
<1>3. ASSUME NEW w \in Workers, SetMark(w) PROVE [Abstract!Next]_<<Log, Position>>
  <2>1. req[w].user \in Users /\ req[w].seq \in 0..lastSeq
    BY <1>3, TargetInLog DEF SetMark
  <2>2. CASE UNCHANGED mark
    BY <1>3, <2>2, Unseen DEF SetMark
  <2>3. CASE mark' # mark
    BY <1>3, <2>1, <2>3, MarkReads DEF SetMark
  <2> QED
    BY <2>2, <2>3
<1>4. ASSUME NEW w \in Workers, CreateMark(w) PROVE [Abstract!Next]_<<Log, Position>>
  <2>1. req[w].user \in Users /\ req[w].seq \in 0..lastSeq
    BY <1>4, TargetInLog DEF CreateMark
  <2>2. CASE UNCHANGED mark
    BY <1>4, <2>2, Unseen DEF CreateMark
  <2>3. CASE mark' # mark
    <3>1. mark[req[w].user] < req[w].seq /\ mark' = [mark EXCEPT ![req[w].user] = req[w].seq]
      BY <1>4, <2>1, <2>3 DEF CreateMark, NoRow
    <3> QED
      BY <1>4, <2>1, <3>1, MarkReads DEF CreateMark
  <2> QED
    BY <2>2, <2>3
<1>5. \/ UNCHANGED <<lastSeq, rows, mark>>
      \/ \E w \in Workers : Transaction(w) \/ SetMark(w) \/ CreateMark(w)
  BY DEF ServerStep, CountFault, Next, Send, Read, chatVars, StartSend, StartRead, FindSent, FindNothing,
         Conflict, FindRaced, Announce, ReadSeq, Throw
<1> QED
  BY <1>1, <1>2, <1>3, <1>4, <1>5

LEMMA InitIsAbstract == Init => Abstract!Init
<1> SUFFICES ASSUME Init PROVE Abstract!Init
  OBVIOUS
<1>1. IInv
  BY InitHolds
<1>2. Log \in Seq(Messages) /\ Len(Log) = lastSeq /\ lastSeq = Len(Earlier) /\ lastSeq \in Nat
  BY <1>1, LogIsSeq DEF Init
<1>3. ASSUME NEW i \in 1..lastSeq PROVE Log[i] = Earlier[i]
  <2>1. [seq |-> i, msg |-> Earlier[i]] \in rows
    BY <1>2 DEF Init
  <2> QED
    BY <1>1, <2>1, RowFound
<1>4. Log = Earlier
  BY <1>2, <1>3, ChatAssumption, SeqEqual
<1>5. Position \in [Users -> 0..Len(Earlier)]
  BY <1>2 DEF Init, Position, NoRow
<1> QED
  BY <1>4, <1>5 DEF Abstract!Init, Log, Position

(* However copies of sends and reads interleave, the rows of a             *)
(* conversation are a log in which a message appears once, at the next     *)
(* number, and read positions only move forward.                           *)
THEOREM ImplementsTheLog == Spec => ImplementsLog
<1>1. IInv /\ IInv' /\ [Next]_chatVars => [Abstract!Next]_<<Log, Position>>
  BY StepIsAbstract DEF ServerStep
<1> QED
  BY <1>1, InitIsAbstract, Inductive, PTL DEF Spec, ImplementsLog, Abstract!Spec, Log, Position

-----------------------------------------------------------------------------
(* ChatThread takes the server's steps *)

LEMMA TabStepIsServerStep ==
  ASSUME TabNext
  PROVE  ServerStep \/ UNCHANGED chatVars
<1>1. ASSUME NEW w \in Workers, TabStep(w) PROVE ServerStep
  <2>1. ASSUME NEW m \in Messages, StartSend(w, m) PROVE ServerStep
    BY <2>1 DEF ServerStep, Next
  <2>2. CASE \E m \in Mine : TabSends(w, m) \/ Retry(w, m)
    BY <2>1, <2>2, TabAssumption DEF TabSends, Retry, Deliver
  <2>3. CASE \E m \in Messages : OthersSend(w, m)
    BY <2>1, <2>3 DEF OthersSend
  <2>4. CASE AnswerDuplicate(w) \/ AnnounceToRoom(w) \/ SendThrows(w)
    BY <2>4 DEF AnswerDuplicate, AnnounceToRoom, SendThrows, ServerStep, Next, Send
  <2>5. CASE NoAnswer(w)
    BY <2>5 DEF NoAnswer, ServerStep, CountFault
  <2>6. CASE MarkRead(w)
    <3>1. PICK seq \in NewSeqs \ {0} :
            StartRead(w, Me, IF connected THEN seq ELSE Cardinality(Messages))
      BY <2>6 DEF MarkRead
    <3>2. Cardinality(Messages) \in Nat
      BY ChatAssumption, FS_CardinalityType
    <3>3. (IF connected THEN seq ELSE Cardinality(Messages)) \in 1..Cardinality(Messages)
      BY <3>2 DEF NewSeqs
    <3> QED
      BY <3>1, <3>3, TabAssumption DEF ServerStep, Next
  <2>7. CASE Quietly(w)
    BY <2>7 DEF Quietly, ServerStep, Next, Send
  <2> QED
    BY <1>1, <2>2, <2>3, <2>4, <2>5, <2>6, <2>7 DEF TabStep
<1>2. CASE \E m \in Mine : Discard(m)
  BY <1>2 DEF Discard
<1>3. CASE \E m \in wire : Receive(m)
  BY <1>3 DEF Receive
<1>4. CASE \E after \in syncs : AnswerSync(after) \/ SyncFails(after)
  BY <1>4 DEF AnswerSync, SyncFails, ServerStep, CountFault
<1>5. CASE \E found \in answers : ReceiveSync(found)
  BY <1>5 DEF ReceiveSync
<1>6. CASE \E kind \in asked : ReadPage(kind) \/ PageFails(kind)
  BY <1>6 DEF ReadPage, PageFails, ServerStep, CountFault
<1>7. CASE \E page \in pages : ReceivePage(page)
  BY <1>7 DEF ReceivePage
<1>8. CASE Join \/ Disconnect \/ Recover \/ Reconnect
  BY <1>8 DEF Join, Disconnect, Recover, Reconnect, ServerStep, CountFault
<1> QED
  BY <1>1, <1>2, <1>3, <1>4, <1>5, <1>6, <1>7, <1>8 DEF TabNext

LEMMA TabStutter == UNCHANGED vars => UNCHANGED chatVars
BY DEF vars

LEMMA TabStarts == TabInit => Init
BY DEF TabInit

LEMMA TabServerInductive == TabSpec => []IInv
<1>1. IInv /\ [TabNext]_vars => IInv'
  BY TabStepIsServerStep, TabStutter, StepKeeps, StutterKeeps
<1> QED
  BY <1>1, TabStarts, InitHolds, PTL DEF TabSpec

(* The log is kept too when a tab with its timeouts, retries and reads     *)
(* drives the server.                                                      *)
THEOREM TabImplementsTheLog == TabSpec => ImplementsLog
<1>1. IInv /\ IInv' /\ [TabNext]_vars => [Abstract!Next]_<<Log, Position>>
  BY TabStepIsServerStep, TabStutter, StepIsAbstract
<1> QED
  BY <1>1, TabStarts, InitIsAbstract, TabServerInductive, PTL DEF TabSpec, ImplementsLog, Abstract!Spec, Log, Position

-----------------------------------------------------------------------------
(* A tab shows no message twice *)

TabInv == IInv /\ ShownOK /\ NotShownTwice /\ asked \subseteq PageKinds
ShownInv == ShownOK /\ NotShownTwice

LEMMA SavedGrows ==
  ASSUME IInv, ServerStep \/ UNCHANGED chatVars
  PROVE  Saved \subseteq Saved'
<1>1. rows \subseteq rows'
  BY DEF ServerStep, CountFault, Next, Send, Read, chatVars, StartSend, StartRead, FindSent, FindNothing,
         Transaction, Conflict, FindRaced, Announce, ReadSeq, SetMark, CreateMark, Throw
<1> QED
  BY <1>1 DEF Saved, Sent

(* What is shown and on its way stays saved; a request that is listened to *)
(* is one of the tab's and runs.                                           *)
LEMMA DeliverKeeps ==
  ASSUME TabInv, NEW w \in Workers, NEW m \in Mine, Deliver(w, m), m \notin thread
  PROVE  ShownInv'
<1>1. /\ rows' = rows /\ Saved' = Saved
      /\ UNCHANGED <<wire, answers, pages, thread, excused, skipped>>
      /\ bubble' = [bubble EXCEPT ![m] = "pending"]
      /\ via' = [via EXCEPT ![w] = IF connected THEN "socket" ELSE "rest"]
  BY DEF Deliver, StartSend, linkVars, history, Saved, Sent
<1>2. /\ req'[w].step = "findSent" /\ req'[w].msg = m
      /\ \A v \in Workers \ {w} : req'[v] = req[v]
  BY DEF Deliver, StartSend, Idle, TabInv, IInv, TypeOK
<1>3. \A v \in Workers : via'[v] # "none" => req'[v].step # "idle" /\ req'[v].msg \in Mine
  BY <1>1, <1>2 DEF TabInv, ShownOK, At
<1>4. ShownOK'
  BY <1>1, <1>3 DEF TabInv, ShownOK, At
<1>5. NotShownTwice'
  BY <1>1 DEF TabInv, ShownOK, NotShownTwice
<1> QED
  BY <1>4, <1>5 DEF ShownInv

LEMMA SettleKeeps ==
  ASSUME TabInv, NEW w \in Workers, Done(w), UNCHANGED <<rows, answers, pages>>,
         Sent(req[w].msg), wire' \subseteq Saved, Settle(w)
  PROVE  ShownInv'
<1> DEFINE m == req[w].msg
<1>1. Saved' = Saved /\ m \in Saved
  BY DEF Saved, Sent, TabInv, IInv, TypeOK, Request
<1>2. \A v \in Workers \ {w} : req'[v] = req[v]
  BY DoneType DEF TabInv, IInv
<1>3. CASE Listening(w)
  <2>1. /\ thread' = thread \cup {m}
        /\ bubble' = [x \in Mine |-> IF x \in {m} THEN "none" ELSE bubble[x]]
        /\ via' = [via EXCEPT ![w] = "none"]
        /\ skipped' = skipped \cup Before(m) /\ excused' = excused
    BY <1>3 DEF Settle, Show
  <2>2. \A v \in Workers : via'[v] # "none" => ~ (req'[v].step = "idle") /\ req'[v].msg \in Mine
    BY <2>1, <1>2 DEF TabInv, ShownOK, At
  <2>3. skipped' \subseteq Saved /\ thread' \subseteq Saved
    BY <2>1, <1>1 DEF TabInv, ShownOK, Before
  <2>4. bubble' \in [Mine -> {"none", "pending", "failed"}] /\ via' \in [Workers -> {"none", "socket", "rest"}]
    BY <2>1 DEF TabInv, ShownOK
  <2>5. ShownOK'
    BY <2>1, <2>2, <2>3, <2>4, <1>1 DEF TabInv, ShownOK, At
  <2>6. NotShownTwice'
    BY <2>1 DEF TabInv, NotShownTwice
  <2> QED
    BY <2>5, <2>6 DEF ShownInv
<1>4. CASE ~ Listening(w)
  <2>1. UNCHANGED <<thread, bubble, via, skipped, excused>>
    BY <1>4 DEF Settle
  <2>2. \A v \in Workers : via'[v] # "none" => ~ (req'[v].step = "idle") /\ req'[v].msg \in Mine
    BY <2>1, <1>2, <1>4 DEF TabInv, ShownOK, At, Listening
  <2>3. ShownOK'
    BY <2>1, <2>2, <1>1 DEF TabInv, ShownOK, At
  <2>4. NotShownTwice'
    BY <2>1 DEF TabInv, NotShownTwice
  <2> QED
    BY <2>3, <2>4 DEF ShownInv
<1> QED
  BY <1>3, <1>4

(* A step that sets no bubble but to "failed" or "none", and shows nothing. *)
LEMMA FailKeeps ==
  ASSUME TabInv, rows' = rows, UNCHANGED <<wire, pages, thread, skipped>>, answers' \subseteq answers,
         excused' \subseteq Saved,
         bubble' \in [Mine -> {"none", "pending", "failed"}],
         \A m \in Mine : bubble'[m] # "none" => bubble[m] # "none",
         via' \in [Workers -> {"none", "socket", "rest"}],
         \A w \in Workers : via'[w] # "none" => ~ (req'[w].step = "idle") /\ req'[w].msg \in Mine
  PROVE  ShownInv'
<1>1. Saved' = Saved
  BY DEF Saved, Sent
<1>2. ShownOK'
  BY <1>1 DEF TabInv, ShownOK, At
<1>3. NotShownTwice'
  BY DEF TabInv, NotShownTwice
<1> QED
  BY <1>2, <1>3 DEF ShownInv

LEMMA SendThrowsKeeps ==
  ASSUME TabInv, NEW w \in Workers, SendThrows(w)
  PROVE  ShownInv'
<1> DEFINE m == req[w].msg
<1>1. rows' = rows /\ UNCHANGED <<wire, answers, pages, thread, skipped>> /\ Done(w)
  BY DEF SendThrows, Throw, linkVars
<1>2. \A v \in Workers \ {w} : req'[v] = req[v]
  BY <1>1, DoneType DEF TabInv, IInv
<1>3. excused' \subseteq Saved
  <2>1. At(w, "announce") => m \in Saved
    BY DEF TabInv, IInv, RequestOK, At, Saved, SendSteps
  <2> QED
    BY <2>1 DEF SendThrows, TabInv, ShownOK
<1>4. CASE Listening(w)
  <2>1. via' = [via EXCEPT ![w] = "none"] /\ m \in Mine
        /\ bubble' = [bubble EXCEPT ![m] = IF @ = "pending" THEN "failed" ELSE @]
    BY <1>4 DEF SendThrows, Fail, TabInv, ShownOK, Listening
  <2>2. \A v \in Workers : via'[v] # "none" => ~ (req'[v].step = "idle") /\ req'[v].msg \in Mine
    BY <2>1, <1>2 DEF TabInv, ShownOK, At
  <2>3. /\ bubble' \in [Mine -> {"none", "pending", "failed"}]
        /\ \A x \in Mine : bubble'[x] # "none" => bubble[x] # "none"
        /\ via' \in [Workers -> {"none", "socket", "rest"}]
    BY <2>1 DEF TabInv, ShownOK
  <2> QED
    BY <1>1, <1>3, <2>2, <2>3, FailKeeps
<1>5. CASE ~ Listening(w)
  <2>1. UNCHANGED <<bubble, via>> /\ via[w] = "none"
    BY <1>5 DEF SendThrows, Listening
  <2>2. \A v \in Workers : via'[v] # "none" => ~ (req'[v].step = "idle") /\ req'[v].msg \in Mine
    BY <2>1, <1>2 DEF TabInv, ShownOK, At
  <2> QED
    BY <1>1, <1>3, <2>1, <2>2, FailKeeps DEF TabInv, ShownOK
<1> QED
  BY <1>4, <1>5

LEMMA NoAnswerKeeps ==
  ASSUME TabInv, NEW w \in Workers, NoAnswer(w)
  PROVE  ShownInv'
<1> DEFINE m == req[w].msg
<1>1. rows' = rows /\ req' = req /\ UNCHANGED <<wire, answers, pages, thread, skipped, excused>>
  BY DEF NoAnswer, linkVars, history
<1>2. via' = [via EXCEPT ![w] = "none"] /\ m \in Mine
      /\ bubble' = [bubble EXCEPT ![m] = IF @ = "pending" THEN "failed" ELSE @]
  BY DEF NoAnswer, Fail, Listening, TabInv, ShownOK
<1>3. \A v \in Workers : via'[v] # "none" => ~ (req'[v].step = "idle") /\ req'[v].msg \in Mine
  BY <1>1, <1>2 DEF TabInv, ShownOK, At
<1>4. /\ bubble' \in [Mine -> {"none", "pending", "failed"}]
      /\ \A x \in Mine : bubble'[x] # "none" => bubble[x] # "none"
      /\ via' \in [Workers -> {"none", "socket", "rest"}]
  BY <1>2 DEF TabInv, ShownOK
<1> QED
  BY <1>1, <1>3, <1>4, FailKeeps DEF TabInv, ShownOK

LEMMA DisconnectKeeps ==
  ASSUME TabInv, Disconnect
  PROVE  ShownInv'
<1>1. /\ rows' = rows /\ req' = req /\ UNCHANGED <<wire, pages, thread, skipped, excused>>
      /\ answers' \subseteq answers
  BY DEF Disconnect, history
<1>2. /\ bubble' \in [Mine -> {"none", "pending", "failed"}]
      /\ \A x \in Mine : bubble'[x] # "none" => bubble[x] # "none"
      /\ via' \in [Workers -> {"none", "socket", "rest"}]
  BY DEF Disconnect, TabInv, ShownOK
<1>3. \A v \in Workers : via'[v] # "none" => ~ (req'[v].step = "idle") /\ req'[v].msg \in Mine
  BY <1>1 DEF Disconnect, TabInv, ShownOK, At
<1> QED
  BY <1>1, <1>2, <1>3, FailKeeps DEF TabInv, ShownOK

(* A step of a request the tab does not hear of. *)
LEMMA UnheardKeeps ==
  ASSUME TabInv, Saved \subseteq Saved', UNCHANGED <<wire, answers, pages, thread, bubble, via, history>>,
         \A w \in Workers : via[w] # "none" => ~ (req'[w].step = "idle") /\ req'[w].msg \in Mine
  PROVE  ShownInv'
<1>1. ShownOK'
  BY DEF TabInv, ShownOK, At, history
<1>2. NotShownTwice'
  BY DEF TabInv, NotShownTwice
<1> QED
  BY <1>1, <1>2 DEF ShownInv

LEMMA QuietlyKeeps ==
  ASSUME TabInv, NEW w \in Workers, Saved \subseteq Saved',
         \/ Quietly(w) \/ MarkRead(w) \/ \E m \in Messages : OthersSend(w, m)
  PROVE  ShownInv'
<1>1. UNCHANGED <<wire, answers, pages, thread, bubble, via, history>>
  BY DEF Quietly, MarkRead, OthersSend, tabVars, linkVars, history
<1>2. req[w] \in Request /\ req \in [Workers -> Request] /\ RequestOK(w)
  BY DEF TabInv, IInv, TypeOK
<1>3. req[w].msg \in Mine => req[w].msg # NoMessage
  BY TabAssumption, ChatAssumption
<1>4. \A v \in Workers \ {w} : req'[v] = req[v]
  BY <1>2 DEF Quietly, MarkRead, OthersSend, FindNothing, Transaction, Conflict, Read, ReadSeq, SetMark,
              CreateMark, Throw, StartRead, StartSend, Goto, Done
<1>5. ~ (At(w, "idle") \/ req[w].msg \notin Mine) => req'[w].step # "idle" /\ req'[w].msg = req[w].msg
  <2>1. SUFFICES ASSUME ~ At(w, "idle"), req[w].msg \in Mine
                 PROVE  req'[w].step # "idle" /\ req'[w].msg = req[w].msg
    OBVIOUS
  <2>2. req[w].step \notin ReadSteps
    BY <2>1, <1>2, <1>3 DEF RequestOK
  <2>3. FindNothing(w) \/ Transaction(w) \/ Conflict(w)
    BY <2>1, <2>2, <1>3 DEF Quietly, MarkRead, OthersSend, Read, ReadSeq, SetMark, CreateMark, At, ReadSteps,
                            StartRead, StartSend
  <2>4. \E step \in {"transaction", "announce", "findRaced"} : Goto(w, step)
    BY <2>3 DEF FindNothing, Transaction, Conflict
  <2> QED
    BY <2>4, <1>2 DEF Goto, Request
<1>6. \A v \in Workers : via[v] # "none" => ~ (req'[v].step = "idle") /\ req'[v].msg \in Mine
  BY <1>4, <1>5 DEF TabInv, ShownOK, At
<1> QED
  BY <1>1, <1>6, UnheardKeeps

(* Saved messages are shown, or come to be on their way. *)
LEMMA ShowKeeps ==
  ASSUME TabInv, NEW found \in SUBSET Saved, Show(found), rows' = rows, req' = req, UNCHANGED <<pages, via>>,
         wire' \subseteq wire, answers' \subseteq answers, excused' \subseteq Saved, skipped' \subseteq Saved
  PROVE  ShownInv'
<1>1. Saved' = Saved
  BY DEF Saved, Sent
<1>2. ShownOK'
  BY <1>1 DEF TabInv, ShownOK, At, Show
<1>3. NotShownTwice'
  BY DEF TabInv, NotShownTwice, Show
<1> QED
  BY <1>2, <1>3 DEF ShownInv

LEMMA ComingKeeps ==
  ASSUME TabInv, rows' = rows, req' = req, UNCHANGED <<thread, bubble, via, skipped>>,
         wire' \subseteq wire, answers' \subseteq SUBSET Saved,
         pages' \subseteq [kind: PageKinds, found: SUBSET Saved], excused' \subseteq Saved
  PROVE  ShownInv'
<1>1. Saved' = Saved
  BY DEF Saved, Sent
<1>2. ShownOK'
  BY <1>1 DEF TabInv, ShownOK, At
<1>3. NotShownTwice'
  BY DEF TabInv, NotShownTwice
<1> QED
  BY <1>2, <1>3 DEF ShownInv

LEMMA ReceivePageKeeps ==
  ASSUME TabInv, NEW page \in pages, ReceivePage(page)
  PROVE  ShownInv'
<1>1. Saved' = Saved /\ rows' = rows /\ req' = req /\ page.found \subseteq Saved
  BY DEF ReceivePage, chatVars, Saved, Sent, TabInv, ShownOK
<1>2. /\ thread' = page.found /\ pages' \subseteq pages
      /\ bubble' = [m \in Mine |-> IF m \in page.found \/ page.kind = "open" THEN "none" ELSE bubble[m]]
      /\ excused' = excused \cup (thread \ page.found)
      /\ UNCHANGED <<answers, wire, via, skipped>>
  BY DEF ReceivePage
<1>3. bubble' \in [Mine -> {"none", "pending", "failed"}]
  BY <1>2 DEF TabInv, ShownOK
<1>4. ShownOK'
  BY <1>1, <1>2, <1>3 DEF TabInv, ShownOK, At
<1>5. NotShownTwice'
  BY <1>2 DEF NotShownTwice
<1> QED
  BY <1>4, <1>5 DEF ShownInv

LEMMA TabStepKeeps ==
  ASSUME TabInv, NEW w \in Workers, TabStep(w), Saved \subseteq Saved'
  PROVE  ShownInv'
<1>1. ASSUME NEW m \in Mine, TabSends(w, m) \/ Retry(w, m) PROVE ShownInv'
  <2>1. CASE TabSends(w, m)
    <3>1. ~ Sent(m)
      BY <2>1 DEF TabSends, TabInv, IInv, RowsOK, Sent
    <3>2. m \notin thread
      BY <3>1 DEF TabInv, ShownOK, Saved
    <3> QED
      BY <2>1, <3>2, DeliverKeeps DEF TabSends
  <2>2. CASE Retry(w, m)
    BY <2>2, DeliverKeeps DEF Retry, TabInv, NotShownTwice
  <2> QED
    BY <1>1, <2>1, <2>2
<1>2. CASE AnswerDuplicate(w)
  <2>1. Sent(req[w].msg)
    BY <1>2 DEF AnswerDuplicate, FindSent, FindRaced, TabInv, IInv, RequestOK, At
  <2>2. Done(w) /\ Settle(w) /\ UNCHANGED <<rows, answers, pages, wire>>
    BY <1>2 DEF AnswerDuplicate, FindSent, FindRaced, linkVars
  <2> QED
    BY <2>1, <2>2, SettleKeeps DEF TabInv, ShownOK
<1>3. CASE AnnounceToRoom(w)
  <2>1. Sent(req[w].msg) /\ req[w].msg \in Saved
    BY <1>3 DEF AnnounceToRoom, Announce, TabInv, IInv, RequestOK, At, Saved, SendSteps
  <2>2. Done(w) /\ Settle(w) /\ UNCHANGED <<rows, answers, pages>>
        /\ wire' = IF room THEN wire \cup {req[w].msg} ELSE wire
    BY <1>3 DEF AnnounceToRoom, Announce, linkVars
  <2>3. wire' \subseteq Saved
    BY <2>1, <2>2 DEF TabInv, ShownOK
  <2> QED
    BY <2>1, <2>2, <2>3, SettleKeeps
<1> QED
  BY <1>1, <1>2, <1>3, SendThrowsKeeps, NoAnswerKeeps, QuietlyKeeps DEF TabStep

LEMMA AskedKeeps ==
  ASSUME asked \subseteq PageKinds, TabNext
  PROVE  asked' \subseteq PageKinds
<1>1. UNCHANGED asked \/ asked' \subseteq asked \cup {"reload"}
  BY DEF TabNext, TabStep, TabSends, Retry, Deliver, OthersSend, AnswerDuplicate, AnnounceToRoom, SendThrows,
         NoAnswer, MarkRead, Quietly, Discard, Receive, AnswerSync, SyncFails, ReceiveSync, ReadPage, PageFails,
         ReceivePage, Join, Disconnect, Recover, Reconnect, linkVars, tabVars
<1> QED
  BY <1>1 DEF PageKinds

LEMMA TabNextKeeps ==
  ASSUME TabInv, TabNext
  PROVE  TabInv'
<1>1. IInv' /\ Saved \subseteq Saved'
  BY TabStepIsServerStep, StepKeeps, StutterKeeps, SavedGrows DEF TabInv
<1> SUFFICES ShownInv'
  BY <1>1, AskedKeeps DEF TabInv, ShownInv
<1>2. ASSUME NEW w \in Workers, TabStep(w) PROVE ShownInv'
  BY <1>1, <1>2, TabStepKeeps
<1>3. ASSUME NEW m \in Mine, Discard(m) PROVE ShownInv'
  <2>1. /\ bubble' = [bubble EXCEPT ![m] = "none"] /\ rows' = rows /\ req' = req
        /\ UNCHANGED <<wire, answers, pages, thread, via, excused, skipped>>
    BY <1>3 DEF Discard, chatVars, linkVars, history
  <2> QED
    BY <2>1, FailKeeps DEF TabInv, ShownOK, At
<1>4. ASSUME NEW m \in wire, Receive(m) PROVE ShownInv'
  <2>1. /\ {m} \in SUBSET Saved /\ Show({m}) /\ rows' = rows /\ req' = req
        /\ UNCHANGED <<pages, via, answers, excused>> /\ wire' \subseteq wire
    BY <1>4 DEF Receive, chatVars, TabInv, ShownOK
  <2>2. skipped' \subseteq Saved
    BY <1>4 DEF Receive, Before, TabInv, ShownOK
  <2> QED
    BY <2>1, <2>2, ShowKeeps DEF TabInv, ShownOK
<1>5. ASSUME NEW after \in syncs, AnswerSync(after) PROVE ShownInv'
  BY <1>5, ComingKeeps DEF AnswerSync, chatVars, history, TabInv, ShownOK
<1>6. ASSUME NEW after \in syncs, SyncFails(after) PROVE ShownInv'
  BY <1>6, ComingKeeps DEF SyncFails, history, TabInv, ShownOK
<1>7. ASSUME NEW found \in answers, ReceiveSync(found) PROVE ShownInv'
  BY <1>7, ShowKeeps DEF ReceiveSync, chatVars, history, TabInv, ShownOK
<1>8. ASSUME NEW kind \in asked, ReadPage(kind) PROVE ShownInv'
  BY <1>8, ComingKeeps DEF ReadPage, chatVars, history, TabInv, ShownOK
<1>9. ASSUME NEW kind \in asked, PageFails(kind) PROVE ShownInv'
  BY <1>9, ComingKeeps DEF PageFails, TabInv, ShownOK
<1>10. ASSUME NEW page \in pages, ReceivePage(page) PROVE ShownInv'
  BY <1>10, ReceivePageKeeps DEF TabInv
<1>11. CASE Join
  BY <1>11, ComingKeeps DEF Join, chatVars, TabInv, ShownOK
<1>12. CASE Disconnect
  BY <1>12, DisconnectKeeps
<1>13. CASE Recover \/ Reconnect
  BY <1>13, ComingKeeps DEF Recover, Reconnect, chatVars, history, TabInv, ShownOK
<1> QED
  BY <1>2, <1>3, <1>4, <1>5, <1>6, <1>7, <1>8, <1>9, <1>10, <1>11, <1>12, <1>13 DEF TabNext

LEMMA TabInitHolds == TabInit => TabInv
<1> SUFFICES ASSUME TabInit PROVE TabInv
  OBVIOUS
<1>1. ShownOK
  BY DEF TabInit, ShownOK
<1>2. NotShownTwice
  BY DEF TabInit, NotShownTwice
<1> QED
  BY <1>1, <1>2, TabStarts, InitHolds DEF TabInv, TabInit, PageKinds

LEMMA TabStutterKeeps ==
  ASSUME TabInv, UNCHANGED vars
  PROVE  TabInv'
<1>1. IInv'
  BY TabStutter, StutterKeeps DEF TabInv
<1>2. /\ rows' = rows /\ req' = req /\ UNCHANGED <<wire, answers, pages, thread, bubble, via, history, asked>>
  BY DEF vars, chatVars, tabVars
<1>3. Saved' = Saved
  BY <1>2 DEF Saved, Sent
<1>4. ShownOK'
  BY <1>2, <1>3 DEF TabInv, ShownOK, At, history
<1>5. NotShownTwice'
  BY <1>2 DEF TabInv, NotShownTwice
<1> QED
  BY <1>1, <1>2, <1>4, <1>5 DEF TabInv

(* Whichever of the answer, the room's packet, a sync and a page comes     *)
(* first, and whatever fails: mergeMessages shows a message of the tab     *)
(* once, and a send that was already seen as saved is never marked failed. *)
THEOREM ShownOnce == TabSpec => []NotShownTwice
<1>1. TabInv => NotShownTwice
  BY DEF TabInv
<1> QED
  BY <1>1, TabInitHolds, TabNextKeeps, TabStutterKeeps, PTL DEF TabSpec

-----------------------------------------------------------------------------
(* The numbers of what is saved and shown *)

(* A bounded set of numbers has a maximum. *)
LEMMA MaximumExists ==
  ASSUME NEW S \in SUBSET Nat, S # {}, NEW b \in Nat, \A s \in S : s <= b
  PROVE  \E s \in S : \A t \in S : t <= s
<1> DEFINE T == {n \in Nat : \A s \in S : s <= n}
<1>1. T \subseteq Nat /\ T # {}
  OBVIOUS
<1>2. PICK n \in T : \A k \in T : ~ (<<k, n>> \in OpToRel(<, Nat))
  BY <1>1, NatLessThanWellFounded, WFMin
<1>3. \A k \in T : ~ (k < n)
  BY <1>2 DEF OpToRel
<1>4. n \in S
  <2> SUFFICES ASSUME n \notin S PROVE FALSE
    OBVIOUS
  <2>1. n # 0
    <3>1. PICK s \in S : s <= n
      OBVIOUS
    <3> QED
      BY <3>1
  <2>2. n - 1 \in T
    BY <2>1
  <2> QED
    BY <2>2, <1>3
<1> QED
  BY <1>4

(* A message is numbered once, so there are no more numbers than messages. *)
LEMMA NumbersFit ==
  ASSUME IInv
  PROVE  Cardinality(Messages) \in Nat /\ lastSeq \in 0..Cardinality(Messages)
<1>1. /\ lastSeq \in Nat /\ Log \in Seq(Messages) /\ Len(Log) = lastSeq
      /\ \A i \in 1..lastSeq : \E r \in rows : r.seq = i /\ Log[i] = r.msg
  BY LogIsSeq
<1>2. Log \in [1..lastSeq -> Messages]
  BY <1>1, LenProperties, ElementOfSeq
<1>3. \A i, j \in 1..lastSeq : Log[i] = Log[j] => i = j
  BY <1>1 DEF IInv, RowsOK
<1>4. Log \in Injection(1..lastSeq, Messages)
  BY <1>2, <1>3 DEF Injection, IsInjective
<1>5. Cardinality(1..lastSeq) = lastSeq
  BY <1>1, FS_Interval
<1> QED
  BY <1>1, <1>4, <1>5, FS_Injection, FS_CardinalityType, ChatAssumption

(* A saved message has one number, and a number one message. *)
LEMMA SeqFound ==
  ASSUME IInv
  PROVE  /\ lastSeq \in Nat
         /\ \A m \in Saved : SeqOf(m) \in 1..lastSeq
         /\ \A m, x \in Saved : SeqOf(m) = SeqOf(x) => m = x
<1>1. \A r \in rows : (CHOOSE s \in rows : s.msg = r.msg) = r
  BY DEF IInv, RowsOK
<1>2. \A m \in Saved : \E r \in rows : r.msg = m /\ SeqOf(m) = r.seq
  BY <1>1 DEF Saved, Sent, SeqOf
<1>3. lastSeq \in Nat /\ \A r \in rows : r.seq \in 1..lastSeq
  BY DEF IInv, TypeOK
<1> QED
  BY <1>2, <1>3 DEF IInv, RowsOK

(* A saved message keeps its number, and later ones have higher numbers. *)
SeqKept ==
  /\ Saved \subseteq Saved' /\ lastSeq' >= lastSeq
  /\ \A m \in Saved : SeqOf(m)' = SeqOf(m)
  /\ \A m \in Saved' \ Saved : SeqOf(m)' \in Nat /\ SeqOf(m)' > lastSeq

LEMMA RowsKeepSeqs ==
  ASSUME IInv, UNCHANGED <<lastSeq, rows>>
  PROVE  SeqKept /\ Saved' = Saved
<1>1. Saved' = Saved
  BY DEF Saved, Sent
<1>2. \A m \in Saved : SeqOf(m)' = SeqOf(m)
  BY DEF SeqOf
<1> QED
  BY <1>1, <1>2 DEF SeqKept, IInv, TypeOK

LEMMA TransactionKeepsSeqs ==
  ASSUME IInv, IInv', NEW w \in Workers, Transaction(w)
  PROVE  SeqKept /\ Saved' = Saved \cup {req[w].msg}
<1>0. PICK m \in Messages : m = req[w].msg
  BY DEF Transaction, At, IInv, RequestOK, SendSteps
<1>r. PICK row : row = [seq |-> lastSeq + 1, msg |-> m]
  OBVIOUS
<1>1. ~ Sent(m) /\ lastSeq' = lastSeq + 1 /\ rows' = rows \cup {row}
  BY <1>0, <1>r DEF Transaction
<1>2. row \in rows' /\ row.msg = m /\ row.seq = lastSeq + 1
  BY <1>1, <1>r
<1>3. Saved' = Saved \cup {m}
  BY <1>1, <1>2 DEF Saved, Sent
<1>4. \A r \in rows : (CHOOSE s \in rows : s.msg = r.msg) = r
  BY DEF IInv, RowsOK
<1>5. \A r \in rows' : (CHOOSE s \in rows' : s.msg = r.msg) = r
  BY DEF IInv, RowsOK
<1>6. \A x \in Saved : SeqOf(x)' = SeqOf(x)
  <2> SUFFICES ASSUME NEW x \in Saved PROVE SeqOf(x)' = SeqOf(x)
    OBVIOUS
  <2>1. PICK r \in rows : r.msg = x
    BY DEF Saved, Sent
  <2>2. (CHOOSE s \in rows : s.msg = x) = r
    BY <2>1, <1>4
  <2>3. (CHOOSE s \in rows' : s.msg = x) = r
    BY <2>1, <1>1, <1>5
  <2> QED
    BY <2>2, <2>3 DEF SeqOf
<1>7. SeqOf(m)' = lastSeq + 1
  <2>1. (CHOOSE s \in rows' : s.msg = m) = row
    BY <1>2, <1>5
  <2> QED
    BY <1>2, <2>1 DEF SeqOf
<1> QED
  BY <1>0, <1>1, <1>3, <1>6, <1>7 DEF SeqKept, IInv, TypeOK

(* The newest number shown: that of a message, or 0 of an empty list. *)
LEMMA NewestFound ==
  ASSUME IInv, thread \subseteq Saved
  PROVE  /\ Newest \in 0..lastSeq
         /\ \A m \in thread : SeqOf(m) <= Newest
         /\ thread # {} => \E m \in thread : SeqOf(m) = Newest
         /\ thread = {} => Newest = 0
<1>1. lastSeq \in Nat /\ \A m \in thread : SeqOf(m) \in 1..lastSeq
  BY SeqFound
<1>2. CASE thread = {}
  BY <1>1, <1>2 DEF Newest
<1>3. CASE thread # {}
  <2> DEFINE S == {s \in NewSeqs : \E m \in thread : s = SeqOf(m)}
  <2>1. NewSeqs \subseteq Nat /\ \A m \in thread : SeqOf(m) \in NewSeqs
    BY <1>1, NumbersFit DEF NewSeqs
  <2>2. S \in SUBSET Nat /\ S # {} /\ \A s \in S : s <= lastSeq
    BY <1>1, <1>3, <2>1
  <2>3. PICK s \in S : \A t \in S : t <= s
    BY <1>1, <2>2, MaximumExists
  <2>4. s \in NewSeqs /\ (\E m \in thread : SeqOf(m) = s) /\ \A m \in thread : SeqOf(m) <= s
    BY <2>1, <2>3
  <2>5. (\E m \in thread : SeqOf(m) = Newest) /\ \A m \in thread : SeqOf(m) <= Newest
    BY <1>3, <2>4 DEF Newest
  <2> QED
    BY <1>1, <1>3, <2>5
<1> QED
  BY <1>2, <1>3

-----------------------------------------------------------------------------
(* Nothing is missed *)

Shown == thread \cup excused \cup skipped

(* A message that an answer or a page asked or on its way will bring. *)
Safe(m) ==
  \/ m \in Shown
  \/ \E after \in syncs : SeqOf(m) > after
  \/ \E found \in answers : m \in found
  \/ asked # {}
  \/ \E page \in pages : m \in page.found

Announced(m) == \E w \in Workers : At(w, "announce") /\ req[w].msg = m

(* The tab comes back into the room it is not in; a sync, which only a     *)
(* connected tab has under way, asks after a number there is.              *)
LinkInv ==
  /\ connected \in BOOLEAN /\ room \in BOOLEAN /\ joining \in BOOLEAN
  /\ connected \/ (syncs = {} /\ answers = {})
  /\ connected => room \/ joining
  /\ syncs \subseteq 0..lastSeq
  /\ reported \subseteq NewSeqs

(* What is older than a message shown, than what a sync asks after or than *)
(* a message an answer or a page brings is safe; in the room, so is what   *)
(* is neither in a packet nor about to be.                                 *)
ShownCovers == \A x \in thread, m \in Saved : SeqOf(m) < SeqOf(x) => Safe(m)
SyncsCover == \A after \in syncs, m \in Saved : SeqOf(m) <= after => Safe(m)
AnswersCover ==
  \A found \in answers : \A x \in found, m \in Saved : SeqOf(m) < SeqOf(x) => m \in found \/ Safe(m)
PagesCover ==
  \A page \in pages : \A x \in page.found, m \in Saved : SeqOf(m) < SeqOf(x) => m \in page.found
RoomCovers == room => \A m \in Saved : Safe(m) \/ m \in wire \/ Announced(m)

MissInv == TabInv /\ LinkInv /\ ShownCovers /\ SyncsCover /\ AnswersCover /\ PagesCover /\ RoomCovers
CoverInv == ShownCovers /\ SyncsCover /\ AnswersCover /\ PagesCover /\ RoomCovers
SafeKept == \A m \in Saved : Safe(m) => Safe(m)'

LEMMA CoversKept ==
  ASSUME MissInv, SeqKept, SafeKept,
         \A x \in thread' \ thread : x \in Saved /\ \A m \in Saved : SeqOf(m) < SeqOf(x) => Safe(m)',
         \A after \in syncs' \ syncs : after \in 0..lastSeq /\ \A m \in Saved : SeqOf(m) <= after => Safe(m)',
         \A found \in answers' \ answers : found \subseteq Saved /\
           \A x \in found, m \in Saved : SeqOf(m) < SeqOf(x) => m \in found \/ Safe(m)',
         \A page \in pages' \ pages : page.found \subseteq Saved /\
           \A x \in page.found, m \in Saved : SeqOf(m) < SeqOf(x) => m \in page.found,
         RoomCovers'
  PROVE  CoverInv'
<1>1. /\ thread \subseteq Saved /\ answers \subseteq SUBSET Saved /\ syncs \subseteq 0..lastSeq
      /\ \A page \in pages : page.found \subseteq Saved
  BY DEF MissInv, TabInv, ShownOK, LinkInv
<1>2. lastSeq \in Nat /\ \A m \in Saved : SeqOf(m) \in 1..lastSeq
  BY SeqFound DEF MissInv, TabInv
<1>3. ASSUME NEW m \in Saved', m \notin Saved, NEW x \in Saved PROVE ~ (SeqOf(m)' < SeqOf(x)')
  <2>1. SeqOf(m)' \in Nat /\ SeqOf(m)' > lastSeq /\ SeqOf(x)' = SeqOf(x)
    BY <1>3 DEF SeqKept
  <2> HIDE DEF SeqOf
  <2> QED
    BY <2>1, <1>2
<1>4. \A m \in Saved : SeqOf(m)' = SeqOf(m)
  BY DEF SeqKept
<1>5. ShownCovers'
  <2> SUFFICES ASSUME NEW x \in thread', NEW m \in Saved', SeqOf(m)' < SeqOf(x)' PROVE Safe(m)'
    BY DEF ShownCovers
  <2>1. x \in Saved /\ m \in Saved
    BY <1>1, <1>3
  <2>2. SeqOf(m) < SeqOf(x)
    BY <2>1, <1>4
  <2> QED
    BY <2>1, <2>2 DEF SafeKept, MissInv, ShownCovers
<1>6. SyncsCover'
  <2> SUFFICES ASSUME NEW after \in syncs', NEW m \in Saved', SeqOf(m)' <= after PROVE Safe(m)'
    BY DEF SyncsCover
  <2>1. after \in 0..lastSeq
    BY <1>1
  <2>2. m \in Saved
    <3>1. SUFFICES ASSUME m \notin Saved PROVE FALSE
      OBVIOUS
    <3>2. SeqOf(m)' \in Nat /\ SeqOf(m)' > lastSeq
      BY <3>1 DEF SeqKept
    <3> QED
      BY <3>2, <2>1, <1>2
  <2>3. SeqOf(m) <= after
    BY <2>2, <1>4
  <2> QED
    BY <2>2, <2>3 DEF SafeKept, MissInv, SyncsCover
<1>7. AnswersCover'
  <2> SUFFICES ASSUME NEW found \in answers', NEW x \in found, NEW m \in Saved', SeqOf(m)' < SeqOf(x)'
               PROVE  m \in found \/ Safe(m)'
    BY DEF AnswersCover
  <2>1. x \in Saved
    BY <1>1
  <2>2. m \in Saved
    BY <1>3, <2>1
  <2>3. SeqOf(m) < SeqOf(x)
    BY <2>1, <2>2, <1>4
  <2> QED
    BY <2>2, <2>3 DEF SafeKept, MissInv, AnswersCover
<1>8. PagesCover'
  <2> SUFFICES ASSUME NEW page \in pages', NEW x \in page.found, NEW m \in Saved', SeqOf(m)' < SeqOf(x)'
               PROVE  m \in page.found
    BY DEF PagesCover
  <2>1. x \in Saved
    BY <1>1
  <2>2. m \in Saved
    BY <1>3, <2>1
  <2>3. SeqOf(m) < SeqOf(x)
    BY <2>1, <2>2, <1>4
  <2> QED
    BY <2>2, <2>3 DEF MissInv, PagesCover
<1> QED
  BY <1>5, <1>6, <1>7, <1>8 DEF CoverInv

LEMMA StepKeepsSeqs ==
  ASSUME IInv, IInv', ServerStep \/ UNCHANGED chatVars
  PROVE  SeqKept
<1>1. CASE UNCHANGED <<lastSeq, rows>>
  BY <1>1, RowsKeepSeqs
<1>2. ASSUME NEW w \in Workers, Transaction(w) PROVE SeqKept
  BY <1>2, TransactionKeepsSeqs
<1>3. UNCHANGED <<lastSeq, rows>> \/ \E w \in Workers : Transaction(w)
  BY DEF ServerStep, CountFault, Next, Send, Read, chatVars, StartSend, StartRead, FindSent, FindNothing,
         Conflict, FindRaced, Announce, ReadSeq, SetMark, CreateMark, Throw
<1> QED
  BY <1>1, <1>2, <1>3

(* What is shown or accounted for stays so, when nothing that brings a     *)
(* message is taken away.                                                  *)
LEMMA SafeStays ==
  ASSUME SeqKept, Shown \subseteq Shown', syncs \subseteq syncs', answers \subseteq answers',
         asked \subseteq asked', pages \subseteq pages'
  PROVE  SafeKept
<1> SUFFICES ASSUME NEW m \in Saved, Safe(m) PROVE Safe(m)'
  BY DEF SafeKept
<1>1. SeqOf(m)' = SeqOf(m)
  BY DEF SeqKept
<1> QED
  BY <1>1 DEF Safe

(* A message that is being announced goes into the room's packets, or is   *)
(* never announced; a new one is to be announced.                          *)
LEMMA AnnouncedKept ==
  ASSUME IInv, IInv', NEW w \in Workers, TabStep(w), room, NEW m \in Saved', m \notin Saved \/ Announced(m)
  PROVE  Announced(m)' \/ m \in wire' \/ m \in excused'
<1>1. req[w] \in Request /\ RequestOK(w) /\ \A v \in Workers : req[v] \in Request
  BY DEF IInv, TypeOK
<1>2. \A v \in Workers \ {w} : req'[v] = req[v]
  BY DEF IInv, TypeOK, TabStep, TabSends, Retry, Deliver, OthersSend, AnswerDuplicate, AnnounceToRoom, SendThrows,
         NoAnswer, MarkRead, Quietly, StartSend, StartRead, FindSent, FindNothing, Transaction, Conflict, FindRaced,
         Announce, Read, ReadSeq, SetMark, CreateMark, Throw, Goto, Done
<1>3. CASE m \notin Saved
  <2>1. rows' # rows
    BY <1>3 DEF Saved, Sent
  <2>2. Transaction(w)
    BY <2>1 DEF TabStep, TabSends, Retry, Deliver, OthersSend, AnswerDuplicate, AnnounceToRoom, SendThrows,
         NoAnswer, MarkRead, Quietly, StartSend, StartRead, FindSent, FindNothing, Conflict, FindRaced,
         Announce, Read, ReadSeq, SetMark, CreateMark, Throw
  <2>3. req[w].msg = m
    BY <1>3, <2>2 DEF Transaction, Saved, Sent
  <2>4. req'[w] = [req[w] EXCEPT !.step = "announce"]
    BY <2>2 DEF Transaction, Goto, IInv, TypeOK
  <2>5. req'[w].step = "announce" /\ req'[w].msg = m
    BY <1>1, <2>3, <2>4 DEF Request
  <2> QED
    BY <2>5 DEF Announced, At
<1>4. CASE Announced(m)
  <2>1. PICK v \in Workers : req[v].step = "announce" /\ req[v].msg = m
    BY <1>4 DEF Announced, At
  <2>2. CASE v # w \/ req' = req
    BY <1>2, <2>1, <2>2 DEF Announced, At
  <2>3. CASE v = w /\ req' # req
    <3>1. m \in Messages
      BY <1>1, <2>1, <2>3 DEF RequestOK, SendSteps
    <3>2. m # NoMessage
      BY <3>1, ChatAssumption
    <3>3. AnnounceToRoom(w) \/ SendThrows(w)
      BY <2>1, <2>3, <3>2 DEF TabStep, TabSends, Retry, Deliver, OthersSend, AnswerDuplicate, NoAnswer, MarkRead,
           Quietly, StartSend, StartRead, FindSent, FindNothing, Transaction, Conflict, FindRaced,
           Read, ReadSeq, SetMark, CreateMark, Throw, At
    <3>4. CASE AnnounceToRoom(w)
      BY <2>1, <2>3, <3>4 DEF AnnounceToRoom
    <3>5. CASE SendThrows(w)
      BY <2>1, <2>3, <3>5 DEF SendThrows, At
    <3> QED
      BY <3>3, <3>4, <3>5
  <2> QED
    BY <2>2, <2>3
<1> QED
  BY <1>3, <1>4

(* The requests: whatever is answered or shown beside what it went past    *)
(* accounts for it.                                                        *)
LEMMA RequestKeepsCover ==
  ASSUME MissInv, IInv', SeqKept, NEW w \in Workers, TabStep(w)
  PROVE  CoverInv'
<1> DEFINE m == req[w].msg
<1>1. /\ UNCHANGED linkVars /\ wire \subseteq wire' /\ thread \subseteq thread'
      /\ excused \subseteq excused' /\ skipped \subseteq skipped'
      /\ \/ thread' = thread
         \/ thread' = thread \cup {m} /\ skipped' = skipped \cup Before(m)
            /\ (FindSent(w) \/ FindRaced(w) \/ Announce(w))
  <2>1. CASE AnswerDuplicate(w) \/ AnnounceToRoom(w)
    <3>1. UNCHANGED linkVars /\ wire \subseteq wire' /\ Settle(w) /\ (FindSent(w) \/ FindRaced(w) \/ Announce(w))
      BY <2>1 DEF AnswerDuplicate, AnnounceToRoom, linkVars
    <3> QED
      BY <3>1 DEF Settle, Show
  <2>2. CASE ~ (AnswerDuplicate(w) \/ AnnounceToRoom(w))
    BY <2>2 DEF TabStep, TabSends, Retry, Deliver, OthersSend, SendThrows, NoAnswer, MarkRead, Quietly,
                tabVars, linkVars, history
  <2> QED
    BY <2>1, <2>2
<1>2. SafeKept
  BY <1>1, SafeStays DEF Shown, linkVars
<1>3. \A x \in thread' \ thread : x \in Saved /\ \A y \in Saved : SeqOf(y) < SeqOf(x) => Safe(y)'
  <2> SUFFICES ASSUME NEW x \in thread', x \notin thread
               PROVE  x \in Saved /\ \A y \in Saved : SeqOf(y) < SeqOf(x) => y \in Shown'
    BY DEF Safe
  <2>1. x = m /\ skipped' = skipped \cup Before(x) /\ (FindSent(w) \/ FindRaced(w) \/ Announce(w))
    BY <1>1
  <2>2. x \in Saved
    BY <2>1 DEF MissInv, TabInv, IInv, TypeOK, Request, RequestOK, FindSent, FindRaced, Announce, At, Saved, SendSteps
  <2> QED
    BY <1>1, <2>1, <2>2 DEF Before, Shown
<1>4. RoomCovers'
  <2> SUFFICES ASSUME room, NEW y \in Saved' PROVE Safe(y)' \/ y \in wire' \/ Announced(y)'
    BY <1>1 DEF RoomCovers, linkVars
  <2>1. CASE y \notin Saved \/ Announced(y)
    <3>1. Announced(y)' \/ y \in wire' \/ y \in excused'
      BY <2>1, AnnouncedKept DEF MissInv, TabInv
    <3> QED
      BY <3>1 DEF Safe, Shown
  <2>2. CASE y \in Saved /\ ~ Announced(y)
    BY <1>1, <1>2, <2>2 DEF SafeKept, MissInv, RoomCovers
  <2> QED
    BY <2>1, <2>2
<1> QED
  BY <1>1, <1>2, <1>3, <1>4, CoversKept DEF linkVars

LEMMA ServerStays ==
  ASSUME IInv, UNCHANGED <<lastSeq, rows, req>>
  PROVE  SeqKept /\ Saved' = Saved /\ \A m : Announced(m)' <=> Announced(m)
<1>1. SeqKept /\ Saved' = Saved
  BY RowsKeepSeqs
<1>2. \A m : Announced(m)' <=> Announced(m)
  BY DEF Announced, At
<1> QED
  BY <1>1, <1>2

(* A step that takes packets away, or none, in the room or out of it. *)
LEMMA RoomStays ==
  ASSUME MissInv, UNCHANGED <<lastSeq, rows, req>>, SafeKept, room' => room,
         \A m \in wire \ wire' : Safe(m)'
  PROVE  RoomCovers'
BY ServerStays DEF MissInv, TabInv, RoomCovers, SafeKept

(* What is not newer than the newest message shown is safe. *)
LEMMA SafeBelowNewest ==
  ASSUME MissInv
  PROVE  Newest \in 0..lastSeq /\ \A m \in Saved : SeqOf(m) <= Newest => Safe(m)
<1>1. /\ Newest \in 0..lastSeq /\ lastSeq \in Nat /\ thread \subseteq Saved
      /\ thread # {} => \E m \in thread : SeqOf(m) = Newest
      /\ thread = {} => Newest = 0
      /\ \A m \in Saved : SeqOf(m) \in 1..lastSeq
      /\ \A m, x \in Saved : SeqOf(m) = SeqOf(x) => m = x
  BY NewestFound, SeqFound DEF MissInv, TabInv, ShownOK
<1> SUFFICES ASSUME NEW m \in Saved, SeqOf(m) <= Newest PROVE Safe(m)
  BY <1>1
<1>2. thread # {}
  BY <1>1
<1>3. PICK x \in thread : SeqOf(x) = Newest
  BY <1>1, <1>2
<1>4. CASE m = x
  BY <1>4 DEF Safe, Shown
<1>5. CASE m # x
  <2>1. SeqOf(m) < SeqOf(x)
    BY <1>1, <1>3, <1>5
  <2> QED
    BY <2>1 DEF MissInv, ShownCovers
<1> QED
  BY <1>4, <1>5

LEMMA ReceiveKeepsCover ==
  ASSUME MissInv, NEW m \in wire, Receive(m)
  PROVE  CoverInv'
<1>1. /\ UNCHANGED <<lastSeq, rows, req, room, answers, asked, pages, excused>>
      /\ thread' = thread \cup {m} /\ wire' = wire \ {m}
      /\ skipped \subseteq skipped' /\ syncs \subseteq syncs' /\ syncs' \subseteq syncs \cup {Newest}
  BY DEF Receive, chatVars, Show
<1>2. SeqKept /\ Saved' = Saved
  BY <1>1, ServerStays DEF MissInv, TabInv
<1>3. m \in Saved /\ thread \subseteq Saved
  BY DEF MissInv, TabInv, ShownOK
<1>4. SafeKept
  BY <1>1, <1>2, SafeStays DEF Shown
<1>5. Newest \in 0..lastSeq /\ \A y \in Saved : SeqOf(y) <= Newest => Safe(y)
  BY SafeBelowNewest
<1>6. lastSeq \in Nat /\ \A y \in Saved : SeqOf(y) \in 1..lastSeq
  BY SeqFound DEF MissInv, TabInv
<1>7. ASSUME NEW y \in Saved, SeqOf(y) < SeqOf(m) PROVE Safe(y)'
  <2>1. CASE ~ Showing
    <3>1. skipped' = skipped \cup Before(m)
      BY <2>1 DEF Receive
    <3>2. y \in Shown'
      BY <1>1, <1>7, <3>1 DEF Before, Shown
    <3> QED
      BY <3>2 DEF Safe
  <2>2. CASE SeqOf(y) <= Newest
    BY <1>4, <1>5, <2>2 DEF SafeKept
  <2>3. CASE Showing /\ ~ SeqOf(y) <= Newest
    <3>1. SeqOf(m) > Newest + 1
      BY <1>3, <1>5, <1>6, <1>7, <2>3
    <3>2. Newest \in syncs'
      BY <2>3, <3>1 DEF Receive
    <3>3. SeqOf(y)' = SeqOf(y) /\ SeqOf(y) > Newest
      BY <1>2, <1>5, <1>6, <2>3 DEF SeqKept
    <3>4. PICK after \in syncs' : SeqOf(y)' > after
      BY <3>2, <3>3
    <3> QED
      BY <3>4 DEF Safe
  <2> QED
    BY <2>1, <2>2, <2>3
<1>8. \A after \in syncs' \ syncs : after \in 0..lastSeq /\ \A y \in Saved : SeqOf(y) <= after => Safe(y)'
  BY <1>1, <1>4, <1>5 DEF SafeKept
<1>9. RoomCovers'
  <2>1. Safe(m)'
    BY <1>1 DEF Safe, Shown
  <2> QED
    BY <1>1, <1>4, <2>1, RoomStays
<1> QED
  BY <1>1, <1>2, <1>3, <1>4, <1>7, <1>8, <1>9, CoversKept

LEMMA AnswerSyncKeepsCover ==
  ASSUME MissInv, NEW after \in syncs, AnswerSync(after)
  PROVE  CoverInv'
<1>0. PICK found : found = {m \in Saved : SeqOf(m) > after}
  OBVIOUS
<1>1. /\ UNCHANGED <<lastSeq, rows, req, asked, pages, thread, excused, skipped, wire>>
      /\ syncs' = syncs \ {after} /\ answers' = answers \cup {found}
  BY <1>0 DEF AnswerSync, chatVars, history
<1>2. SeqKept /\ Saved' = Saved
  BY <1>1, ServerStays DEF MissInv, TabInv
<1>3. lastSeq \in Nat /\ after \in 0..lastSeq /\ \A m \in Saved : SeqOf(m) \in 1..lastSeq
  BY SeqFound DEF MissInv, TabInv, LinkInv
<1>4. SafeKept
  <2> SUFFICES ASSUME NEW m \in Saved, Safe(m) PROVE Safe(m)'
    BY DEF SafeKept
  <2>1. SeqOf(m)' = SeqOf(m)
    BY <1>2 DEF SeqKept
  <2> QED
    BY <1>0, <1>1, <2>1 DEF Safe, Shown
<1>5. \A m \in Saved : Safe(m)'
  <2> SUFFICES ASSUME NEW m \in Saved PROVE Safe(m)'
    OBVIOUS
  <2>1. CASE SeqOf(m) <= after
    BY <2>1, <1>4 DEF SafeKept, MissInv, SyncsCover
  <2>2. CASE ~ SeqOf(m) <= after
    <3>1. m \in found /\ found \in answers'
      BY <2>2, <1>0, <1>1, <1>3
    <3> QED
      BY <3>1 DEF Safe
  <2> QED
    BY <2>1, <2>2
<1>6. RoomCovers'
  BY <1>2, <1>5 DEF RoomCovers
<1> QED
  BY <1>0, <1>1, <1>2, <1>4, <1>5, <1>6, CoversKept

LEMMA SyncFailsKeepsCover ==
  ASSUME MissInv, NEW after \in syncs, SyncFails(after)
  PROVE  CoverInv'
<1>1. /\ UNCHANGED <<lastSeq, rows, req, room, answers, pages, thread, wire>>
      /\ syncs' \subseteq syncs /\ "reload" \in asked'
  BY DEF SyncFails
<1>2. SeqKept
  BY <1>1, ServerStays DEF MissInv, TabInv
<1>3. \A m : Safe(m)'
  BY <1>1 DEF Safe
<1>4. SafeKept /\ RoomCovers'
  BY <1>3 DEF SafeKept, RoomCovers
<1> QED
  BY <1>1, <1>2, <1>4, CoversKept

LEMMA ReceiveSyncKeepsCover ==
  ASSUME MissInv, NEW found \in answers, ReceiveSync(found)
  PROVE  CoverInv'
<1>1. /\ UNCHANGED <<lastSeq, rows, req, room, syncs, asked, pages, wire, excused, skipped>>
      /\ thread' = thread \cup found /\ answers' = answers \ {found}
  BY DEF ReceiveSync, chatVars, history, Show
<1>2. SeqKept
  BY <1>1, ServerStays DEF MissInv, TabInv
<1>3. found \subseteq Saved
  BY DEF MissInv, TabInv, ShownOK
<1>4. SafeKept
  <2> SUFFICES ASSUME NEW m \in Saved, Safe(m) PROVE Safe(m)'
    BY DEF SafeKept
  <2>1. SeqOf(m)' = SeqOf(m)
    BY <1>2 DEF SeqKept
  <2> QED
    BY <1>1, <2>1 DEF Safe, Shown
<1>5. \A m \in found : Safe(m)'
  BY <1>1 DEF Safe, Shown
<1>6. \A x \in found, m \in Saved : SeqOf(m) < SeqOf(x) => Safe(m)'
  BY <1>4, <1>5 DEF SafeKept, MissInv, AnswersCover
<1>7. RoomCovers'
  BY <1>1, <1>4, RoomStays
<1> QED
  BY <1>1, <1>2, <1>3, <1>4, <1>6, <1>7, CoversKept

LEMMA ReadPageKeepsCover ==
  ASSUME MissInv, NEW kind \in asked, ReadPage(kind)
  PROVE  CoverInv'
<1>0. PICK page : page = [kind |-> kind, found |-> Saved]
  OBVIOUS
<1>1. /\ UNCHANGED <<lastSeq, rows, req, room, syncs, answers, thread, wire>>
      /\ pages' = pages \cup {page}
  BY <1>0 DEF ReadPage, chatVars
<1>2. SeqKept /\ Saved' = Saved
  BY <1>1, ServerStays DEF MissInv, TabInv
<1>3. page \in pages' /\ page.found = Saved
  BY <1>0, <1>1
<1>4. \A m \in Saved : Safe(m)'
  BY <1>3 DEF Safe
<1>5. SafeKept /\ RoomCovers'
  BY <1>2, <1>4 DEF SafeKept, RoomCovers
<1> QED
  BY <1>1, <1>2, <1>3, <1>5, CoversKept

LEMMA PageFailsKeepsCover ==
  ASSUME MissInv, NEW kind \in asked, PageFails(kind)
  PROVE  CoverInv'
<1>1. /\ UNCHANGED <<lastSeq, rows, req, room, syncs, answers, pages, thread, wire>>
      /\ excused' = excused \cup (Saved \ thread)
  BY DEF PageFails
<1>2. SeqKept /\ Saved' = Saved
  BY <1>1, ServerStays DEF MissInv, TabInv
<1>3. \A m \in Saved : Safe(m)'
  BY <1>1 DEF Safe, Shown
<1>4. SafeKept /\ RoomCovers'
  BY <1>2, <1>3 DEF SafeKept, RoomCovers
<1> QED
  BY <1>1, <1>2, <1>4, CoversKept

(* A page that drops messages from the list accounts for them. *)
LEMMA ReceivePageKeepsCover ==
  ASSUME MissInv, NEW page \in pages, ReceivePage(page)
  PROVE  CoverInv'
<1>1. /\ UNCHANGED <<lastSeq, rows, req, room, syncs, answers, asked, wire, skipped>>
      /\ thread' = page.found /\ pages' = pages \ {page}
      /\ excused' = excused \cup (thread \ page.found)
  BY DEF ReceivePage, chatVars
<1>2. SeqKept
  BY <1>1, ServerStays DEF MissInv, TabInv
<1>3. page.found \subseteq Saved
  BY DEF MissInv, TabInv, ShownOK
<1>4. SafeKept
  <2> SUFFICES ASSUME NEW m \in Saved, Safe(m) PROVE Safe(m)'
    BY DEF SafeKept
  <2>1. SeqOf(m)' = SeqOf(m)
    BY <1>2 DEF SeqKept
  <2> QED
    BY <1>1, <2>1 DEF Safe, Shown
<1>5. \A m \in page.found : Safe(m)'
  BY <1>1 DEF Safe, Shown
<1>6. \A x \in page.found, m \in Saved : SeqOf(m) < SeqOf(x) => Safe(m)'
  BY <1>5 DEF MissInv, PagesCover
<1>7. RoomCovers'
  BY <1>1, <1>4, RoomStays
<1> QED
  BY <1>1, <1>2, <1>3, <1>4, <1>6, <1>7, CoversKept

(* Back in the room: what a sync does not bring is known, or accounted for. *)
LEMMA JoinKeepsCover ==
  ASSUME MissInv, Join
  PROVE  CoverInv'
<1>1. /\ UNCHANGED <<lastSeq, rows, req, syncs, answers, asked, pages, thread, wire, skipped>>
      /\ excused' = IF room \/ syncs # {} THEN excused ELSE excused \cup (Saved \ thread)
  BY DEF Join, chatVars
<1>2. SeqKept /\ Saved' = Saved
  BY <1>1, ServerStays DEF MissInv, TabInv
<1>3. SafeKept
  BY <1>1, <1>2, SafeStays DEF Shown
<1>4. RoomCovers'
  <2>1. CASE room
    BY <1>1, <1>3, <2>1, RoomStays
  <2>2. CASE ~ room /\ syncs = {}
    <3>1. \A m \in Saved : m \in Shown'
      BY <1>1, <2>2 DEF Shown
    <3> QED
      BY <1>2, <3>1 DEF RoomCovers, Safe
  <2>3. CASE ~ room /\ syncs # {}
    <3>1. PICK after \in syncs : TRUE
      BY <2>3
    <3>2. lastSeq \in Nat /\ after \in 0..lastSeq /\ \A m \in Saved : SeqOf(m) \in 1..lastSeq
      BY SeqFound DEF MissInv, TabInv, LinkInv
    <3>3. ASSUME NEW m \in Saved PROVE Safe(m)
      <4>1. CASE SeqOf(m) <= after
        BY <4>1 DEF MissInv, SyncsCover
      <4>2. CASE ~ SeqOf(m) <= after
        BY <4>2, <3>2 DEF Safe
      <4> QED
        BY <4>1, <4>2
    <3> QED
      BY <1>2, <1>3, <3>3 DEF RoomCovers, SafeKept
  <2> QED
    BY <2>1, <2>2, <2>3
<1> QED
  BY <1>1, <1>2, <1>3, <1>4, CoversKept

LEMMA DisconnectKeepsCover ==
  ASSUME MissInv, Disconnect
  PROVE  CoverInv'
<1>1. /\ UNCHANGED <<lastSeq, rows, req, room, pages, thread, wire, excused, skipped>>
      /\ syncs' = {} /\ answers' = {}
      /\ asked' = IF syncs # {} \/ answers # {} THEN asked \cup {"reload"} ELSE asked
  BY DEF Disconnect, history
<1>2. SeqKept
  BY <1>1, ServerStays DEF MissInv, TabInv
<1>3. SafeKept
  BY <1>1 DEF SafeKept, Safe, Shown
<1>4. RoomCovers'
  BY <1>1, <1>3, RoomStays
<1> QED
  BY <1>1, <1>2, <1>3, <1>4, CoversKept

LEMMA ReconnectKeepsCover ==
  ASSUME MissInv, Recover \/ Reconnect
  PROVE  CoverInv'
<1>1. /\ UNCHANGED <<lastSeq, rows, req, answers, asked, pages, thread, excused, skipped>>
      /\ ~ connected /\ (syncs' = syncs \/ syncs' = {Newest})
      /\ room' => (room /\ wire' = wire)
  BY DEF Recover, Reconnect, chatVars, history
<1>2. SeqKept
  BY <1>1, ServerStays DEF MissInv, TabInv
<1>3. syncs = {}
  BY <1>1 DEF MissInv, LinkInv
<1>4. SafeKept
  BY <1>1, <1>2, <1>3, SafeStays DEF Shown
<1>5. \A after \in syncs' \ syncs : after \in 0..lastSeq /\ \A m \in Saved : SeqOf(m) <= after => Safe(m)'
  BY <1>1, <1>4, SafeBelowNewest DEF SafeKept
<1>6. RoomCovers'
  <2>1. CASE room'
    BY <1>1, <1>4, <2>1, RoomStays
  <2>2. CASE ~ room'
    BY <2>2 DEF RoomCovers
  <2> QED
    BY <2>1, <2>2
<1> QED
  BY <1>1, <1>2, <1>4, <1>5, <1>6, CoversKept

LEMMA LinkKept ==
  ASSUME TabInv, TabInv', LinkInv, TabNext, lastSeq' >= lastSeq
  PROVE  LinkInv'
<1>1. Newest \in 0..lastSeq
  BY NewestFound DEF TabInv, ShownOK
<1>2. lastSeq \in Nat /\ lastSeq' \in Nat
  BY DEF TabInv, IInv, TypeOK
<1>3. reported' \subseteq NewSeqs
  <2>0. reported \subseteq NewSeqs
    BY DEF LinkInv
  <2>1. ASSUME NEW w \in Workers, TabStep(w) PROVE reported' \subseteq NewSeqs
    BY <2>0, <2>1 DEF TabStep, TabSends, Retry, Deliver, OthersSend, AnswerDuplicate, AnnounceToRoom, SendThrows,
                      NoAnswer, MarkRead, Quietly, tabVars
  <2>2. CASE ~ \E w \in Workers : TabStep(w)
    BY <2>0, <2>2 DEF TabNext, Discard, Receive, AnswerSync, SyncFails, ReceiveSync, ReadPage, PageFails,
                      ReceivePage, Join, Disconnect, Recover, Reconnect
  <2> QED
    BY <2>1, <2>2
<1>4. \/ UNCHANGED <<connected, room, joining, syncs, answers>>
      \/ \E m \in wire : Receive(m)
      \/ \E after \in syncs : AnswerSync(after) \/ SyncFails(after)
      \/ \E found \in answers : ReceiveSync(found)
      \/ Join \/ Disconnect \/ Recover \/ Reconnect
  BY DEF TabNext, TabStep, TabSends, Retry, Deliver, OthersSend, AnswerDuplicate, AnnounceToRoom, SendThrows,
         NoAnswer, MarkRead, Quietly, Discard, ReadPage, PageFails, ReceivePage, tabVars, linkVars
<1> SUFFICES /\ connected' \in BOOLEAN /\ room' \in BOOLEAN /\ joining' \in BOOLEAN
             /\ connected' \/ (syncs' = {} /\ answers' = {})
             /\ connected' => room' \/ joining'
             /\ syncs' \subseteq 0..lastSeq
  BY <1>2, <1>3 DEF LinkInv
<1>5. CASE UNCHANGED <<connected, room, joining, syncs, answers>>
  BY <1>5 DEF LinkInv
<1>6. ASSUME NEW m \in wire, Receive(m)
      PROVE  /\ UNCHANGED <<connected, room, joining, answers>> /\ connected
             /\ syncs' \subseteq syncs \cup {Newest}
  BY <1>6 DEF Receive
<1>7. CASE \E after \in syncs : AnswerSync(after) \/ SyncFails(after)
  <2>1. CASE \E after \in syncs : AnswerSync(after)
    <3>1. /\ connected /\ room' = TRUE /\ UNCHANGED <<connected, joining>>
          /\ syncs' \subseteq syncs
      BY <2>1 DEF AnswerSync
    <3> QED
      BY <3>1 DEF LinkInv
  <2>2. CASE \E after \in syncs : SyncFails(after)
    <3>1. connected /\ UNCHANGED <<connected, room, joining>> /\ syncs' \subseteq syncs
      BY <2>2 DEF SyncFails
    <3> QED
      BY <3>1 DEF LinkInv
  <2> QED
    BY <1>7, <2>1, <2>2
<1>8. CASE \E found \in answers : ReceiveSync(found)
  BY <1>8 DEF LinkInv, ReceiveSync
<1>9. CASE Join \/ Disconnect \/ Recover \/ Reconnect
  BY <1>1, <1>9 DEF LinkInv, Join, Disconnect, Recover, Reconnect
<1>10. CASE \E m \in wire : Receive(m)
  BY <1>1, <1>6, <1>10 DEF LinkInv
<1> QED
  BY <1>4, <1>5, <1>7, <1>8, <1>9, <1>10

LEMMA TabNextKeepsCover ==
  ASSUME MissInv, TabNext
  PROVE  MissInv'
<1>1. TabInv'
  BY TabNextKeeps DEF MissInv
<1>2. SeqKept
  BY <1>1, TabStepIsServerStep, StepKeepsSeqs DEF MissInv, TabInv
<1>3. LinkInv'
  BY <1>1, <1>2, LinkKept DEF MissInv, SeqKept
<1>4. CoverInv'
  <2>1. ASSUME NEW w \in Workers, TabStep(w) PROVE CoverInv'
    BY <1>1, <1>2, <2>1, RequestKeepsCover DEF TabInv
  <2>2. ASSUME NEW m \in Mine, Discard(m) PROVE CoverInv'
    <3>1. UNCHANGED <<lastSeq, rows, req, room, syncs, answers, asked, pages, thread, wire, excused, skipped>>
      BY <2>2 DEF Discard, chatVars, linkVars, history
    <3>2. SafeKept
      BY <1>2, <3>1, SafeStays DEF Shown
    <3>3. RoomCovers'
      BY <3>1, <3>2, RoomStays
    <3> QED
      BY <1>2, <3>1, <3>2, <3>3, CoversKept
  <2> QED
    BY <2>1, <2>2, ReceiveKeepsCover, AnswerSyncKeepsCover, SyncFailsKeepsCover, ReceiveSyncKeepsCover,
       ReadPageKeepsCover, PageFailsKeepsCover, ReceivePageKeepsCover, JoinKeepsCover, DisconnectKeepsCover,
       ReconnectKeepsCover DEF TabNext
<1> QED
  BY <1>1, <1>3, <1>4 DEF MissInv, CoverInv

LEMMA TabInductive == TabSpec => []MissInv
<1>1. TabInit => MissInv
  <2> SUFFICES ASSUME TabInit PROVE MissInv
    OBVIOUS
  <2>1. TabInv
    BY TabInitHolds
  <2>2. LinkInv /\ CoverInv
    BY DEF TabInit, LinkInv, CoverInv, ShownCovers, SyncsCover, AnswersCover, PagesCover, RoomCovers
  <2> QED
    BY <2>1, <2>2 DEF MissInv, CoverInv
<1>2. MissInv /\ UNCHANGED vars => MissInv'
  <2> SUFFICES ASSUME MissInv, UNCHANGED vars PROVE MissInv'
    OBVIOUS
  <2>1. /\ UNCHANGED <<lastSeq, rows, req, room, syncs, answers, asked, pages, thread, wire, excused, skipped>>
        /\ UNCHANGED <<connected, joining, reported>>
    BY DEF vars, chatVars, tabVars, history
  <2>2. TabInv'
    BY TabStutterKeeps DEF MissInv
  <2>3. SeqKept
    BY <2>1, ServerStays DEF MissInv, TabInv
  <2>4. SafeKept
    BY <2>1, <2>3, SafeStays DEF Shown
  <2>5. RoomCovers'
    BY <2>1, <2>4, RoomStays
  <2>6. CoverInv'
    BY <2>1, <2>3, <2>4, <2>5, CoversKept
  <2>7. LinkInv'
    BY <2>1 DEF MissInv, LinkInv
  <2> QED
    BY <2>2, <2>6, <2>7 DEF MissInv, CoverInv
<1> QED
  BY <1>1, <1>2, TabNextKeepsCover, PTL DEF TabSpec

(* What the tab asks after and reports as read are numbers of messages.    *)
THEOREM TabTypeCorrect == TabSpec => []TabTypeOK
<1>1. MissInv => TabTypeOK
  <2> SUFFICES ASSUME MissInv PROVE TabTypeOK
    OBVIOUS
  <2>1. 0..lastSeq \subseteq NewSeqs
    BY NumbersFit DEF MissInv, TabInv, NewSeqs
  <2> QED
    BY <2>1 DEF MissInv, TabInv, LinkInv, TabTypeOK, LinkOK
<1> QED
  BY <1>1, TabInductive, PTL

(* Whatever is lost, late or fails, once nothing is on its way a tab       *)
(* shows every saved message but those the code is known to hide: a gap    *)
(* that onNew sees is asked for, an answer that fails becomes a reload,    *)
(* and a session that comes back asks after the newest it shows.           *)
THEOREM MissesNothing == TabSpec => []NothingMissed
<1>1. MissInv => NothingMissed
  <2> SUFFICES ASSUME MissInv, Quiet, NEW m \in Saved PROVE m \in thread \cup excused \cup skipped
    BY DEF NothingMissed
  <2>1. Safe(m) \/ m \in wire \/ Announced(m)
    BY DEF MissInv, RoomCovers, Quiet
  <2> QED
    BY <2>1 DEF Quiet, Announced, Safe, Shown
<1> QED
  BY <1>1, TabInductive, PTL
=============================================================================
