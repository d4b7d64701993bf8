-------------------------- MODULE GrpcClientProofs --------------------------
(***************************************************************************)
(* Proofs about GrpcClient for every set of threads, every capacity of the *)
(* command queue and of the wire, and any number of calls.                 *)
(***************************************************************************)
EXTENDS GrpcClient, SequenceTheorems, TLAPS

\* The command at k of the queue carries the i-th message given to the client.
Carries(k, i) == cmds[k].kind = "LogMsg" /\ cmds[k].call = given[i]

\* No message is given twice: a call is counted before it sends, and it
\* returns once.
GivenOnce ==
    /\ \A i, j \in 1..Len(given) : given[i] = given[j] => i = j
    /\ \A i \in 1..Len(given) :
          /\ given[i][2] <= calls[given[i][1]]
          /\ pc[given[i][1]] = "send" => given[i][2] < calls[given[i][1]]

\* The number of a call in progress is one of those a call may have.
CallsCounted == \A t \in Threads : pc[t] # "idle" => calls[t] # 0

\* What was yielded to the stream is what was given first.
SentFirst ==
    /\ Len(sent) <= Len(given)
    /\ \A i \in 1..Len(sent) : sent[i] = given[i]

\* While the queue is open it holds what was given and not yet sent, in order.
QueueHoldsRest ==
    open =>
      /\ \A i \in (Len(sent) + 1)..Len(given) :
            \E k \in 1..Len(cmds) : Carries(k, i)
      /\ \A k \in 1..Len(cmds) :
            cmds[k].kind = "LogMsg" =>
                \E i \in (Len(sent) + 1)..Len(given) : Carries(k, i)
      /\ \A k, l \in 1..Len(cmds) : \A i, j \in 1..Len(given) :
            k < l /\ Carries(k, i) /\ Carries(l, j) => i < j

\* Nothing is queued once the receivers are dropped.
ClosedIsEmpty == ~open => cmds = <<>>

\* A queued flush, unless its thread has called again, comes after every
\* message that was given before it and is not yet sent.
FlushesComeAfter ==
    \A k \in 1..Len(cmds) : \A t \in Threads : \A n \in 1..MaxCalls :
        cmds[k].kind = "Flush" /\ cmds[k].call = <<t, n>> =>
            /\ n <= calls[t]
            /\ n = calls[t] =>
                  \A i \in (Len(sent) + 1)..flush[t].before :
                      \E l \in 1..(k - 1) : Carries(l, i)

\* An answered flush, unless its thread has called again, finds what it waited
\* for sent, and so does one that has returned Ok.
AnswersAreTrue ==
    \A t \in Threads :
        /\ flush[t].before <= Len(given)
        /\ flush[t].outcome = "Ok" => flush[t].before <= Len(sent)
        /\ \A n \in 1..MaxCalls :
              <<t, n>> \in answered =>
                  /\ n <= calls[t]
                  /\ n = calls[t] => flush[t].before <= Len(sent)

\* The shared status follows the worker, and says Disconnected(Ok) only when
\* the server has received all that was yielded.
StatusFollowsWorker ==
    /\ worker \in {"start", "connecting"} => status = "Connecting" /\ sent = <<>>
    /\ worker = "streaming" => status = "Connected"
    /\ worker \in {"ending", "storing"} => status # "Disconnected(Ok)"
    /\ worker = "storing" /\ result = "Disconnected(Ok)" => received = Len(sent)
    /\ worker \in {"exit", "done"} /\ status = "Disconnected(Ok)"
          => received = Len(sent)

IInv ==
    /\ TypeOK
    /\ CallsCounted
    /\ GivenOnce
    /\ SentFirst
    /\ QueueHoldsRest
    /\ ClosedIsEmpty
    /\ FlushesComeAfter
    /\ AnswersAreTrue
    /\ StatusFollowsWorker

-----------------------------------------------------------------------------

LEMMA InitIInv == Init => IInv
  <1> SUFFICES ASSUME Init PROVE IInv
    OBVIOUS
  <1> USE GrpcClientAssumption DEF Init
  <1>1. TypeOK
    <2>1. flush \in [Threads -> [limit : {"bounded", "forever"},
                                outcome : Outcomes, before : Nat]]
      BY DEF NoFlush, Outcomes
    <2>2. cmds \in Seq(Commands) /\ sent \in Seq(Messages) /\ given \in Seq(Messages)
      OBVIOUS
    <2>3. Len(cmds) <= QueueCap /\ received \in 0..Len(sent)
      OBVIOUS
    <2>4. pc \in [Threads -> {"idle", "send", "flush", "await", "poll", "report"}]
      OBVIOUS
    <2>5. calls \in [Threads -> 0..MaxCalls]
      OBVIOUS
    <2> QED
      BY <2>1, <2>2, <2>3, <2>4, <2>5 DEF TypeOK, Disconnected
  <1>2. GivenOnce /\ SentFirst /\ QueueHoldsRest
    BY DEF GivenOnce, SentFirst, QueueHoldsRest
  <1>6. CallsCounted
    BY DEF CallsCounted
  <1>5. ClosedIsEmpty /\ FlushesComeAfter
    BY DEF ClosedIsEmpty, FlushesComeAfter
  <1>3. AnswersAreTrue
    BY DEF AnswersAreTrue, NoFlush
  <1>4. StatusFollowsWorker
    BY DEF StatusFollowsWorker
  <1> QED
    BY <1>1, <1>2, <1>3, <1>4, <1>5, <1>6 DEF IInv

\* The parts of the invariant about what was given, queued, sent and answered.
Order ==
    /\ GivenOnce
    /\ SentFirst
    /\ QueueHoldsRest
    /\ ClosedIsEmpty
    /\ FlushesComeAfter
    /\ AnswersAreTrue

LEMMA Types ==
  ASSUME IInv
  PROVE  /\ given \in Seq(Messages) /\ Len(given) \in Nat
         /\ sent \in Seq(Messages) /\ Len(sent) \in Nat
         /\ cmds \in Seq(Commands) /\ Len(cmds) \in Nat
         /\ calls \in [Threads -> 0..MaxCalls]
         /\ \A t \in Threads : flush[t].before \in Nat
  <1>1. /\ given \in Seq(Messages) /\ sent \in Seq(Messages)
        /\ cmds \in Seq(Commands) /\ calls \in [Threads -> 0..MaxCalls]
    BY DEF IInv, TypeOK
  <1>2. \A t \in Threads : flush[t].before \in Nat
    BY DEF IInv, TypeOK
  <1> QED
    BY <1>1, <1>2

LEMMA RestKept ==
  ASSUME SentFirst, QueueHoldsRest, UNCHANGED <<cmds, open, sent, given>>
  PROVE  SentFirst' /\ QueueHoldsRest'
  BY DEF SentFirst, QueueHoldsRest, Carries

LEMMA EmptyKept ==
  ASSUME ClosedIsEmpty, UNCHANGED <<cmds, open>>
  PROVE  ClosedIsEmpty'
  BY DEF ClosedIsEmpty

\* A step that touches none of it, except that a flush may return Ok when it
\* was answered.
LEMMA OrderKept ==
  ASSUME IInv,
         UNCHANGED <<cmds, open, sent, given, calls, answered>>,
         \A t \in Threads :
            /\ pc'[t] = "send" => pc[t] = "send"
            /\ flush'[t].before = flush[t].before
            /\ flush'[t].outcome = "Ok" =>
                   flush[t].outcome = "Ok" \/ Answered(t)
  PROVE  Order'
  <1> USE DEF IInv
  <1>1. GivenOnce'
    BY DEF GivenOnce, TypeOK, Messages
  <1>2. SentFirst' /\ QueueHoldsRest' /\ ClosedIsEmpty'
    BY RestKept, EmptyKept
  <1>3. FlushesComeAfter'
    BY DEF FlushesComeAfter, Carries
  <1>4. AnswersAreTrue'
    <2> SUFFICES ASSUME NEW t \in Threads
                 PROVE  /\ flush'[t].before <= Len(given)
                        /\ flush'[t].outcome = "Ok" => flush'[t].before <= Len(sent)
                        /\ \A n \in 1..MaxCalls :
                             <<t, n>> \in answered =>
                               /\ n <= calls[t]
                               /\ n = calls[t] => flush'[t].before <= Len(sent)
      BY DEF AnswersAreTrue
    <2>1. Answered(t) => calls[t] \in 1..MaxCalls
      BY DEF Answered, TypeOK, Messages
    <2> QED
      BY <2>1 DEF AnswersAreTrue, Answered
  <1> QED
    BY <1>1, <1>2, <1>3, <1>4 DEF Order

\* CloseQueues: what is queued is dropped, and nothing is queued again.
LEMMA OrderClosed ==
  ASSUME IInv, CloseQueues, UNCHANGED <<sent, given, calls, answered, flush, pc>>
  PROVE  Order'
  <1> USE DEF IInv, CloseQueues
  <1>1. GivenOnce' /\ SentFirst'
    BY DEF GivenOnce, SentFirst
  <1>2. QueueHoldsRest' /\ ClosedIsEmpty' /\ FlushesComeAfter'
    BY DEF QueueHoldsRest, ClosedIsEmpty, FlushesComeAfter
  <1>3. AnswersAreTrue'
    BY DEF AnswersAreTrue
  <1> QED
    BY <1>1, <1>2, <1>3 DEF Order

\* A new call of t: its number was never used.
LEMMA OrderBegins ==
  ASSUME IInv, NEW t \in Threads,
         UNCHANGED <<cmds, open, sent, given, answered>>,
         calls' = [calls EXCEPT ![t] = @ + 1],
         \A u \in Threads : pc'[u] = "send" => pc[u] = "send" \/ u = t,
         \A u \in Threads :
            \/ flush'[u] = flush[u]
            \/ /\ u = t
               /\ flush'[u].before = Len(given)
               /\ flush'[u].outcome = "none"
  PROVE  Order'
  <1> USE DEF IInv
  <1>1. GivenOnce'
    <2>1. ASSUME NEW i \in 1..Len(given)
          PROVE  /\ given[i][2] <= calls'[given[i][1]]
                 /\ pc'[given[i][1]] = "send" => given[i][2] < calls'[given[i][1]]
      <3>1. given[i] \in Messages
        BY DEF TypeOK
      <3>2. given[i][1] \in Threads /\ given[i][2] \in Int
        BY <3>1 DEF Messages
      <3>3. calls \in [Threads -> Int]
        BY DEF TypeOK
      <3> QED
        BY <3>2, <3>3 DEF GivenOnce
    <2> QED
      BY <2>1 DEF GivenOnce
  <1>2. SentFirst' /\ QueueHoldsRest' /\ ClosedIsEmpty'
    BY RestKept, EmptyKept
  <1>3. FlushesComeAfter'
    <2> SUFFICES ASSUME NEW k \in 1..Len(cmds), NEW u \in Threads,
                        NEW n \in 1..MaxCalls,
                        cmds[k].kind = "Flush", cmds[k].call = <<u, n>>
                 PROVE  /\ n <= calls'[u]
                        /\ n = calls'[u] =>
                             \A i \in (Len(sent) + 1)..(flush'[u].before) :
                                \E l \in 1..(k - 1) : Carries(l, i)'
      BY DEF FlushesComeAfter
    <2>1. n <= calls[u] /\ calls[u] \in Int
      BY DEF FlushesComeAfter, TypeOK
    <2>2. CASE u = t
      <3>1. calls'[u] = calls[u] + 1
        BY <2>2 DEF TypeOK
      <3> QED
        BY <3>1, <2>1
    <2>3. CASE u # t
      <3>1. calls'[u] = calls[u] /\ flush'[u] = flush[u]
        BY <2>3 DEF TypeOK
      <3>2. \A l, i : Carries(l, i)' <=> Carries(l, i)
        BY DEF Carries
      <3> QED
        BY <3>1, <3>2 DEF FlushesComeAfter
    <2> QED
      BY <2>2, <2>3
  <1>4. AnswersAreTrue'
    <2> SUFFICES ASSUME NEW u \in Threads
                 PROVE  /\ flush'[u].before <= Len(given)
                        /\ flush'[u].outcome = "Ok" => flush'[u].before <= Len(sent)
                        /\ \A n \in 1..MaxCalls :
                             <<u, n>> \in answered =>
                               /\ n <= calls'[u]
                               /\ n = calls'[u] => flush'[u].before <= Len(sent)
      BY DEF AnswersAreTrue
    <2>1. Len(given) \in Nat /\ calls[u] \in Int
      BY DEF TypeOK
    <2>2. CASE u = t
      <3>1. calls'[u] = calls[u] + 1
        BY <2>2 DEF TypeOK
      <3> QED
        BY <3>1, <2>1 DEF AnswersAreTrue
    <2>3. CASE u # t
      <3>1. calls'[u] = calls[u] /\ flush'[u] = flush[u]
        BY <2>3 DEF TypeOK
      <3> QED
        BY <3>1 DEF AnswersAreTrue
    <2> QED
      BY <2>2, <2>3
  <1> QED
    BY <1>1, <1>2, <1>3, <1>4 DEF Order

\* send_blocking returns: the message is the newest given and the last queued,
\* or the queue is closed.
LEMMA OrderGiven ==
  ASSUME IInv, NEW t \in Threads, SendDone(t)
  PROVE  Order'
  <1> DEFINE m == <<t, calls[t]>>
             c == [kind |-> "LogMsg", call |-> m]
             G == Len(given)
             N == Len(cmds)
             CarriesNext(k, i) == cmds'[k].kind = "LogMsg" /\ cmds'[k].call = given'[i]
  <1>0. /\ pc[t] = "send" /\ pc' = [pc EXCEPT ![t] = "idle"]
        /\ given' = Append(given, m)
        /\ UNCHANGED <<open, sent, calls, flush, answered>>
    BY DEF SendDone, Goto, net
  <1>1. /\ given \in Seq(Messages) /\ G \in Nat /\ Len(sent) \in Nat
        /\ cmds \in Seq(Commands) /\ N \in Nat
    BY Types
  <1>2. /\ Len(given') = G + 1 /\ given'[G + 1] = m
        /\ \A i \in 1..G : given'[i] = given[i]
    BY <1>0, <1>1
  <1>3. \A i \in 1..G : /\ given[i] # m
                        /\ given[i][1] \in Threads /\ given[i][2] \in Nat
    <2> SUFFICES ASSUME NEW i \in 1..G
                 PROVE  /\ given[i] # m
                        /\ given[i][1] \in Threads /\ given[i][2] \in Nat
      OBVIOUS
    <2>1. given[i] \in Messages
      BY <1>1
    <2>2. given[i][1] = t => given[i][2] < calls[t]
      BY <1>0 DEF IInv, GivenOnce
    <2>3. given[i][1] \in Threads /\ given[i][2] \in Nat /\ calls[t] \in Nat
      <3>1. calls[t] \in 0..MaxCalls
        BY DEF IInv, TypeOK
      <3>2. \A x \in Messages : x[1] \in Threads /\ x[2] \in Nat
        BY GrpcClientAssumption DEF Messages
      <3> QED
        BY <2>1, <3>1, <3>2, GrpcClientAssumption
    <2> QED
      BY <2>2, <2>3
  <1>4. GivenOnce'
    <2>1. \A i, j \in 1..(G + 1) : given'[i] = given'[j] => i = j
      BY <1>1, <1>2, <1>3 DEF IInv, GivenOnce
    <2>2. \A i \in 1..G : /\ given'[i][2] <= calls[given'[i][1]]
                          /\ pc'[given'[i][1]] = "send" => given'[i][2] < calls[given'[i][1]]
      BY <1>0, <1>2, <1>3 DEF IInv, GivenOnce, TypeOK
    <2>3. /\ given'[G + 1][2] <= calls[given'[G + 1][1]]
          /\ pc'[given'[G + 1][1]] # "send"
      BY <1>0, <1>2 DEF IInv, TypeOK
    <2>4. \A i \in 1..(G + 1) : i \in 1..G \/ i = G + 1
      BY <1>1
    <2> QED
      BY <1>0, <1>2, <2>1, <2>2, <2>3, <2>4 DEF GivenOnce
  <1>5. SentFirst'
    BY <1>0, <1>1, <1>2 DEF IInv, SentFirst
  <1>6. ASSUME open
        PROVE  QueueHoldsRest' /\ ClosedIsEmpty' /\ FlushesComeAfter'
    <2>1. cmds' = Append(cmds, c)
      BY <1>6 DEF SendDone, Enqueue
    <2>2. /\ Len(cmds') = N + 1 /\ cmds'[N + 1] = c
          /\ \A k \in 1..N : cmds'[k] = cmds[k]
      BY <1>1, <2>1
    <2>3. \A k \in 1..N : \A i \in 1..G : CarriesNext(k, i) <=> Carries(k, i)
      BY <1>2, <2>2 DEF Carries
    <2>4. CarriesNext(N + 1, G + 1)
      BY <1>2, <2>2 DEF Carries
    <2>5. \A i \in 1..G : ~CarriesNext(N + 1, i)
      BY <1>2, <1>3, <2>2 DEF Carries
    <2>6. \A k \in 1..N : ~CarriesNext(k, G + 1)
      <3> SUFFICES ASSUME NEW k \in 1..N, cmds[k].kind = "LogMsg"
                   PROVE  cmds[k].call # m
        BY <1>2, <2>2 DEF Carries
      <3>1. \E i \in (Len(sent) + 1)..G : cmds[k].call = given[i]
        BY <1>6 DEF IInv, QueueHoldsRest, Carries
      <3> QED
        BY <1>1, <1>3, <3>1
    <2>7. QueueHoldsRest'
      <3>1. ASSUME NEW i \in (Len(sent) + 1)..(G + 1)
            PROVE  \E k \in 1..(N + 1) : CarriesNext(k, i)
        <4>1. CASE i = G + 1
          BY <4>1, <1>1, <2>4
        <4>2. CASE i # G + 1
          <5>1. i \in (Len(sent) + 1)..G /\ i \in 1..G
            BY <4>2, <1>1
          <5>2. PICK k \in 1..N : Carries(k, i)
            BY <5>1, <1>6 DEF IInv, QueueHoldsRest
          <5> QED
            BY <5>1, <5>2, <2>3, <1>1
        <4> QED
          BY <4>1, <4>2
      <3>2. ASSUME NEW k \in 1..(N + 1), cmds'[k].kind = "LogMsg"
            PROVE  \E i \in (Len(sent) + 1)..(G + 1) : CarriesNext(k, i)
        <4>1. CASE k = N + 1
          BY <4>1, <1>1, <2>4 DEF IInv, SentFirst
        <4>2. CASE k # N + 1
          <5>1. k \in 1..N
            BY <4>2, <1>1
          <5>2. PICK i \in (Len(sent) + 1)..G : Carries(k, i)
            BY <5>1, <3>2, <2>2, <1>6 DEF IInv, QueueHoldsRest
          <5> QED
            BY <5>1, <5>2, <2>3, <1>1
        <4> QED
          BY <4>1, <4>2
      <3>3. ASSUME NEW k \in 1..(N + 1), NEW l \in 1..(N + 1),
                   NEW i \in 1..(G + 1), NEW j \in 1..(G + 1),
                   k < l, CarriesNext(k, i), CarriesNext(l, j)
            PROVE  i < j
        <4>1. k \in 1..N /\ (l \in 1..N \/ l = N + 1)
          BY <3>3, <1>1
        <4>2. i \in 1..G
          BY <3>3, <4>1, <2>6, <1>1
        <4>3. CASE l = N + 1
          BY <3>3, <4>2, <4>3, <2>5, <1>1
        <4>4. CASE l \in 1..N
          <5>1. j \in 1..G
            BY <3>3, <4>4, <2>6, <1>1
          <5> QED
            BY <3>3, <4>1, <4>2, <4>4, <5>1, <2>3, <1>6 DEF IInv, QueueHoldsRest
        <4> QED
          BY <4>1, <4>3, <4>4
      <3>4. \A k \in 1..(N + 1) : cmds'[k].kind = "LogMsg" =>
               \E i \in (Len(sent) + 1)..(G + 1) : CarriesNext(k, i)
        BY <3>2
      <3>5. \A k, l \in 1..(N + 1) : \A i, j \in 1..(G + 1) :
               k < l /\ CarriesNext(k, i) /\ CarriesNext(l, j) => i < j
        BY <3>3
      <3>6. \A i \in (Len(sent) + 1)..(G + 1) : \E k \in 1..(N + 1) : CarriesNext(k, i)
        BY <3>1
      <3>7. Len(given') = G + 1 /\ Len(cmds') = N + 1 /\ Len(sent') = Len(sent)
        BY <1>0, <1>2, <2>2
      <3> QED
        BY ONLY <3>4, <3>5, <3>6, <3>7 DEF QueueHoldsRest, Carries
    <2>8. FlushesComeAfter'
      <3> SUFFICES ASSUME NEW k \in 1..(N + 1), NEW u \in Threads,
                          NEW n \in 1..MaxCalls,
                          cmds'[k].kind = "Flush", cmds'[k].call = <<u, n>>
                   PROVE  /\ n <= calls[u]
                          /\ n = calls[u] =>
                               \A i \in (Len(sent) + 1)..flush[u].before :
                                  \E l \in 1..(k - 1) : CarriesNext(l, i)
        <4>1. Len(cmds') = N + 1 /\ UNCHANGED <<calls, sent, flush>>
          BY <1>0, <2>2
        <4> QED
          BY <4>1 DEF FlushesComeAfter, Carries
      <3>1. k \in 1..N
        BY <1>1, <2>2
      <3>2. cmds[k].kind = "Flush" /\ cmds[k].call = <<u, n>>
        BY <3>1, <2>2
      <3>3. flush[u].before \in Nat /\ flush[u].before <= G
        BY DEF IInv, AnswersAreTrue, TypeOK
      <3>4. ASSUME n = calls[u], NEW i \in (Len(sent) + 1)..flush[u].before
            PROVE  \E l \in 1..(k - 1) : CarriesNext(l, i)
        <4>1. PICK l \in 1..(k - 1) : Carries(l, i)
          BY <3>1, <3>2, <3>4 DEF IInv, FlushesComeAfter
        <4>2. l \in 1..N /\ i \in 1..G
          BY <3>1, <3>3, <1>1
        <4> QED
          BY <4>1, <4>2, <2>3
      <3>5. n <= calls[u]
        BY <3>1, <3>2 DEF IInv, FlushesComeAfter
      <3> QED
        BY <3>4, <3>5
    <2> QED
      BY <1>0, <1>6, <2>7, <2>8 DEF ClosedIsEmpty
  <1>7. ASSUME ~open
        PROVE  QueueHoldsRest' /\ ClosedIsEmpty' /\ FlushesComeAfter'
    <2>1. cmds' = cmds /\ open' = open
      BY <1>7, <1>0 DEF SendDone, Enqueue
    <2>2. QueueHoldsRest'
      BY <2>1, <1>7 DEF QueueHoldsRest
    <2>3. cmds = <<>>
      BY <1>7 DEF IInv, ClosedIsEmpty
    <2>4. FlushesComeAfter'
      BY <2>1, <2>3 DEF FlushesComeAfter
    <2> QED
      BY <2>1, <2>2, <2>3, <2>4 DEF ClosedIsEmpty
  <1>8. AnswersAreTrue'
    BY <1>0, <1>1, <1>2 DEF IInv, AnswersAreTrue, TypeOK
  <1> QED
    BY <1>4, <1>5, <1>6, <1>7, <1>8 DEF Order

\* Cmd::Flush joins the queue behind everything that was given.
LEMMA OrderFlushQueued ==
  ASSUME IInv, NEW t \in Threads, FlushQueued(t)
  PROVE  Order'
  <1> DEFINE c == [kind |-> "Flush", call |-> <<t, calls[t]>>]
             N == Len(cmds)
             CarriesNext(k, i) == cmds'[k].kind = "LogMsg" /\ cmds'[k].call = given[i]
  <1>0. /\ open /\ cmds' = Append(cmds, c)
        /\ pc' = [pc EXCEPT ![t] = "await"]
        /\ UNCHANGED <<open, sent, given, calls, flush, answered>>
    BY DEF FlushQueued, Enqueue, Goto, net
  <1>1. Len(given) \in Nat /\ Len(sent) \in Nat /\ cmds \in Seq(Commands) /\ N \in Nat
    BY Types
  <1>2. /\ Len(cmds') = N + 1 /\ cmds'[N + 1] = c
        /\ \A k \in 1..N : cmds'[k] = cmds[k]
    BY <1>0, <1>1
  <1>3. \A k \in 1..N : \A i : CarriesNext(k, i) <=> Carries(k, i)
    BY <1>2 DEF Carries
  <1>4. \A i : ~CarriesNext(N + 1, i)
    BY <1>2
  <1>5. \A k \in 1..(N + 1) : k \in 1..N \/ k = N + 1
    BY <1>1
  <1>6. GivenOnce' /\ SentFirst'
    BY <1>0 DEF IInv, GivenOnce, SentFirst, TypeOK, Messages
  <1>7. QueueHoldsRest' /\ ClosedIsEmpty'
    <2>1. \A i \in (Len(sent) + 1)..Len(given) : \E k \in 1..(N + 1) : CarriesNext(k, i)
      BY <1>0, <1>1, <1>3 DEF IInv, QueueHoldsRest
    <2>2. \A k \in 1..(N + 1) : cmds'[k].kind = "LogMsg" =>
             \E i \in (Len(sent) + 1)..Len(given) : CarriesNext(k, i)
      <3>1. ASSUME NEW k \in 1..N, cmds'[k].kind = "LogMsg"
            PROVE  \E i \in (Len(sent) + 1)..Len(given) : CarriesNext(k, i)
        BY <1>0, <1>2, <1>3, <3>1 DEF IInv, QueueHoldsRest
      <3>2. cmds'[N + 1].kind # "LogMsg"
        BY <1>2
      <3> QED
        BY <3>1, <3>2, <1>5
    <2>3. \A k, l \in 1..(N + 1) : \A i, j \in 1..Len(given) :
             k < l /\ CarriesNext(k, i) /\ CarriesNext(l, j) => i < j
      BY <1>0, <1>3, <1>4, <1>5 DEF IInv, QueueHoldsRest
    <2> QED
      BY <1>0, <1>2, <2>1, <2>2, <2>3 DEF QueueHoldsRest, ClosedIsEmpty, Carries
  <1>8. FlushesComeAfter'
    <2>a. UNCHANGED <<sent, given, calls, flush>> /\ Len(cmds') = N + 1
      BY <1>0, <1>2
    <2> SUFFICES ASSUME NEW k \in 1..(N + 1), NEW u \in Threads,
                        NEW n \in 1..MaxCalls,
                        cmds'[k].kind = "Flush", cmds'[k].call = <<u, n>>
                 PROVE  /\ n <= calls[u]
                        /\ n = calls[u] =>
                             \A i \in (Len(sent) + 1)..flush[u].before :
                                \E l \in 1..(k - 1) : CarriesNext(l, i)
      BY <2>a DEF FlushesComeAfter, Carries
    <2>1. CASE k = N + 1
      <3>1. u = t /\ n = calls[t]
        BY <2>1, <1>2
      <3>2. flush[u].before <= Len(given) /\ flush[u].before \in Nat
        BY Types DEF IInv, AnswersAreTrue
      <3>3. ASSUME NEW i \in (Len(sent) + 1)..flush[u].before
            PROVE  \E l \in 1..N : CarriesNext(l, i)
        <4>1. i \in (Len(sent) + 1)..Len(given)
          BY <1>1, <3>2
        <4> QED
          BY <4>1, <1>0, <1>3 DEF IInv, QueueHoldsRest
      <3>4. calls[u] \in Nat /\ k - 1 = N
        BY <2>1, <1>1, Types
      <3> QED
        BY <3>1, <3>3, <3>4
    <2>2. CASE k \in 1..N
      <3>1. cmds[k].kind = "Flush" /\ cmds[k].call = <<u, n>>
        BY <2>2, <1>2
      <3>2. \A l \in 1..(k - 1) : l \in 1..N
        BY <2>2, <1>1
      <3> QED
        BY <2>2, <3>1, <3>2, <1>3 DEF IInv, FlushesComeAfter
    <2> QED
      BY <1>5, <2>1, <2>2
  <1>9. AnswersAreTrue'
    BY <1>0 DEF IInv, AnswersAreTrue
  <1> QED
    BY <1>6, <1>7, <1>8, <1>9 DEF Order

\* Taking the head of the queue.
LEMMA Dequeue ==
  ASSUME IInv, cmds # <<>>, cmds' = Tail(cmds)
  PROVE  /\ Len(cmds') \in Nat /\ Len(cmds') = Len(cmds) - 1
         /\ \A k \in 1..Len(cmds') : k + 1 \in 2..Len(cmds) /\ cmds'[k] = cmds[k + 1]
         /\ \A k \in 2..Len(cmds) : k - 1 \in 1..Len(cmds') /\ cmds[k] = cmds'[k - 1]
         /\ Head(cmds) = cmds[1] /\ 1 \in 1..Len(cmds)
  <1>1. cmds \in Seq(Commands)
    BY Types
  <1> HIDE DEF IInv
  <1>2. Len(cmds) \in Nat /\ Len(cmds) # 0
    BY <1>1
  <1>3. Len(cmds') = Len(cmds) - 1 /\ \A k \in 1..Len(cmds') : cmds'[k] = cmds[k + 1]
    BY <1>1, <1>2
  <1>4. Head(cmds) = cmds[1]
    BY <1>1, <1>2
  <1>5. \A k \in 2..Len(cmds) : k - 1 \in 1..Len(cmds') /\ (k - 1) + 1 = k
    BY <1>2, <1>3
  <1>6. \A k \in 1..Len(cmds') : k + 1 \in 2..Len(cmds)
    BY <1>2, <1>3
  <1>7. \A k \in 2..Len(cmds) : cmds[k] = cmds'[k - 1]
    BY <1>3, <1>5
  <1> QED
    BY <1>2, <1>3, <1>4, <1>5, <1>6, <1>7

\* A LogMsg at the head of an open queue is the next message to be sent.
LEMMA HeadIsNext ==
  ASSUME IInv, open, NextIs("LogMsg")
  PROVE  Len(sent) + 1 <= Len(given) /\ Carries(1, Len(sent) + 1)
  <1>1. cmds # <<>> /\ 1 \in 1..Len(cmds) /\ cmds[1].kind = "LogMsg"
    BY Types DEF NextIs
  <1>2. Len(sent) \in Nat /\ Len(given) \in Nat /\ Len(cmds) \in Nat
    BY Types
  <1>3. PICK i \in (Len(sent) + 1)..Len(given) : Carries(1, i)
    BY <1>1 DEF IInv, QueueHoldsRest
  <1>4. Len(sent) + 1 \in (Len(sent) + 1)..Len(given) /\ Len(sent) + 1 \in 1..Len(given)
    BY <1>2, <1>3
  <1>5. PICK k \in 1..Len(cmds) : Carries(k, Len(sent) + 1)
    BY <1>4 DEF IInv, QueueHoldsRest
  <1>6. CASE k = 1
    BY <1>4, <1>5, <1>6
  <1>7. CASE k # 1
    <2>1. 1 < k /\ i \in 1..Len(given)
      BY <1>2, <1>3, <1>7
    <2>2. i < Len(sent) + 1
      BY <1>1, <1>3, <1>4, <1>5, <2>1 DEF IInv, QueueHoldsRest
    <2> QED
      BY <1>2, <1>3, <2>2
  <1> QED
    BY <1>6, <1>7

\* The head of the queue is yielded.
LEMMA OrderSent ==
  ASSUME IInv, StreamLogMsg
  PROVE  Order'
  <1> DEFINE S == Len(sent)
             N == Len(cmds)
             CarriesNext(k, i) == cmds'[k].kind = "LogMsg" /\ cmds'[k].call = given[i]
  <1>0. /\ open /\ NextIs("LogMsg") /\ cmds # <<>> /\ cmds' = Tail(cmds)
        /\ sent' = Append(sent, Head(cmds).call)
        /\ UNCHANGED <<open, given, calls, pc, flush, answered>>
    BY DEF StreamLogMsg, Resumed, NextIs, client
  <1>1. S \in Nat /\ Len(given) \in Nat /\ N \in Nat /\ sent \in Seq(Messages)
    BY Types
  <1>2. S + 1 <= Len(given) /\ Carries(1, S + 1)
    BY <1>0, HeadIsNext
  <1>3. /\ Len(cmds') \in Nat /\ Len(cmds') = N - 1
        /\ \A k \in 1..Len(cmds') : k + 1 \in 2..N /\ cmds'[k] = cmds[k + 1]
        /\ \A k \in 2..N : k - 1 \in 1..Len(cmds') /\ cmds[k] = cmds'[k - 1]
        /\ Head(cmds) = cmds[1] /\ 1 \in 1..N
    BY <1>0, Dequeue
  <1>4. /\ Len(sent') = S + 1 /\ sent'[S + 1] = given[S + 1]
        /\ \A i \in 1..S : sent'[i] = sent[i]
    <2>1. Head(cmds).call = given[S + 1]
      BY <1>2, <1>3 DEF Carries
    <2> QED
      BY <1>0, <1>1, <2>1
  <1>5. \A k \in 1..Len(cmds') : \A i : CarriesNext(k, i) <=> Carries(k + 1, i)
    BY <1>3 DEF Carries
  <1>6. \A k \in 2..N : \A i : CarriesNext(k - 1, i) <=> Carries(k, i)
    BY <1>3 DEF Carries
  <1>7. \A i \in 1..Len(given) : Carries(1, i) => i = S + 1
    <2>1. S + 1 \in 1..Len(given)
      BY <1>1, <1>2
    <2>2. \A i : Carries(1, i) => given[i] = given[S + 1]
      BY <1>2 DEF Carries
    <2> QED
      BY <2>1, <2>2 DEF IInv, GivenOnce
  <1>8. \A k \in 1..N : k = 1 \/ k \in 2..N
    BY <1>1
  <1>9. GivenOnce' /\ SentFirst'
    <2>1. GivenOnce'
      BY <1>0 DEF IInv, GivenOnce
    <2>2. \A i \in 1..(S + 1) : i \in 1..S \/ i = S + 1
      BY <1>1
    <2>3. SentFirst'
      BY <1>0, <1>2, <1>4, <2>2 DEF IInv, SentFirst
    <2> QED
      BY <2>1, <2>3
  <1>10. QueueHoldsRest' /\ ClosedIsEmpty'
    <2>1. ASSUME NEW i \in (S + 2)..Len(given)
          PROVE  \E k \in 1..Len(cmds') : CarriesNext(k, i)
      <3>1. i \in (S + 1)..Len(given) /\ i \in 1..Len(given) /\ i # S + 1
        BY <1>1
      <3>2. PICK k \in 1..N : Carries(k, i)
        BY <3>1, <1>0 DEF IInv, QueueHoldsRest
      <3>3. k \in 2..N
        BY <3>1, <3>2, <1>7, <1>8
      <3> QED
        BY <3>2, <3>3, <1>3, <1>6
    <2>2. ASSUME NEW k \in 1..Len(cmds'), cmds'[k].kind = "LogMsg"
          PROVE  \E i \in (S + 2)..Len(given) : CarriesNext(k, i)
      <3>1. k + 1 \in 1..N /\ 1 < k + 1 /\ cmds[k + 1].kind = "LogMsg"
        BY <1>1, <1>3, <2>2
      <3>2. PICK i \in (S + 1)..Len(given) : Carries(k + 1, i)
        BY <3>1, <1>0 DEF IInv, QueueHoldsRest
      <3>3. i \in 1..Len(given) /\ S + 1 \in 1..Len(given)
        BY <1>1, <1>2
      <3>4. S + 1 < i
        BY <3>1, <3>2, <3>3, <1>0, <1>2, <1>3 DEF IInv, QueueHoldsRest
      <3>5. i \in (S + 2)..Len(given)
        BY <3>3, <3>4, <1>1
      <3> QED
        BY <3>2, <3>5, <1>5
    <2>3. ASSUME NEW k \in 1..Len(cmds'), NEW l \in 1..Len(cmds'),
                 NEW i \in 1..Len(given), NEW j \in 1..Len(given),
                 k < l, CarriesNext(k, i), CarriesNext(l, j)
          PROVE  i < j
      <3>1. k + 1 \in 1..N /\ l + 1 \in 1..N /\ k + 1 < l + 1
        BY <1>1, <1>3, <2>3
      <3>2. Carries(k + 1, i) /\ Carries(l + 1, j)
        BY <1>5, <2>3
      <3> QED
        BY <3>1, <3>2, <1>0 DEF IInv, QueueHoldsRest
    <2>4. Len(sent') + 1 = S + 2
      BY <1>1, <1>4
    <2>5. \A k \in 1..Len(cmds') : cmds'[k].kind = "LogMsg" =>
             \E i \in (S + 2)..Len(given) : CarriesNext(k, i)
      BY <2>2
    <2>6. \A k, l \in 1..Len(cmds') : \A i, j \in 1..Len(given) :
             k < l /\ CarriesNext(k, i) /\ CarriesNext(l, j) => i < j
      BY <2>3
    <2> QED
      BY <1>0, <2>1, <2>4, <2>5, <2>6 DEF QueueHoldsRest, ClosedIsEmpty, Carries
  <1>11. FlushesComeAfter'
    <2> SUFFICES ASSUME NEW k \in 1..Len(cmds'), NEW u \in Threads,
                        NEW n \in 1..MaxCalls,
                        cmds'[k].kind = "Flush", cmds'[k].call = <<u, n>>
                 PROVE  /\ n <= calls[u]
                        /\ n = calls[u] =>
                             \A i \in (S + 2)..flush[u].before :
                                \E l \in 1..(k - 1) : CarriesNext(l, i)
      <3>1. Len(sent') + 1 = S + 2
        BY <1>1, <1>4
      <3>2. UNCHANGED <<given, calls, flush>>
        BY <1>0
      <3> HIDE DEF S
      <3> QED
        BY <3>1, <3>2 DEF FlushesComeAfter, Carries
    <2>1. k + 1 \in 1..N /\ cmds[k + 1].kind = "Flush" /\ cmds[k + 1].call = <<u, n>>
      BY <1>1, <1>3
    <2>2. n <= calls[u]
      BY <2>1 DEF IInv, FlushesComeAfter
    <2>3. ASSUME n = calls[u], NEW i \in (S + 2)..flush[u].before
          PROVE  \E l \in 1..(k - 1) : CarriesNext(l, i)
      <3>1. flush[u].before \in Nat /\ flush[u].before <= Len(given)
        BY Types DEF IInv, AnswersAreTrue
      <3>2. i \in (S + 1)..flush[u].before /\ i \in 1..Len(given) /\ i # S + 1
        BY <3>1, <1>1
      <3>3. PICK l \in 1..((k + 1) - 1) : Carries(l, i)
        BY <2>1, <2>3, <3>2 DEF IInv, FlushesComeAfter
      <3>4. l # 1
        BY <3>2, <3>3, <1>7
      <3>5. l \in 2..N /\ l - 1 \in 1..(k - 1)
        BY <3>4, <2>1, <1>1, <1>3
      <3> QED
        BY <3>3, <3>5, <1>6
    <2> QED
      BY <2>2, <2>3
  <1>12. AnswersAreTrue'
    <2>1. \A t \in Threads : flush[t].before \in Nat
      BY Types
    <2> QED
      BY <1>0, <1>1, <1>4, <2>1 DEF IInv, AnswersAreTrue
  <1> QED
    BY <1>9, <1>10, <1>11, <1>12 DEF Order

\* The flush at the head of the queue is answered: nothing it waited for can be
\* ahead of it.
LEMMA OrderAnswered ==
  ASSUME IInv, StreamFlush
  PROVE  Order'
  <1> DEFINE S == Len(sent)
             N == Len(cmds)
             CarriesNext(k, i) == cmds'[k].kind = "LogMsg" /\ cmds'[k].call = given[i]
  <1>0. /\ open /\ cmds # <<>> /\ cmds' = Tail(cmds) /\ Head(cmds).kind = "Flush"
        /\ Listening(Head(cmds).call)
        /\ answered' = answered \union {Head(cmds).call}
        /\ UNCHANGED <<open, sent, given, calls, pc, flush>>
    BY DEF StreamFlush, Resumed, NextIs, client, net
  <1>1. S \in Nat /\ Len(given) \in Nat /\ N \in Nat /\ cmds \in Seq(Commands)
    BY Types
  <1>2. /\ Len(cmds') \in Nat /\ Len(cmds') = N - 1
        /\ \A k \in 1..Len(cmds') : k + 1 \in 2..N /\ cmds'[k] = cmds[k + 1]
        /\ \A k \in 2..N : k - 1 \in 1..Len(cmds') /\ cmds[k] = cmds'[k - 1]
        /\ Head(cmds) = cmds[1] /\ 1 \in 1..N
    BY <1>0, Dequeue
  <1>3. \A k \in 1..Len(cmds') : \A i : CarriesNext(k, i) <=> Carries(k + 1, i)
    BY <1>2 DEF Carries
  <1>4. \A k \in 2..N : \A i : CarriesNext(k - 1, i) <=> Carries(k, i)
    BY <1>2 DEF Carries
  <1>5. \A i : ~Carries(1, i)
    BY <1>0, <1>2 DEF Carries
  <1>6. \A k \in 1..N : k = 1 \/ k \in 2..N
    BY <1>1
  <1>7. GivenOnce' /\ SentFirst'
    <2>1. GivenOnce'
      BY <1>0 DEF IInv, GivenOnce
    <2>2. SentFirst'
      BY <1>0 DEF IInv, SentFirst
    <2> QED
      BY <2>1, <2>2
  <1>8. QueueHoldsRest' /\ ClosedIsEmpty'
    <2>1. \A i \in (S + 1)..Len(given) : \E k \in 1..Len(cmds') : CarriesNext(k, i)
      <3> SUFFICES ASSUME NEW i \in (S + 1)..Len(given)
                   PROVE  \E k \in 1..Len(cmds') : CarriesNext(k, i)
        OBVIOUS
      <3>1. PICK k \in 1..N : Carries(k, i)
        BY <1>0 DEF IInv, QueueHoldsRest
      <3>2. k \in 2..N
        BY <3>1, <1>5, <1>6
      <3> QED
        BY <3>1, <3>2, <1>2, <1>4
    <2>2. \A k \in 1..Len(cmds') : cmds'[k].kind = "LogMsg" =>
             \E i \in (S + 1)..Len(given) : CarriesNext(k, i)
      <3> SUFFICES ASSUME NEW k \in 1..Len(cmds'), cmds'[k].kind = "LogMsg"
                   PROVE  \E i \in (S + 1)..Len(given) : CarriesNext(k, i)
        OBVIOUS
      <3>1. k + 1 \in 1..N /\ cmds[k + 1].kind = "LogMsg"
        BY <1>1, <1>2
      <3>2. PICK i \in (S + 1)..Len(given) : Carries(k + 1, i)
        BY <3>1, <1>0 DEF IInv, QueueHoldsRest
      <3> QED
        BY <3>2, <1>3
    <2>3. ASSUME NEW k \in 1..Len(cmds'), NEW l \in 1..Len(cmds'),
                 NEW i \in 1..Len(given), NEW j \in 1..Len(given),
                 k < l, CarriesNext(k, i), CarriesNext(l, j)
          PROVE  i < j
      <3>1. k + 1 \in 1..N /\ l + 1 \in 1..N /\ k + 1 < l + 1
        BY <1>1, <1>2, <2>3
      <3>2. Carries(k + 1, i) /\ Carries(l + 1, j)
        BY <1>3, <2>3
      <3> QED
        BY <3>1, <3>2, <1>0 DEF IInv, QueueHoldsRest
    <2>4. \A k, l \in 1..Len(cmds') : \A i, j \in 1..Len(given) :
             k < l /\ CarriesNext(k, i) /\ CarriesNext(l, j) => i < j
      BY <2>3
    <2> QED
      BY <1>0, <2>1, <2>2, <2>4 DEF QueueHoldsRest, ClosedIsEmpty, Carries
  <1>9. FlushesComeAfter'
    <2>a. UNCHANGED <<sent, given, calls, flush>>
      BY <1>0
    <2> SUFFICES ASSUME NEW k \in 1..Len(cmds'), NEW u \in Threads,
                        NEW n \in 1..MaxCalls,
                        cmds'[k].kind = "Flush", cmds'[k].call = <<u, n>>
                 PROVE  /\ n <= calls[u]
                        /\ n = calls[u] =>
                             \A i \in (S + 1)..flush[u].before :
                                \E l \in 1..(k - 1) : CarriesNext(l, i)
      BY <2>a DEF FlushesComeAfter, Carries
    <2>1. k + 1 \in 1..N /\ cmds[k + 1].kind = "Flush" /\ cmds[k + 1].call = <<u, n>>
      BY <1>1, <1>2
    <2>2. n <= calls[u]
      BY <2>1 DEF IInv, FlushesComeAfter
    <2>3. ASSUME n = calls[u], NEW i \in (S + 1)..flush[u].before
          PROVE  \E l \in 1..(k - 1) : CarriesNext(l, i)
      <3>1. PICK l \in 1..((k + 1) - 1) : Carries(l, i)
        BY <2>1, <2>3 DEF IInv, FlushesComeAfter
      <3>2. l # 1
        BY <3>1, <1>5
      <3>3. k \in Nat /\ l \in Nat /\ 1 <= l /\ l <= k /\ k + 1 <= N
        BY <2>1, <1>1
      <3>4. l \in 2..N /\ l - 1 \in 1..(k - 1)
        BY <3>2, <3>3, <1>1
      <3> QED
        BY <3>1, <3>4, <1>4
    <2> QED
      BY <2>2, <2>3
  <1>10. AnswersAreTrue'
    <2>1. cmds[1] \in Commands
      BY <1>1, <1>2
    <2>2. PICK t \in Threads, n \in 1..MaxCalls : cmds[1].call = <<t, n>>
      BY <2>1 DEF Commands, Messages
    <2>3. calls[t] = n /\ cmds[1].kind = "Flush"
      BY <2>2, <1>0, <1>2 DEF Listening
    <2>4. \A i \in (S + 1)..flush[t].before : \E l \in 1..(1 - 1) : Carries(l, i)
      BY <2>2, <2>3, <1>2 DEF IInv, FlushesComeAfter
    <2>5. flush[t].before \in Nat
      BY Types
    <2>6. flush[t].before <= S
      <3>1. SUFFICES ASSUME ~(flush[t].before <= S) PROVE FALSE
        OBVIOUS
      <3>2. S + 1 \in (S + 1)..flush[t].before
        BY <3>1, <2>5, <1>1
      <3> QED
        BY <3>2, <2>4
    <2>7. answered' = answered \union {<<t, n>>}
      BY <2>2, <1>0, <1>2
    <2>8. \A u \in Threads : \A m \in 1..MaxCalls :
             <<u, m>> \in answered' => <<u, m>> \in answered \/ (u = t /\ m = n)
      BY <2>7
    <2> QED
      BY <1>0, <2>3, <2>6, <2>8 DEF IInv, AnswersAreTrue
  <1> QED
    BY <1>7, <1>8, <1>9, <1>10 DEF Order

-----------------------------------------------------------------------------

LEMMA NextTypeOK ==
  ASSUME IInv, Next
  PROVE  TypeOK'
  <1> USE DEF conn, queue, net, client, Disconnected
  <1>0. TypeOK
    BY DEF IInv
  <1>1. CASE ParseEndpoint
    BY <1>0, <1>1 DEF TypeOK, ParseEndpoint
  <1>2. CASE Connect
    BY <1>0, <1>2 DEF TypeOK, Connect
  <1>3. CASE ShutdownWhileConnecting
    BY <1>0, <1>3 DEF TypeOK, ShutdownWhileConnecting
  <1>4. ASSUME NEW why \in {"encode", "flush", "shutdown"}, Break(why),
               status' \in {status, "Disconnected(Err)"}
        PROVE  TypeOK'
    <2>1. cmds' \in Seq(Commands) /\ Len(cmds') <= QueueCap
      BY <1>4, GrpcClientAssumption DEF Break, CloseQueues
    <2> QED
      BY <1>0, <1>4, <2>1 DEF TypeOK, Break, CloseQueues
  <1>5. CASE StreamLogMsg
    <2>1. cmds # <<>> /\ cmds \in Seq(Commands) /\ cmds' = Tail(cmds)
          /\ Head(cmds) \in Commands
      BY <1>5, Types DEF StreamLogMsg, NextIs
    <2>2. cmds' \in Seq(Commands) /\ Len(cmds') <= QueueCap
      BY <1>0, <2>1, Dequeue, GrpcClientAssumption DEF TypeOK
    <2>3. sent' = Append(sent, Head(cmds).call) /\ Head(cmds).call \in Messages
      BY <1>5, <2>1 DEF StreamLogMsg, Commands
    <2>4. sent' \in Seq(Messages) /\ received' \in 0..Len(sent')
      BY <1>0, <1>5, <2>3, Types DEF TypeOK, StreamLogMsg
    <2> QED
      BY <1>0, <1>5, <2>2, <2>4 DEF TypeOK, StreamLogMsg
  <1>6. CASE StreamFlush
    <2>1. cmds # <<>> /\ cmds \in Seq(Commands) /\ cmds' = Tail(cmds)
          /\ Head(cmds) \in Commands
      BY <1>6, Types DEF StreamFlush, NextIs
    <2>2. cmds' \in Seq(Commands) /\ Len(cmds') <= QueueCap
      BY <1>0, <2>1, Dequeue, GrpcClientAssumption DEF TypeOK
    <2>3. answered' \subseteq Messages
      BY <1>0, <1>6, <2>1 DEF TypeOK, StreamFlush, Commands
    <2> QED
      BY <1>0, <1>6, <2>2, <2>3 DEF TypeOK, StreamFlush
  <1>7. CASE StreamEncodeFails
    BY <1>4, <1>7 DEF StreamEncodeFails
  <1>8. CASE StreamStaleFlush
    BY <1>4, <1>8 DEF StreamStaleFlush
  <1>9. CASE StreamShutdown
    BY <1>4, <1>9 DEF StreamShutdown
  <1>10. CASE Deliver
    BY <1>0, <1>10, Types DEF TypeOK, Deliver
  <1>11. CASE CallSucceeds
    BY <1>0, <1>11 DEF TypeOK, CallSucceeds
  <1>12. CASE CallSevered
    BY <1>0, <1>12 DEF TypeOK, CallSevered
  <1>13. CASE DropStream
    <2>1. cmds' \in Seq(Commands) /\ Len(cmds') <= QueueCap
      BY <1>13, GrpcClientAssumption DEF DropStream, CloseQueues
    <2> QED
      BY <1>0, <1>13, <2>1 DEF TypeOK, DropStream, CloseQueues
  <1>14. CASE StoreStatus
    BY <1>0, <1>14 DEF TypeOK, StoreStatus
  <1>15. CASE Exit
    <2>1. cmds' \in Seq(Commands) /\ Len(cmds') <= QueueCap
      BY <1>15, GrpcClientAssumption DEF Exit, CloseQueues
    <2> QED
      BY <1>0, <1>15, <2>1 DEF TypeOK, Exit, CloseQueues
  <1>16. CASE ConnectTimeoutPasses
    BY <1>0, <1>16 DEF TypeOK, ConnectTimeoutPasses
  <1>17. CASE DropShutdown
    BY <1>0, <1>17 DEF TypeOK, DropShutdown
  <1>18. CASE DropJoin
    BY <1>0, <1>18 DEF TypeOK, DropJoin
  <1>19. ASSUME NEW t \in Threads,
                calls' = [calls EXCEPT ![t] = @ + 1], calls[t] < MaxCalls
         PROVE  calls' \in [Threads -> 0..MaxCalls]
    BY <1>0, <1>19, GrpcClientAssumption DEF TypeOK
  <1>20. ASSUME NEW t \in Threads, SendBlocking(t)
         PROVE  TypeOK'
    <2>1. calls' \in [Threads -> 0..MaxCalls]
      BY <1>19, <1>20 DEF SendBlocking, Begin
    <2> QED
      BY <1>0, <1>20, <2>1 DEF TypeOK, SendBlocking, Begin, Goto
  <1>21. ASSUME NEW t \in Threads, pc[t] \in {"send", "flush"}
         PROVE  <<t, calls[t]>> \in Messages
    <2>1. calls[t] \in 1..MaxCalls
      BY <1>0, <1>21 DEF TypeOK, IInv, CallsCounted
    <2> QED
      BY <2>1 DEF Messages
  <1>22. ASSUME NEW t \in Threads, SendDone(t)
         PROVE  TypeOK'
    <2>1. <<t, calls[t]>> \in Messages
      BY <1>21, <1>22 DEF SendDone
    <2>2. given' \in Seq(Messages)
      BY <1>22, <2>1, Types DEF SendDone
    <2>3. cmds' \in Seq(Commands) /\ Len(cmds') <= QueueCap
      <3>1. CASE Enqueue(t, "LogMsg")
        BY <3>1, <2>1, Types, GrpcClientAssumption DEF Enqueue, Commands
      <3>2. CASE cmds' = cmds
        BY <1>0, <3>2 DEF TypeOK
      <3> QED
        BY <1>22, <3>1, <3>2 DEF SendDone
    <2> QED
      BY <1>0, <1>22, <2>2, <2>3 DEF TypeOK, SendDone, Goto
  <1>23. ASSUME NEW t \in Threads, NEW limit \in {"bounded", "forever"},
                StartFlush(t, limit), drop' \in {drop, "flush"}
         PROVE  TypeOK'
    <2>1. calls' \in [Threads -> 0..MaxCalls]
      BY <1>19, <1>23 DEF StartFlush, Begin
    <2>2. flush' \in [Threads -> [limit : {"bounded", "forever"},
                                  outcome : Outcomes, before : Nat]]
      BY <1>0, <1>23, Types DEF TypeOK, StartFlush, Outcomes
    <2> QED
      BY <1>0, <1>23, <2>1, <2>2 DEF TypeOK, StartFlush, Begin, Goto
  <1>24. ASSUME NEW t \in Threads, FlushQueued(t)
         PROVE  TypeOK'
    <2>1. <<t, calls[t]>> \in Messages
      BY <1>21, <1>24 DEF FlushQueued
    <2>2. cmds' \in Seq(Commands) /\ Len(cmds') <= QueueCap
      BY <1>0, <1>24, <2>1, Types, GrpcClientAssumption
      DEF TypeOK, FlushQueued, Enqueue, Commands
    <2> QED
      BY <1>0, <1>24, <2>2 DEF TypeOK, FlushQueued, Goto
  <1>25. ASSUME NEW t \in Threads, NEW from,
                NEW to \in {"await", "poll", "report"}, Step(t, from, to)
         PROVE  TypeOK'
    BY <1>0, <1>25 DEF TypeOK, Step, Goto
  <1>26. ASSUME NEW t \in Threads, NEW from, NEW outcome \in Outcomes,
                Return(t, from, outcome)
         PROVE  TypeOK'
    <2>1. flush' \in [Threads -> [limit : {"bounded", "forever"},
                                  outcome : Outcomes, before : Nat]]
      BY <1>0, <1>26 DEF TypeOK, Return
    <2> QED
      BY <1>0, <1>26, <2>1 DEF TypeOK, Return, Goto
  <1>27. FromStatus \in Outcomes
    BY <1>0 DEF TypeOK, FromStatus, Outcomes
  <1>28. ASSUME NEW t \in Threads, Flushing(t)
         PROVE  TypeOK'
    <2>1. "Ok" \in Outcomes /\ "Timeout" \in Outcomes
      BY DEF Outcomes
    <2> QED
      BY <1>24, <1>25, <1>26, <1>27, <1>28, <2>1
      DEF Flushing, FlushRefused, FlushOk, FlushDisconnected, FlushWakes, Report,
          FlushTimesOut, FlushFails, FlushGoesOn
  <1> QED
    BY <1>1, <1>2, <1>3, <1>5, <1>6, <1>7, <1>8, <1>9, <1>10, <1>11, <1>12, <1>13,
       <1>14, <1>15, <1>16, <1>17, <1>18, <1>20, <1>22, <1>23, <1>28
    DEF Next, Stream, DropClient, FlushBlocking

LEMMA NextCallsCounted ==
  ASSUME IInv, Next
  PROVE  CallsCounted'
  <1> USE DEF IInv, CallsCounted
  <1>1. CASE UNCHANGED <<pc, calls>>
    BY <1>1
  <1>2. ASSUME NEW t \in Threads, NEW where, pc[t] # "idle", Goto(t, where), UNCHANGED calls
        PROVE  CallsCounted'
    BY <1>2 DEF Goto, TypeOK
  <1>3. ASSUME NEW t \in Threads, NEW where, Begin(t, where)
        PROVE  CallsCounted'
    <2>1. \A u \in Threads : calls[u] \in Nat
      BY DEF TypeOK
    <2> QED
      BY <1>3, <2>1 DEF Begin, Goto, TypeOK
  <1>4. ASSUME NEW t \in Threads, SendDone(t)
        PROVE  CallsCounted'
    BY <1>2, <1>4 DEF SendDone
  <1>5. ASSUME NEW t \in Threads, Flushing(t)
        PROVE  CallsCounted'
    BY <1>2, <1>5
    DEF Flushing, FlushRefused, FlushOk, FlushDisconnected, FlushWakes, Report,
        FlushTimesOut, FlushFails, FlushGoesOn, FlushQueued, Step, Return
  <1>6. ASSUME NEW t \in Threads,
               \/ SendBlocking(t) \/ DropClient(t)
               \/ \E limit \in {"bounded", "forever"} : FlushBlocking(t, limit)
        PROVE  CallsCounted'
    BY <1>3, <1>6 DEF SendBlocking, DropClient, FlushBlocking, StartFlush
  <1>7. CASE \/ ParseEndpoint \/ Connect \/ ShutdownWhileConnecting \/ Stream
             \/ Deliver \/ CallSucceeds \/ CallSevered \/ DropStream \/ StoreStatus
             \/ Exit \/ ConnectTimeoutPasses \/ DropShutdown \/ DropJoin
    <2>1. UNCHANGED <<pc, calls>>
      BY <1>7
      DEF ParseEndpoint, Connect, ShutdownWhileConnecting, Stream, StreamLogMsg,
          StreamEncodeFails, StreamFlush, StreamStaleFlush, StreamShutdown, Break,
          Deliver, CallSucceeds, CallSevered, DropStream, StoreStatus, Exit,
          ConnectTimeoutPasses, DropShutdown, DropJoin, client
    <2> QED
      BY <1>1, <2>1
  <1> QED
    BY <1>4, <1>5, <1>6, <1>7 DEF Next

LEMMA NextOrder ==
  ASSUME IInv, Next
  PROVE  Order'
  <1>1. CASE \/ ParseEndpoint \/ Connect \/ ShutdownWhileConnecting
             \/ Deliver \/ CallSucceeds \/ CallSevered \/ StoreStatus
             \/ ConnectTimeoutPasses \/ DropShutdown \/ DropJoin
    <2>1. UNCHANGED <<cmds, open, sent, given, calls, answered, pc, flush>>
      BY <1>1
      DEF ParseEndpoint, Connect, ShutdownWhileConnecting, Deliver, CallSucceeds,
          CallSevered, StoreStatus, ConnectTimeoutPasses, DropShutdown, DropJoin,
          client, net, queue
    <2> QED
      BY <2>1, OrderKept
  <1>2. CASE \/ StreamEncodeFails \/ StreamStaleFlush \/ StreamShutdown
             \/ DropStream \/ Exit
    BY <1>2, OrderClosed
    DEF StreamEncodeFails, StreamStaleFlush, StreamShutdown, DropStream, Exit, Break,
        client, net
  <1>3. CASE StreamLogMsg \/ StreamFlush
    BY <1>3, OrderSent, OrderAnswered
  <1>4. ASSUME NEW t \in Threads, SendBlocking(t)
        PROVE  Order'
    <2>1. /\ calls' = [calls EXCEPT ![t] = @ + 1] /\ pc' = [pc EXCEPT ![t] = "send"]
          /\ UNCHANGED <<cmds, open, sent, given, answered, flush>>
      BY <1>4 DEF SendBlocking, Begin, Goto, queue, net
    <2>2. \A u \in Threads : pc'[u] = "send" => pc[u] = "send" \/ u = t
      BY <2>1 DEF IInv, TypeOK
    <2> QED
      BY <2>1, <2>2, OrderBegins
  <1>5. ASSUME NEW t \in Threads, NEW limit, StartFlush(t, limit)
        PROVE  Order'
    <2>1. /\ calls' = [calls EXCEPT ![t] = @ + 1] /\ pc' = [pc EXCEPT ![t] = "flush"]
          /\ UNCHANGED <<cmds, open, sent, given, answered>>
          /\ flush' = [flush EXCEPT ![t] = [limit |-> limit, outcome |-> "none",
                                            before |-> Len(given)]]
      BY <1>5 DEF StartFlush, Begin, Goto, queue, net
    <2>2. \A u \in Threads : pc'[u] = "send" => pc[u] = "send" \/ u = t
      BY <2>1 DEF IInv, TypeOK
    <2>3. \A u \in Threads :
            \/ flush'[u] = flush[u]
            \/ u = t /\ flush'[u].before = Len(given) /\ flush'[u].outcome = "none"
      BY <2>1 DEF IInv, TypeOK
    <2> QED
      BY <2>1, <2>2, <2>3, OrderBegins
  <1>6. ASSUME NEW t \in Threads, NEW from, NEW to \in {"await", "poll", "report"},
               Step(t, from, to)
        PROVE  Order'
    <2>1. /\ UNCHANGED <<cmds, open, sent, given, calls, answered, flush>>
          /\ pc' = [pc EXCEPT ![t] = to]
      BY <1>6 DEF Step, Goto, queue, net
    <2>2. \A u \in Threads : pc'[u] = "send" => pc[u] = "send"
      BY <2>1 DEF IInv, TypeOK
    <2> QED
      BY <2>1, <2>2, OrderKept
  <1>7. ASSUME NEW t \in Threads, NEW from, NEW outcome, Return(t, from, outcome),
               outcome = "Ok" => Answered(t)
        PROVE  Order'
    <2>1. /\ UNCHANGED <<cmds, open, sent, given, calls, answered>>
          /\ pc' = [pc EXCEPT ![t] = "idle"]
          /\ flush' = [flush EXCEPT ![t].outcome = outcome]
      BY <1>7 DEF Return, Goto, queue, net
    <2>2. \A u \in Threads :
            /\ pc'[u] = "send" => pc[u] = "send"
            /\ flush'[u].before = flush[u].before
            /\ flush'[u].outcome = "Ok" => flush[u].outcome = "Ok" \/ Answered(u)
      BY <1>7, <2>1 DEF IInv, TypeOK
    <2> QED
      BY <2>1, <2>2, OrderKept
  <1>8. FromStatus # "Ok"
    BY DEF FromStatus, IInv, TypeOK, Disconnected
  <1>9. ASSUME NEW t \in Threads, Flushing(t)
        PROVE  Order'
    BY <1>6, <1>7, <1>8, <1>9, OrderFlushQueued
    DEF Flushing, FlushRefused, FlushOk, FlushDisconnected, FlushWakes, Report,
        FlushTimesOut, FlushFails, FlushGoesOn
  <1> QED
    BY <1>1, <1>2, <1>3, <1>4, <1>5, <1>9, OrderGiven
    DEF Next, Stream, DropClient, FlushBlocking

LEMMA NextStatus ==
  ASSUME IInv, Next
  PROVE  StatusFollowsWorker'
  <1> USE DEF IInv, StatusFollowsWorker, conn, net
  <1>1. CASE ParseEndpoint
    BY <1>1 DEF ParseEndpoint
  <1>2. CASE Connect
    BY <1>2 DEF Connect
  <1>3. CASE ShutdownWhileConnecting
    <2>1. sent = <<>> /\ received = 0
      BY <1>3 DEF ShutdownWhileConnecting, TypeOK
    <2> QED
      BY <1>3, <2>1 DEF ShutdownWhileConnecting
  <1>4. CASE Stream
    BY <1>4 DEF Stream, StreamLogMsg, StreamEncodeFails, StreamFlush, StreamStaleFlush,
                StreamShutdown, Break, Resumed
  <1>5. CASE Deliver
    BY <1>5 DEF Deliver
  <1>6. CASE CallSucceeds
    BY <1>6 DEF CallSucceeds
  <1>7. CASE CallSevered
    BY <1>7 DEF CallSevered
  <1>8. CASE StoreStatus
    BY <1>8 DEF StoreStatus, Disconnected
  <1>9. CASE Exit
    BY <1>9 DEF Exit
  <1>10. CASE DropStream \/ ConnectTimeoutPasses \/ DropShutdown \/ DropJoin
    BY <1>10 DEF DropStream, ConnectTimeoutPasses, DropShutdown, DropJoin
  <1>11. ASSUME NEW t \in Threads,
                \/ SendBlocking(t) \/ SendDone(t) \/ DropClient(t) \/ Flushing(t)
                \/ \E limit \in {"bounded", "forever"} : FlushBlocking(t, limit)
         PROVE  StatusFollowsWorker'
    <2>1. UNCHANGED <<worker, status, result, sent, received>>
      BY <1>11
      DEF SendBlocking, SendDone, DropClient, FlushBlocking, StartFlush, Begin,
          Flushing, FlushRefused, FlushOk, FlushDisconnected, FlushWakes, Report,
          FlushTimesOut, FlushFails, FlushGoesOn, FlushQueued, Step, Return
    <2> QED
      BY <2>1
  <1> QED
    BY <1>1, <1>2, <1>3, <1>4, <1>5, <1>6, <1>7, <1>8, <1>9, <1>10, <1>11 DEF Next

LEMMA NextIInv == IInv /\ [Next]_vars => IInv'
  <1>1. ASSUME IInv, Next PROVE IInv'
    BY <1>1, NextTypeOK, NextCallsCounted, NextOrder, NextStatus DEF IInv, Order
  <1>2. ASSUME IInv, UNCHANGED vars PROVE IInv'
    <2>1. TypeOK' /\ CallsCounted' /\ StatusFollowsWorker'
      BY <1>2 DEF IInv, vars, conn, queue, net, client, TypeOK, CallsCounted,
                  StatusFollowsWorker
    <2>2. Order'
      BY <1>2, OrderKept DEF vars, queue, net, client
    <2> QED
      BY <2>1, <2>2 DEF IInv, Order
  <1> QED
    BY <1>1, <1>2

-----------------------------------------------------------------------------

\* The inductive invariant holds in every reachable state.
THEOREM ClientInvariant == Spec => []IInv
  BY InitIInv, NextIInv, PTL DEF Spec

\* A flush that returned Ok finds every message that was given before it in the
\* stream, whichever thread gave it and however many flushes timed out before.
THEOREM ClientFlushedMeansSent == Spec => []FlushedMeansSent
  <1>1. IInv => FlushedMeansSent
    <2> SUFFICES ASSUME IInv, NEW t \in Threads, flush[t].outcome = "Ok",
                        NEW i \in 1..flush[t].before
                 PROVE  given[i] \in ToSet(sent)
      BY DEF FlushedMeansSent
    <2>1. flush[t].before <= Len(sent) /\ flush[t].before \in Nat /\ Len(sent) \in Nat
      BY Types DEF IInv, AnswersAreTrue
    <2>2. i \in 1..Len(sent)
      BY <2>1
    <2>3. sent[i] = given[i]
      BY <2>2 DEF IInv, SentFirst
    <2> QED
      BY <2>2, <2>3 DEF ToSet
  <1> QED
    BY <1>1, ClientInvariant, PTL

\* The stream carries a prefix of the given messages: no gap, no repeat, no
\* reordering, although the queue may be closed while threads are sending.
THEOREM ClientNoGaps == Spec => []NoGaps
  <1>1. IInv => NoGaps
    <2> SUFFICES ASSUME IInv PROVE IsPrefix(sent, given)
      BY DEF NoGaps
    <2>1. /\ sent \in Seq(Messages) /\ given \in Seq(Messages)
          /\ Len(sent) <= Len(given) /\ \A i \in 1..Len(sent) : sent[i] = given[i]
      BY Types DEF IInv, SentFirst
    <2>2. SubSeq(sent, 1, Len(sent)) = SubSeq(given, 1, Len(sent))
      BY <2>1
    <2> QED
      BY <2>1, <2>2 DEF IsPrefix
  <1> QED
    BY <1>1, ClientInvariant, PTL

\* If a flush that covers everything given said Ok and the worker ended with a
\* graceful disconnect, then the server has received every message.
THEOREM ClientDropDelivers == Spec => []DropDelivers
  <1>1. IInv => DropDelivers
    <2> SUFFICES ASSUME IInv, worker = "done", status = "Disconnected(Ok)",
                        NEW t \in Threads, flush[t].outcome = "Ok",
                        flush[t].before = Len(given)
                 PROVE  received = Len(given)
      BY DEF DropDelivers
    <2>1. received = Len(sent)
      BY DEF IInv, StatusFollowsWorker
    <2>2. Len(given) <= Len(sent) /\ Len(sent) <= Len(given)
      BY DEF IInv, AnswersAreTrue, SentFirst
    <2> QED
      BY <2>1, <2>2, Types
  <1> QED
    BY <1>1, ClientInvariant, PTL

\* The first Disconnected status stays: neither a store at the end of the worker
\* nor a failed encoding replaces the reason that flushes report.
THEOREM ClientDisconnectedIsFinal == Spec => DisconnectedIsFinal
  <1>1. ASSUME IInv, Next, status \in Disconnected
        PROVE  UNCHANGED status
    <2>1. worker \notin {"start", "connecting", "streaming"}
      BY <1>1 DEF IInv, StatusFollowsWorker, Disconnected
    <2>2. CASE \/ ParseEndpoint \/ Connect \/ ShutdownWhileConnecting \/ Stream
               \/ Deliver \/ CallSucceeds \/ CallSevered \/ DropStream \/ StoreStatus
               \/ Exit \/ ConnectTimeoutPasses \/ DropShutdown \/ DropJoin
      BY <1>1, <2>1, <2>2
      DEF ParseEndpoint, Connect, ShutdownWhileConnecting, Stream, StreamLogMsg,
          StreamEncodeFails, StreamFlush, StreamStaleFlush, StreamShutdown, Resumed,
          Deliver, CallSucceeds, CallSevered, DropStream, StoreStatus, Exit,
          ConnectTimeoutPasses, DropShutdown, DropJoin, conn
    <2>3. ASSUME NEW t \in Threads,
                 \/ SendBlocking(t) \/ SendDone(t) \/ DropClient(t) \/ Flushing(t)
                 \/ \E limit \in {"bounded", "forever"} : FlushBlocking(t, limit)
          PROVE  UNCHANGED status
      BY <2>3
      DEF SendBlocking, SendDone, DropClient, FlushBlocking, StartFlush, Begin,
          Flushing, FlushRefused, FlushOk, FlushDisconnected, FlushWakes, Report,
          FlushTimesOut, FlushFails, FlushGoesOn, FlushQueued, Step, Return, conn
    <2> QED
      BY <1>1, <2>2, <2>3 DEF Next
  <1>2. IInv /\ [Next]_vars => [(status \in Disconnected) => UNCHANGED status]_vars
    BY <1>1
  <1> QED
    BY <1>2, ClientInvariant, PTL DEF Spec, DisconnectedIsFinal
=============================================================================
