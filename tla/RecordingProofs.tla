-------------------------- MODULE RecordingProofs --------------------------
(***************************************************************************)
(* Proofs about where recorded data is and who knows of it: the recording  *)
(* stream of the SDK, which takes it to the sinks, and the registry of     *)
(* open operations, which follows the recordings a viewer has.             *)
(*                                                                         *)
(* The stream, for any number of threads and importers and any capacity    *)
(* of its channels.  Every item is in exactly one of a call, the command   *)
(* channel, the batcher, the channel of chunks and the sinks.  A call that *)
(* waits for forwarding_thread empties the batcher first and then sends    *)
(* PopPendingChunks; from there on, whatever concerns the thread is in a   *)
(* sink, or is a chunk that is taken before that command is over, or is a  *)
(* message ahead of the command the thread waits for.  Only one thread     *)
(* drops the stream, and only when no other one has a handle, so that      *)
(* everything concerns it.                                                 *)
(*                                                                         *)
(* The theorems leave out sinks that are made of files only: such a sink   *)
(* discards what it is given after finalize_deferred_sinks.                *)
(*                                                                         *)
(* The registry, for any number of sources, operations, recordings and     *)
(* stores and for any limits.  The limits play no part in it: every action *)
(* keeps the maps in step whether or not there is room.  The three         *)
(* properties need each other: that a source is dropped only when it is    *)
(* empty rests on the relations between sources, operations and            *)
(* recordings, and that a tombstone goes with its last subscriber on the   *)
(* two directions of a subscription.                                       *)
(***************************************************************************)
EXTENDS RecordingStream, OpenLifecycleRegistry, FiniteSetTheorems, SequenceTheorems, TLAPS

-----------------------------------------------------------------------------
(* The invariant of the recording stream *)

Ops == {"send", "importers", "batcher", "release", "forwarder", "await", "register"}
CmdOps == {"RecordMsg", "SwapSink", "Flush", "FinalizeDeferredSinks", "InspectSink",
           "PopPendingChunks", "Shutdown"}

\* Commands that a thread waits for, and those of them that are answered.
Asks(c, t) == c.op \in {"SwapSink", "FinalizeDeferredSinks", "Flush"} /\ c.by = t
Answered(c, t) == Asks(c, t) /\ c.op # "SwapSink"

CmdOK(c) ==
    /\ c.op \in CmdOps
    /\ c.op = "SwapSink" => c.kind \in Kinds \cup {"buffered"} /\ c.by \in Users
    /\ c.op = "FinalizeDeferredSinks" => c.by \in Users
    /\ c.op = "Flush" => c.by \in Users \cup {None}

\* The steps of a call come in this order.
Rank(s) ==
    IF s.op = "importers" THEN 1
    ELSE IF s.op = "batcher" THEN 2
    ELSE IF s.op # "send" THEN 6
    ELSE IF s.cmd.op = "PopPendingChunks" THEN 3
    ELSE IF s.cmd.op = "SwapSink" THEN 4
    ELSE IF s.cmd.op = "InspectSink" \/ (s.cmd.op = "Flush" /\ s.cmd.by = None) THEN 6
    ELSE 5

Ends(q, op) == q # <<>> /\ q[Len(q)].op = op
Waits(q) == Ends(q, "await") \/ Ends(q, "forwarder")

StepOK(s, t) ==
    /\ s.op \in Ops
    /\ s.op = "send" =>
         /\ CmdOK(s.cmd)
         /\ s.cmd.op \in {"SwapSink", "FinalizeDeferredSinks", "Flush"} => s.cmd.by \in {t, None}

\* What is left of a call of t.
CallOK(q, t) ==
    /\ q \in Seq(ToSet(q))
    /\ \A i \in DOMAIN q : StepOK(q[i], t)
    /\ \A i, j \in DOMAIN q : i < j => Rank(q[i]) < Rank(q[j])
    /\ Waits(q) => \A i \in DOMAIN q :
         Rank(q[i]) \in {1, 2} => i + 1 \in DOMAIN q /\ Rank(q[i + 1]) = Rank(q[i]) + 1
    /\ \A i \in DOMAIN q : q[i].op = "send" =>
         /\ q[i].cmd.op = "RecordMsg" => Ends(q, "release")
         /\ q[i].cmd.op = "Shutdown" => Ends(q, "forwarder")
         /\ Asks(q[i].cmd, t) => Ends(q, "await")
         /\ Asks(q[i].cmd, t) /\ q[Len(q)].timeout => q[i].cmd.op = "Flush"
    /\ t \in Importers /\ q # <<>> =>
         \/ Ends(q, "forwarder")
         \/ Ends(q, "release") /\ \A i \in DOMAIN q : Rank(q[i]) >= 5
    /\ Ends(q, "await") => t \in Users

Dropping(t) == Ends(todo[t], "forwarder")
Batched(t) == Waits(todo[t]) /\ Rank(todo[t][1]) >= 3
Popped(t) == Waits(todo[t]) /\ Rank(todo[t][1]) >= 4

TypeInv ==
    /\ todo = [t \in Threads |-> todo[t]]
    /\ \A t \in Threads : CallOK(todo[t], t)
    /\ strong \subseteq Threads
    /\ reply \subseteq Users
    /\ recorded \in Seq([by : Threads, route : {"row", "msg"}, after : Nat])
    /\ swaps \in [Users -> Nat]
    /\ pending \in Seq(Nat) /\ chunks \in Seq(Seq(Nat))
    /\ cmds \in Seq(ToSet(cmds)) /\ \A i \in DOMAIN cmds : CmdOK(cmds[i])
    /\ forwarder \in {"drain", "select", "done"}
    /\ sink = [n |-> sink.n, kind |-> sink.kind] /\ sink.kind \in AllKinds \ {"files", "empty"}
    /\ sunk \in Seq(Seq(Nat)) /\ Len(sunk) = sink.n /\ sink.n \in Nat \ {0}

\* Strong handles, and the end of the stream.
LifeInv ==
    /\ strong # {} => inner = "alive"
    /\ \A t \in Threads : todo[t] # <<>> /\ ~Dropping(t) => t \in strong
    /\ \A t \in Threads : Dropping(t) => inner = "dropping"
    /\ \A t, u \in Threads : Dropping(t) /\ Dropping(u) => t = u
    /\ \A t \in Threads : Dropping(t) /\ forwarder = "done" => Rank(todo[t][1]) = 6
    /\ \A j \in DOMAIN cmds : cmds[j].op = "Shutdown" =>
         /\ forwarder # "done"
         /\ \E t \in Threads : Dropping(t) /\ Rank(todo[t][1]) = 6
         /\ \A i \in DOMAIN cmds : cmds[i].op = "Shutdown" => i = j
    /\ forwarder = "done" => inner # "alive"

\* Commands on their way, and the threads that wait for them.
AskInv ==
    /\ \A t \in Users : \A j \in DOMAIN cmds : Asks(cmds[j], t) =>
         /\ Popped(t) /\ Ends(todo[t], "await")
         /\ t \notin reply
         /\ todo[t][Len(todo[t])].timeout => cmds[j].op = "Flush"
         /\ Answered(cmds[j], t) =>
              Rank(todo[t][1]) = 6 /\ \A i \in DOMAIN cmds : Asks(cmds[i], t) => i <= j
    /\ \A t \in reply : Ends(todo[t], "await") /\ Rank(todo[t][1]) = 6

Distinct(q) == \A i, j \in DOMAIN q : q[i] = q[j] => i = j
AllDistinct(qq) ==
    \A c, d \in DOMAIN qq : \A i \in DOMAIN qq[c], j \in DOMAIN qq[d] :
      qq[c][i] = qq[d][j] => c = d /\ i = j

All(qq) == UNION {Range(qq[c]) : c \in DOMAIN qq}
Messages(q) == {q[j].item : j \in {j \in DOMAIN q : q[j].op = "RecordMsg"}}
Distinctly(q) ==
    \A i, j \in DOMAIN q :
      q[i].op = "RecordMsg" /\ q[j].op = "RecordMsg" /\ q[i].item = q[j].item => i = j
Called == {k \in DOMAIN recorded : \E t \in Threads : Sends(t, k)}

Apart(D, C, Q, P, B, S) ==
    /\ D = C \cup Q \cup P \cup B \cup S
    /\ C \cap (Q \cup P \cup B \cup S) = {}
    /\ Q \cap (P \cup B \cup S) = {}
    /\ P \cap (B \cup S) = {}
    /\ B \cap S = {}

PlaceInv ==
    /\ Distinct(pending) /\ AllDistinct(chunks) /\ AllDistinct(sunk)
    /\ Distinctly(cmds)
    /\ \A t \in Threads : \A j \in DOMAIN todo[t] :
         todo[t][j].op = "send" /\ todo[t][j].cmd.op = "RecordMsg" =>
           /\ t \in Importers /\ todo[t][j].cmd.item \in DOMAIN recorded
           /\ recorded[todo[t][j].cmd.item].by = t
    /\ Apart(DOMAIN recorded, Called, Messages(cmds), Range(pending), All(chunks), Sunk)

Concerns(t, k) == k \in DOMAIN recorded /\ (recorded[k].by = t \/ Dropping(t))
AskOf(c, t) == Asks(c, t) \/ (c.op = "Shutdown" /\ Dropping(t))
PopAhead(t) ==
    \E i \in DOMAIN cmds : cmds[i].op = "PopPendingChunks"
                           /\ \A j \in DOMAIN cmds : AskOf(cmds[j], t) => i < j

\* What the waiting thread wants in a sink is ahead of its command.
AheadInv ==
    /\ \A t \in Threads : \A k \in DOMAIN recorded : Concerns(t, k) =>
         /\ Batched(t) => k \notin Range(pending)
         /\ Popped(t) /\ k \in All(chunks) => forwarder = "drain" \/ PopAhead(t)
         /\ \A i, j \in DOMAIN cmds : Carries(cmds[i], k) /\ AskOf(cmds[j], t) => i < j
    /\ AnsweredMeansRecorded
    /\ forwarder = "done" /\ inner # "panicked" => Sunk = DOMAIN recorded

StreamInv == TypeInv /\ LifeInv /\ AskInv /\ PlaceInv /\ AheadInv

LEMMA TailOf ==
  ASSUME NEW S, NEW q \in Seq(S), q # <<>>
  PROVE  /\ Tail(q) \in Seq(S) /\ Len(Tail(q)) = Len(q) - 1 /\ Len(q) \in Nat \ {0}
         /\ Head(q) = q[1] /\ q[1] \in S
         /\ DOMAIN Tail(q) = 1..(Len(q) - 1) /\ DOMAIN q = 1..Len(q)
         /\ \A i \in DOMAIN Tail(q) : Tail(q)[i] = q[i + 1] /\ i + 1 \in DOMAIN q
         /\ \A i \in DOMAIN q : i # 1 => i - 1 \in DOMAIN Tail(q) /\ Tail(q)[i - 1] = q[i]
  OBVIOUS

LEMMA AppendOf ==
  ASSUME NEW S, NEW q \in Seq(S), NEW e \in S
  PROVE  /\ Append(q, e) \in Seq(S) /\ Len(Append(q, e)) = Len(q) + 1 /\ Len(q) \in Nat
         /\ DOMAIN Append(q, e) = 1..(Len(q) + 1) /\ DOMAIN q = 1..Len(q)
         /\ \A i \in DOMAIN q : Append(q, e)[i] = q[i] /\ i \in DOMAIN Append(q, e)
         /\ Append(q, e)[Len(q) + 1] = e
         /\ \A i \in DOMAIN Append(q, e) : i \in DOMAIN q \/ i = Len(q) + 1
  OBVIOUS

LEMMA OwnSeq ==
  ASSUME NEW S, NEW q \in Seq(S)
  PROVE  q \in Seq(ToSet(q)) /\ \A i \in DOMAIN q : q[i] \in ToSet(q)
  BY SeqOfRange DEF Range, ToSet

\* A sequence of anything, extended.
LEMMA AppendAny ==
  ASSUME NEW q, q \in Seq(ToSet(q)), NEW e
  PROVE  /\ Append(q, e) \in Seq(ToSet(Append(q, e)))
         /\ Len(Append(q, e)) = Len(q) + 1 /\ Len(q) \in Nat
         /\ DOMAIN Append(q, e) = 1..(Len(q) + 1) /\ DOMAIN q = 1..Len(q)
         /\ \A i \in DOMAIN q : Append(q, e)[i] = q[i] /\ i \in DOMAIN Append(q, e)
         /\ Append(q, e)[Len(q) + 1] = e
         /\ \A i \in DOMAIN Append(q, e) : i \in DOMAIN q \/ i = Len(q) + 1
  <1>1. PICK S : S = ToSet(q) \cup {e}
    OBVIOUS
  <1>2. q \in Seq(S) /\ e \in S
    <2>1. \A i \in 1..Len(q) : q[i] \in S
      BY <1>1
    <2> QED
      BY <1>1, <2>1
  <1> QED
    BY <1>2, AppendOf, OwnSeq

LEMMA TailAny ==
  ASSUME NEW q, q \in Seq(ToSet(q)), q # <<>>
  PROVE  /\ Tail(q) \in Seq(ToSet(Tail(q))) /\ Len(Tail(q)) = Len(q) - 1
         /\ Len(q) \in Nat \ {0} /\ Head(q) = q[1]
         /\ DOMAIN Tail(q) = 1..(Len(q) - 1) /\ DOMAIN q = 1..Len(q)
         /\ \A i \in DOMAIN Tail(q) : Tail(q)[i] = q[i + 1] /\ i + 1 \in DOMAIN q
         /\ \A i \in DOMAIN q : i # 1 => i - 1 \in DOMAIN Tail(q) /\ Tail(q)[i - 1] = q[i]
  BY TailOf, OwnSeq

-----------------------------------------------------------------------------
\* The steps of calls

LEMMA RankType == \A s : Rank(s) \in 1..6
  BY DEF Rank

LEMMA EmptyCall == \A t : CallOK(<<>>, t)
  BY DEF CallOK, Ends, Waits, ToSet

\* What is left of a call after its first step.
LEMMA CallTail ==
  ASSUME NEW q, NEW t, CallOK(q, t), q # <<>>
  PROVE  /\ CallOK(Tail(q), t)
         /\ Tail(q) # <<>> => /\ Rank(q[1]) < Rank(Tail(q)[1])
                              /\ Tail(q)[Len(Tail(q))] = q[Len(q)]
                              /\ \A op : Ends(Tail(q), op) <=> Ends(q, op)
         /\ Rank(q[1]) = 6 => Tail(q) = <<>> /\ Len(q) = 1
         /\ Waits(q) /\ Rank(q[1]) # 6 => Tail(q) # <<>>
         /\ Waits(q) /\ Rank(q[1]) \in {1, 2} => Rank(Tail(q)[1]) = Rank(q[1]) + 1
         /\ \A i \in DOMAIN q : Rank(q[i]) = 6 => i = Len(q)
  <1>1. q \in Seq(ToSet(q))
    BY DEF CallOK
  <1>2. /\ Tail(q) \in Seq(ToSet(Tail(q))) /\ Len(Tail(q)) = Len(q) - 1
        /\ Len(q) \in Nat \ {0} /\ Head(q) = q[1]
        /\ DOMAIN Tail(q) = 1..(Len(q) - 1) /\ DOMAIN q = 1..Len(q)
        /\ \A i \in DOMAIN Tail(q) : Tail(q)[i] = q[i + 1] /\ i + 1 \in DOMAIN q
        /\ \A i \in DOMAIN q : i # 1 => i - 1 \in DOMAIN Tail(q) /\ Tail(q)[i - 1] = q[i]
    BY <1>1, TailAny
  <1>3. Tail(q) = <<>> <=> Len(q) = 1
    BY <1>2
  <1>4. PICK r : r = Tail(q)
    OBVIOUS
  <1>5. r # <<>> => /\ r[Len(r)] = q[Len(q)] /\ r[1] = q[2] /\ 2 \in DOMAIN q /\ 1 \in DOMAIN q
                    /\ \A op : Ends(r, op) <=> Ends(q, op)
    BY <1>2, <1>3, <1>4 DEF Ends
  <1>6. r # <<>> => (Waits(r) <=> Waits(q))
    BY <1>5 DEF Waits
  <1>7. r = <<>> => CallOK(r, t)
    BY EmptyCall
  <1>8. ASSUME r # <<>> PROVE CallOK(r, t)
    <2>1. \A i \in DOMAIN r : StepOK(r[i], t)
      BY <1>2, <1>4 DEF CallOK
    <2>2. \A i, j \in DOMAIN r : i < j => Rank(r[i]) < Rank(r[j])
      <3> TAKE i, j \in DOMAIN r
      <3>1. i + 1 \in DOMAIN q /\ j + 1 \in DOMAIN q /\ r[i] = q[i + 1] /\ r[j] = q[j + 1]
        BY <1>2, <1>4
      <3>2. i < j => i + 1 < j + 1
        BY <1>2, <1>4
      <3> QED
        BY <3>1, <3>2 DEF CallOK
    <2>3. Waits(r) => \A i \in DOMAIN r :
            Rank(r[i]) \in {1, 2} => i + 1 \in DOMAIN r /\ Rank(r[i + 1]) = Rank(r[i]) + 1
      <3> SUFFICES ASSUME Waits(r), NEW i \in DOMAIN r, Rank(r[i]) \in {1, 2}
                   PROVE  i + 1 \in DOMAIN r /\ Rank(r[i + 1]) = Rank(r[i]) + 1
        OBVIOUS
      <3>1. i + 1 \in DOMAIN q /\ r[i] = q[i + 1] /\ i \in Nat
        BY <1>2, <1>4
      <3>2. Waits(q)
        BY <1>6, <1>8
      <3>3. (i + 1) + 1 \in DOMAIN q /\ Rank(q[(i + 1) + 1]) = Rank(q[i + 1]) + 1
        BY <3>1, <3>2 DEF CallOK
      <3>4. i + 1 \in DOMAIN r /\ r[i + 1] = q[(i + 1) + 1]
        BY <1>2, <1>4, <3>1, <3>3
      <3> QED
        BY <3>1, <3>3, <3>4
    <2>4. \A i \in DOMAIN r : r[i].op = "send" =>
            /\ r[i].cmd.op = "RecordMsg" => Ends(r, "release")
            /\ r[i].cmd.op = "Shutdown" => Ends(r, "forwarder")
            /\ Asks(r[i].cmd, t) => Ends(r, "await")
            /\ Asks(r[i].cmd, t) /\ r[Len(r)].timeout => r[i].cmd.op = "Flush"
      <3> TAKE i \in DOMAIN r
      <3>1. i + 1 \in DOMAIN q /\ r[i] = q[i + 1]
        BY <1>2, <1>4
      <3> QED
        BY <3>1, <1>5, <1>8 DEF CallOK
    <2>5. t \in Importers =>
            \/ Ends(r, "forwarder")
            \/ Ends(r, "release") /\ \A i \in DOMAIN r : Rank(r[i]) >= 5
      BY <1>2, <1>4, <1>5, <1>8 DEF CallOK
    <2>6. Ends(r, "await") => t \in Users
      BY <1>5, <1>8 DEF CallOK
    <2>7. r \in Seq(ToSet(r))
      BY <1>2, <1>4
    <2> QED
      BY <2>1, <2>2, <2>3, <2>4, <2>5, <2>6, <2>7 DEF CallOK
  <1>9. r # <<>> => Rank(q[1]) < Rank(r[1])
    BY <1>5 DEF CallOK
  <1>10. Rank(q[1]) = 6 => r = <<>>
    BY <1>9, RankType
  <1>11. Waits(q) => Rank(q[Len(q)]) = 6
    BY DEF Waits, Ends, Rank
  <1>12. Waits(q) /\ Rank(q[1]) # 6 => r # <<>>
    BY <1>11, <1>3, <1>4
  <1>13. Waits(q) /\ Rank(q[1]) \in {1, 2} => Rank(r[1]) = Rank(q[1]) + 1
    <2>1. 1 \in DOMAIN q
      BY <1>2
    <2> QED
      BY <2>1, <1>5, <1>12 DEF CallOK
  <1>14. \A i \in DOMAIN q : Rank(q[i]) = 6 => i = Len(q)
    <2> SUFFICES ASSUME NEW i \in DOMAIN q, Rank(q[i]) = 6, i # Len(q) PROVE FALSE
      OBVIOUS
    <2>1. i < Len(q) /\ Len(q) \in DOMAIN q
      BY <1>2
    <2> QED
      BY <2>1, RankType DEF CallOK
  <1>15. Rank(q[1]) = 6 => Len(q) = 1
    BY <1>3, <1>4, <1>10
  <1> QED
    BY <1>4, <1>5, <1>7, <1>8, <1>9, <1>10, <1>12, <1>13, <1>14, <1>15

Fresh(q) == Waits(q) => Rank(q[1]) \in {1, 2}
Plain(q) == \A j \in DOMAIN q : q[j].op = "send" => q[j].cmd.op # "RecordMsg"

\* set_sink
LEMMA SetSinkCall ==
  ASSUME NEW u \in Users, NEW kind \in Kinds \cup {"buffered"}
  PROVE  LET q == SetSinkSteps(u, kind)
         IN  CallOK(q, u) /\ Fresh(q) /\ q # <<>> /\ Plain(q) /\ Ends(q, "await")
  <1> DEFINE q == SetSinkSteps(u, kind)
             a == FlushBatcher
             b == PopPending
             c == Send([op |-> "SwapSink", kind |-> kind, by |-> u])
             d == Send([op |-> "Flush", by |-> u])
             e == Await(FALSE)
  <1>1. q = <<a, b, c, d, e>>
    BY DEF SetSinkSteps
  <1>2. /\ a.op = "batcher"
        /\ b.op = "send" /\ b.cmd.op = "PopPendingChunks"
        /\ c.op = "send" /\ c.cmd.op = "SwapSink" /\ c.cmd.by = u /\ c.cmd.kind = kind
        /\ d.op = "send" /\ d.cmd.op = "Flush" /\ d.cmd.by = u
        /\ e.op = "await" /\ e.timeout = FALSE
    BY DEF FlushBatcher, PopPending, Send, Await, WaitForImporters, JoinForwarder, Release,
           Register
  <1>3. Rank(a) = 2 /\ Rank(b) = 3 /\ Rank(c) = 4 /\ Rank(d) = 5 /\ Rank(e) = 6
    BY <1>2, StreamAssumption DEF Rank
  <1> HIDE DEF q, a, b, c, d, e
  <1>4. Len(q) = 5 /\ DOMAIN q = 1..5 /\ q[1] = a /\ q[2] = b /\ q[3] = c /\ q[4] = d /\ q[5] = e
    BY <1>1
  <1>5. q \in Seq(ToSet(q)) /\ q # <<>>
    <2>1. q \in Seq({a, b, c, d, e})
      BY <1>1
    <2> QED
      BY <2>1, <1>1, OwnSeq
  <1>6. Ends(q, "await") /\ ~Ends(q, "forwarder") /\ ~Ends(q, "release") /\ Waits(q)
    BY <1>2, <1>4, <1>5 DEF Ends, Waits
  <1>7. StepOK(a, u) /\ StepOK(b, u) /\ StepOK(c, u) /\ StepOK(d, u) /\ StepOK(e, u)
    BY <1>2 DEF StepOK, CmdOK, Ops, CmdOps
  <1>8. \A i \in DOMAIN q : StepOK(q[i], u)
    BY <1>4, <1>7
  <1>9. \A i, j \in DOMAIN q : i < j => Rank(q[i]) < Rank(q[j])
    BY <1>4, <1>3
  <1>10. \A i \in DOMAIN q :
           Rank(q[i]) \in {1, 2} => i + 1 \in DOMAIN q /\ Rank(q[i + 1]) = Rank(q[i]) + 1
    BY <1>4, <1>3
  <1>11. \A i \in DOMAIN q : q[i].op = "send" =>
            /\ q[i].cmd.op # "RecordMsg" /\ q[i].cmd.op # "Shutdown"
            /\ q[Len(q)].timeout => q[i].cmd.op = "Flush"
    BY <1>4, <1>2, StreamAssumption DEF Asks
  <1>12. u \notin Importers
    BY StreamAssumption
  <1> QED
    BY <1>5, <1>6, <1>8, <1>9, <1>10, <1>11, <1>12, <1>2, <1>3, <1>4 DEF CallOK, Fresh, Plain, q

\* flush without a timeout
LEMMA FlushAsyncCall ==
  ASSUME NEW u \in Users
  PROVE  LET q == FlushSteps(u, None)
         IN  CallOK(q, u) /\ Fresh(q) /\ q # <<>> /\ Plain(q) /\ ~Waits(q)
  <1> DEFINE q == FlushSteps(u, None)
             a == WaitForImporters
             b == FlushBatcher
             c == PopPending
             d == Send([op |-> "Flush", by |-> None])
  <1>1. q = <<a, b, c, d>>
    BY DEF FlushSteps
  <1>2. /\ a.op = "importers"
        /\ b.op = "batcher"
        /\ c.op = "send" /\ c.cmd.op = "PopPendingChunks"
        /\ d.op = "send" /\ d.cmd.op = "Flush" /\ d.cmd.by = None
    BY DEF FlushBatcher, PopPending, Send, Await, WaitForImporters, JoinForwarder, Release,
           Register
  <1>3. Rank(a) = 1 /\ Rank(b) = 2 /\ Rank(c) = 3 /\ Rank(d) = 6
    BY <1>2, StreamAssumption DEF Rank
  <1> HIDE DEF q, a, b, c, d
  <1>4. Len(q) = 4 /\ DOMAIN q = 1..4 /\ q[1] = a /\ q[2] = b /\ q[3] = c /\ q[4] = d
    BY <1>1
  <1>5. q \in Seq(ToSet(q)) /\ q # <<>>
    <2>1. q \in Seq({a, b, c, d})
      BY <1>1
    <2> QED
      BY <2>1, <1>1, OwnSeq
  <1>6. ~Ends(q, "await") /\ ~Ends(q, "forwarder") /\ ~Ends(q, "release") /\ ~Waits(q)
    BY <1>2, <1>4, <1>5 DEF Ends, Waits
  <1>7. StepOK(a, u) /\ StepOK(b, u) /\ StepOK(c, u) /\ StepOK(d, u)
    BY <1>2 DEF StepOK, CmdOK, Ops, CmdOps
  <1>8. \A i \in DOMAIN q : StepOK(q[i], u)
    BY <1>4, <1>7
  <1>9. \A i, j \in DOMAIN q : i < j => Rank(q[i]) < Rank(q[j])
    BY <1>4, <1>3
  <1>10. ~Waits(q)
    BY <1>6
  <1>11. \A i \in DOMAIN q : q[i].op = "send" =>
            /\ q[i].cmd.op # "RecordMsg" /\ q[i].cmd.op # "Shutdown"
            /\ ~Asks(q[i].cmd, u)
    BY <1>4, <1>2, StreamAssumption DEF Asks
  <1>12. u \notin Importers
    BY StreamAssumption
  <1> QED
    BY <1>5, <1>6, <1>8, <1>9, <1>10, <1>11, <1>12, <1>2, <1>3, <1>4 DEF CallOK, Fresh, Plain, q

\* flush with one
LEMMA FlushCall ==
  ASSUME NEW u \in Users, NEW timeout, timeout # None
  PROVE  LET q == FlushSteps(u, timeout)
         IN  CallOK(q, u) /\ Fresh(q) /\ q # <<>> /\ Plain(q) /\ Ends(q, "await")
  <1> DEFINE q == FlushSteps(u, timeout)
             a == WaitForImporters
             b == FlushBatcher
             c == PopPending
             d == Send([op |-> "Flush", by |-> u])
             e == Await(timeout = "finite")
  <1>1. q = <<a, b, c, d, e>>
    BY DEF FlushSteps
  <1>2. /\ a.op = "importers"
        /\ b.op = "batcher"
        /\ c.op = "send" /\ c.cmd.op = "PopPendingChunks"
        /\ d.op = "send" /\ d.cmd.op = "Flush" /\ d.cmd.by = u
        /\ e.op = "await" /\ e.timeout = (timeout = "finite")
    BY DEF FlushBatcher, PopPending, Send, Await, WaitForImporters, JoinForwarder, Release,
           Register
  <1>3. Rank(a) = 1 /\ Rank(b) = 2 /\ Rank(c) = 3 /\ Rank(d) = 5 /\ Rank(e) = 6
    BY <1>2, StreamAssumption DEF Rank
  <1> HIDE DEF q, a, b, c, d, e
  <1>4. Len(q) = 5 /\ DOMAIN q = 1..5 /\ q[1] = a /\ q[2] = b /\ q[3] = c /\ q[4] = d /\ q[5] = e
    BY <1>1
  <1>5. q \in Seq(ToSet(q)) /\ q # <<>>
    <2>1. q \in Seq({a, b, c, d, e})
      BY <1>1
    <2> QED
      BY <2>1, <1>1, OwnSeq
  <1>6. Ends(q, "await") /\ ~Ends(q, "forwarder") /\ ~Ends(q, "release") /\ Waits(q)
    BY <1>2, <1>4, <1>5 DEF Ends, Waits
  <1>7. StepOK(a, u) /\ StepOK(b, u) /\ StepOK(c, u) /\ StepOK(d, u) /\ StepOK(e, u)
    BY <1>2 DEF StepOK, CmdOK, Ops, CmdOps
  <1>8. \A i \in DOMAIN q : StepOK(q[i], u)
    BY <1>4, <1>7
  <1>9. \A i, j \in DOMAIN q : i < j => Rank(q[i]) < Rank(q[j])
    BY <1>4, <1>3
  <1>10. \A i \in DOMAIN q :
           Rank(q[i]) \in {1, 2} => i + 1 \in DOMAIN q /\ Rank(q[i + 1]) = Rank(q[i]) + 1
    BY <1>4, <1>3
  <1>11. \A i \in DOMAIN q : q[i].op = "send" =>
            /\ q[i].cmd.op \in {"PopPendingChunks", "Flush"}
    BY <1>4, <1>2, StreamAssumption DEF Asks
  <1>12. u \notin Importers
    BY StreamAssumption
  <1> QED
    BY <1>5, <1>6, <1>8, <1>9, <1>10, <1>11, <1>12, <1>2, <1>3, <1>4 DEF CallOK, Fresh, Plain, Asks, q

\* disconnect
LEMMA DisconnectCall ==
  ASSUME NEW u \in Users
  PROVE  LET q == DisconnectSteps(u)
         IN  CallOK(q, u) /\ Fresh(q) /\ q # <<>> /\ Plain(q) /\ Ends(q, "await")
  <1> DEFINE q == DisconnectSteps(u)
             a == WaitForImporters
             b == FlushBatcher
             c == PopPending
             d == Send([op |-> "SwapSink", kind |-> "buffered", by |-> u])
             e == Send([op |-> "Flush", by |-> u])
             f == Await(FALSE)
  <1>1. q = <<a, b, c, d, e, f>>
    <2>1. q = <<a>> \o <<b, c, d, e, f>>
      BY DEF DisconnectSteps, SetSinkSteps
    <2> HIDE DEF a, b, c, d, e, f, q
    <2>2. <<a>> \in Seq({a, b, c, d, e, f}) /\ <<b, c, d, e, f>> \in Seq({a, b, c, d, e, f})
      OBVIOUS
    <2>3. /\ Len(<<a>> \o <<b, c, d, e, f>>) = Len(<<a>>) + Len(<<b, c, d, e, f>>)
          /\ \A j \in 1..Len(<<a>>) + Len(<<b, c, d, e, f>>) :
               (<<a>> \o <<b, c, d, e, f>>)[j] = IF j <= Len(<<a>>) THEN <<a>>[j]
                                                ELSE <<b, c, d, e, f>>[j - Len(<<a>>)]
      BY <2>2, ConcatProperties
    <2>4. Len(q) = 6 /\ \A j \in 1..6 : q[j] = IF j <= 1 THEN a ELSE <<b, c, d, e, f>>[j - 1]
      BY <2>1, <2>3
    <2>5. q[1] = a /\ q[2] = b /\ q[3] = c /\ q[4] = d /\ q[5] = e /\ q[6] = f
      BY <2>4
    <2>6. q \in Seq({a, b, c, d, e, f})
      BY <2>1, <2>2
    <2> QED
      BY <2>4, <2>5, <2>6
  <1>2. /\ a.op = "importers"
        /\ b.op = "batcher"
        /\ c.op = "send" /\ c.cmd.op = "PopPendingChunks"
        /\ d.op = "send" /\ d.cmd.op = "SwapSink" /\ d.cmd.by = u /\ d.cmd.kind = "buffered"
        /\ e.op = "send" /\ e.cmd.op = "Flush" /\ e.cmd.by = u
        /\ f.op = "await" /\ f.timeout = FALSE
    BY DEF FlushBatcher, PopPending, Send, Await, WaitForImporters, JoinForwarder, Release,
           Register
  <1>3. Rank(a) = 1 /\ Rank(b) = 2 /\ Rank(c) = 3 /\ Rank(d) = 4 /\ Rank(e) = 5 /\ Rank(f) = 6
    BY <1>2, StreamAssumption DEF Rank
  <1> HIDE DEF q, a, b, c, d, e, f
  <1>4. Len(q) = 6 /\ DOMAIN q = 1..6 /\ q[1] = a /\ q[2] = b /\ q[3] = c /\ q[4] = d /\ q[5] = e /\ q[6] = f
    BY <1>1
  <1>5. q \in Seq(ToSet(q)) /\ q # <<>>
    <2>1. q \in Seq({a, b, c, d, e, f})
      BY <1>1
    <2> QED
      BY <2>1, <1>1, OwnSeq
  <1>6. Ends(q, "await") /\ ~Ends(q, "forwarder") /\ ~Ends(q, "release") /\ Waits(q)
    BY <1>2, <1>4, <1>5 DEF Ends, Waits
  <1>7. StepOK(a, u) /\ StepOK(b, u) /\ StepOK(c, u) /\ StepOK(d, u) /\ StepOK(e, u) /\ StepOK(f, u)
    BY <1>2 DEF StepOK, CmdOK, Ops, CmdOps
  <1>8. \A i \in DOMAIN q : StepOK(q[i], u)
    BY <1>4, <1>7
  <1>9. \A i, j \in DOMAIN q : i < j => Rank(q[i]) < Rank(q[j])
    BY <1>4, <1>3
  <1>10. \A i \in DOMAIN q :
           Rank(q[i]) \in {1, 2} => i + 1 \in DOMAIN q /\ Rank(q[i + 1]) = Rank(q[i]) + 1
    BY <1>4, <1>3
  <1>11. \A i \in DOMAIN q : q[i].op = "send" =>
            /\ q[i].cmd.op # "RecordMsg" /\ q[i].cmd.op # "Shutdown"
            /\ q[Len(q)].timeout => q[i].cmd.op = "Flush"
    BY <1>4, <1>2, StreamAssumption DEF Asks
  <1>12. u \notin Importers
    BY StreamAssumption
  <1> QED
    BY <1>5, <1>6, <1>8, <1>9, <1>10, <1>11, <1>12, <1>2, <1>3, <1>4 DEF CallOK, Fresh, Plain, q

\* finalize_deferred_sinks
LEMMA FinalizeCall ==
  ASSUME NEW u \in Users
  PROVE  LET q == FinalizeSteps(u)
         IN  CallOK(q, u) /\ Fresh(q) /\ q # <<>> /\ Plain(q) /\ Ends(q, "await")
  <1> DEFINE q == FinalizeSteps(u)
             a == WaitForImporters
             b == FlushBatcher
             c == PopPending
             d == Send([op |-> "FinalizeDeferredSinks", by |-> u])
             e == Await(FALSE)
  <1>1. q = <<a, b, c, d, e>>
    BY DEF FinalizeSteps
  <1>2. /\ a.op = "importers"
        /\ b.op = "batcher"
        /\ c.op = "send" /\ c.cmd.op = "PopPendingChunks"
        /\ d.op = "send" /\ d.cmd.op = "FinalizeDeferredSinks" /\ d.cmd.by = u
        /\ e.op = "await" /\ e.timeout = FALSE
    BY DEF FlushBatcher, PopPending, Send, Await, WaitForImporters, JoinForwarder, Release,
           Register
  <1>3. Rank(a) = 1 /\ Rank(b) = 2 /\ Rank(c) = 3 /\ Rank(d) = 5 /\ Rank(e) = 6
    BY <1>2, StreamAssumption DEF Rank
  <1> HIDE DEF q, a, b, c, d, e
  <1>4. Len(q) = 5 /\ DOMAIN q = 1..5 /\ q[1] = a /\ q[2] = b /\ q[3] = c /\ q[4] = d /\ q[5] = e
    BY <1>1
  <1>5. q \in Seq(ToSet(q)) /\ q # <<>>
    <2>1. q \in Seq({a, b, c, d, e})
      BY <1>1
    <2> QED
      BY <2>1, <1>1, OwnSeq
  <1>6. Ends(q, "await") /\ ~Ends(q, "forwarder") /\ ~Ends(q, "release") /\ Waits(q)
    BY <1>2, <1>4, <1>5 DEF Ends, Waits
  <1>7. StepOK(a, u) /\ StepOK(b, u) /\ StepOK(c, u) /\ StepOK(d, u) /\ StepOK(e, u)
    BY <1>2 DEF StepOK, CmdOK, Ops, CmdOps
  <1>8. \A i \in DOMAIN q : StepOK(q[i], u)
    BY <1>4, <1>7
  <1>9. \A i, j \in DOMAIN q : i < j => Rank(q[i]) < Rank(q[j])
    BY <1>4, <1>3
  <1>10. \A i \in DOMAIN q :
           Rank(q[i]) \in {1, 2} => i + 1 \in DOMAIN q /\ Rank(q[i + 1]) = Rank(q[i]) + 1
    BY <1>4, <1>3
  <1>11. \A i \in DOMAIN q : q[i].op = "send" =>
            /\ q[i].cmd.op # "RecordMsg" /\ q[i].cmd.op # "Shutdown"
            /\ q[Len(q)].timeout => q[i].cmd.op = "Flush"
    BY <1>4, <1>2, StreamAssumption DEF Asks
  <1>12. u \notin Importers
    BY StreamAssumption
  <1> QED
    BY <1>5, <1>6, <1>8, <1>9, <1>10, <1>11, <1>12, <1>2, <1>3, <1>4 DEF CallOK, Fresh, Plain, q

\* inspect_sink
LEMMA InspectCall ==
  ASSUME NEW u \in Users
  PROVE  LET q == <<Send([op |-> "InspectSink"])>>
         IN  CallOK(q, u) /\ Fresh(q) /\ q # <<>> /\ Plain(q) /\ ~Waits(q)
  <1> DEFINE q == <<Send([op |-> "InspectSink"])>>
             a == Send([op |-> "InspectSink"])
  <1>1. q = <<a>>
    BY DEF Send
  <1>2. /\ a.op = "send" /\ a.cmd.op = "InspectSink"
    BY DEF FlushBatcher, PopPending, Send, Await, WaitForImporters, JoinForwarder, Release,
           Register
  <1>3. Rank(a) = 6
    BY <1>2, StreamAssumption DEF Rank
  <1> HIDE DEF q, a
  <1>4. Len(q) = 1 /\ DOMAIN q = 1..1 /\ q[1] = a
    BY <1>1
  <1>5. q \in Seq(ToSet(q)) /\ q # <<>>
    <2>1. q \in Seq({a})
      BY <1>1
    <2> QED
      BY <2>1, <1>1, OwnSeq
  <1>6. ~Ends(q, "await") /\ ~Ends(q, "forwarder") /\ ~Ends(q, "release") /\ ~Waits(q)
    BY <1>2, <1>4, <1>5 DEF Ends, Waits
  <1>7. StepOK(a, u)
    BY <1>2 DEF StepOK, CmdOK, Ops, CmdOps
  <1>8. \A i \in DOMAIN q : StepOK(q[i], u)
    BY <1>4, <1>7
  <1>9. \A i, j \in DOMAIN q : i < j => Rank(q[i]) < Rank(q[j])
    BY <1>4, <1>3
  <1>10. ~Waits(q)
    BY <1>6
  <1>11. \A i \in DOMAIN q : q[i].op = "send" =>
            /\ q[i].cmd.op # "RecordMsg" /\ q[i].cmd.op # "Shutdown"
            /\ ~Asks(q[i].cmd, u)
    BY <1>4, <1>2, StreamAssumption DEF Asks
  <1>12. u \notin Importers
    BY StreamAssumption
  <1> QED
    BY <1>5, <1>6, <1>8, <1>9, <1>10, <1>11, <1>12, <1>2, <1>3, <1>4 DEF CallOK, Fresh, Plain, q

\* The end of log_file
LEMMA RegisterCall ==
  ASSUME NEW u \in Users, NEW x \in Importers
  PROVE  LET q == <<Register(x)>>
         IN  CallOK(q, u) /\ Fresh(q) /\ q # <<>> /\ Plain(q) /\ ~Waits(q)
  <1> DEFINE q == <<Register(x)>>
             a == Register(x)
  <1>1. q = <<a>>
    BY DEF Register
  <1>2. /\ a.op = "register"
    BY DEF FlushBatcher, PopPending, Send, Await, WaitForImporters, JoinForwarder, Release,
           Register
  <1>3. Rank(a) = 6
    BY <1>2, StreamAssumption DEF Rank
  <1> HIDE DEF q, a
  <1>4. Len(q) = 1 /\ DOMAIN q = 1..1 /\ q[1] = a
    BY <1>1
  <1>5. q \in Seq(ToSet(q)) /\ q # <<>>
    <2>1. q \in Seq({a})
      BY <1>1
    <2> QED
      BY <2>1, <1>1, OwnSeq
  <1>6. ~Ends(q, "await") /\ ~Ends(q, "forwarder") /\ ~Ends(q, "release") /\ ~Waits(q)
    BY <1>2, <1>4, <1>5 DEF Ends, Waits
  <1>7. StepOK(a, u)
    BY <1>2 DEF StepOK, CmdOK, Ops, CmdOps
  <1>8. \A i \in DOMAIN q : StepOK(q[i], u)
    BY <1>4, <1>7
  <1>9. \A i, j \in DOMAIN q : i < j => Rank(q[i]) < Rank(q[j])
    BY <1>4, <1>3
  <1>10. ~Waits(q)
    BY <1>6
  <1>11. \A i \in DOMAIN q : q[i].op = "send" =>
            /\ q[i].cmd.op # "RecordMsg" /\ q[i].cmd.op # "Shutdown"
            /\ ~Asks(q[i].cmd, u)
    BY <1>4, <1>2, StreamAssumption DEF Asks
  <1>12. u \notin Importers
    BY StreamAssumption
  <1> QED
    BY <1>5, <1>6, <1>8, <1>9, <1>10, <1>11, <1>12, <1>2, <1>3, <1>4 DEF CallOK, Fresh, Plain, q

\* Drop for RecordingStreamInner
LEMMA DropInnerCall ==
  ASSUME NEW t \in Threads
  PROVE  LET q == DropInnerSteps
         IN  CallOK(q, t) /\ Fresh(q) /\ q # <<>> /\ Plain(q) /\ Ends(q, "forwarder") /\ Rank(q[1]) = 1
  <1> DEFINE q == DropInnerSteps
             a == WaitForImporters
             b == FlushBatcher
             c == PopPending
             d == Send([op |-> "Shutdown"])
             e == JoinForwarder
  <1>1. q = <<a, b, c, d, e>>
    BY DEF DropInnerSteps
  <1>2. /\ a.op = "importers"
        /\ b.op = "batcher"
        /\ c.op = "send" /\ c.cmd.op = "PopPendingChunks"
        /\ d.op = "send" /\ d.cmd.op = "Shutdown"
        /\ e.op = "forwarder"
    BY DEF FlushBatcher, PopPending, Send, Await, WaitForImporters, JoinForwarder, Release,
           Register
  <1>3. Rank(a) = 1 /\ Rank(b) = 2 /\ Rank(c) = 3 /\ Rank(d) = 5 /\ Rank(e) = 6
    BY <1>2, StreamAssumption DEF Rank
  <1> HIDE DEF q, a, b, c, d, e
  <1>4. Len(q) = 5 /\ DOMAIN q = 1..5 /\ q[1] = a /\ q[2] = b /\ q[3] = c /\ q[4] = d /\ q[5] = e
    BY <1>1
  <1>5. q \in Seq(ToSet(q)) /\ q # <<>>
    <2>1. q \in Seq({a, b, c, d, e})
      BY <1>1
    <2> QED
      BY <2>1, <1>1, OwnSeq
  <1>6. Ends(q, "forwarder") /\ ~Ends(q, "await") /\ ~Ends(q, "release") /\ Waits(q)
    BY <1>2, <1>4, <1>5 DEF Ends, Waits
  <1>7. StepOK(a, t) /\ StepOK(b, t) /\ StepOK(c, t) /\ StepOK(d, t) /\ StepOK(e, t)
    BY <1>2 DEF StepOK, CmdOK, Ops, CmdOps
  <1>8. \A i \in DOMAIN q : StepOK(q[i], t)
    BY <1>4, <1>7
  <1>9. \A i, j \in DOMAIN q : i < j => Rank(q[i]) < Rank(q[j])
    BY <1>4, <1>3
  <1>10. \A i \in DOMAIN q :
           Rank(q[i]) \in {1, 2} => i + 1 \in DOMAIN q /\ Rank(q[i + 1]) = Rank(q[i]) + 1
    BY <1>4, <1>3
  <1>11. \A i \in DOMAIN q : q[i].op = "send" =>
            /\ q[i].cmd.op # "RecordMsg"
            /\ ~Asks(q[i].cmd, t)
    BY <1>4, <1>2, StreamAssumption DEF Asks
  <1>12. TRUE
    OBVIOUS
  <1> QED
    BY <1>5, <1>6, <1>8, <1>9, <1>10, <1>11, <1>12, <1>2, <1>3, <1>4 DEF CallOK, Fresh, Plain, q

\* Drop for RecordingStream, by the last handle and by another
LEMMA LastDropCall ==
  ASSUME NEW u \in Users
  PROVE  LET q == <<WaitForImporters, Release>>
         IN  CallOK(q, u) /\ Fresh(q) /\ q # <<>> /\ Plain(q) /\ ~Waits(q)
  <1> DEFINE q == <<WaitForImporters, Release>>
             a == WaitForImporters
             b == Release
  <1>1. q = <<a, b>>
    BY DEF Release
  <1>2. /\ a.op = "importers"
        /\ b.op = "release"
    BY DEF FlushBatcher, PopPending, Send, Await, WaitForImporters, JoinForwarder, Release,
           Register
  <1>3. Rank(a) = 1 /\ Rank(b) = 6
    BY <1>2, StreamAssumption DEF Rank
  <1> HIDE DEF q, a, b
  <1>4. Len(q) = 2 /\ DOMAIN q = 1..2 /\ q[1] = a /\ q[2] = b
    BY <1>1
  <1>5. q \in Seq(ToSet(q)) /\ q # <<>>
    <2>1. q \in Seq({a, b})
      BY <1>1
    <2> QED
      BY <2>1, <1>1, OwnSeq
  <1>6. Ends(q, "release") /\ ~Ends(q, "await") /\ ~Ends(q, "forwarder") /\ ~Waits(q)
    BY <1>2, <1>4, <1>5 DEF Ends, Waits
  <1>7. StepOK(a, u) /\ StepOK(b, u)
    BY <1>2 DEF StepOK, CmdOK, Ops, CmdOps
  <1>8. \A i \in DOMAIN q : StepOK(q[i], u)
    BY <1>4, <1>7
  <1>9. \A i, j \in DOMAIN q : i < j => Rank(q[i]) < Rank(q[j])
    BY <1>4, <1>3
  <1>10. ~Waits(q)
    BY <1>6
  <1>11. \A i \in DOMAIN q : q[i].op = "send" =>
            /\ q[i].cmd.op # "RecordMsg" /\ q[i].cmd.op # "Shutdown"
            /\ ~Asks(q[i].cmd, u)
    BY <1>4, <1>2, StreamAssumption DEF Asks
  <1>12. u \notin Importers
    BY StreamAssumption
  <1> QED
    BY <1>5, <1>6, <1>8, <1>9, <1>10, <1>11, <1>12, <1>2, <1>3, <1>4 DEF CallOK, Fresh, Plain, q

\* another
LEMMA OtherDropCall ==
  ASSUME NEW u \in Users
  PROVE  LET q == <<Release>>
         IN  CallOK(q, u) /\ Fresh(q) /\ q # <<>> /\ Plain(q) /\ ~Waits(q)
  <1> DEFINE q == <<Release>>
             a == Release
  <1>1. q = <<a>>
    BY DEF Release
  <1>2. /\ a.op = "release"
    BY DEF FlushBatcher, PopPending, Send, Await, WaitForImporters, JoinForwarder, Release,
           Register
  <1>3. Rank(a) = 6
    BY <1>2, StreamAssumption DEF Rank
  <1> HIDE DEF q, a
  <1>4. Len(q) = 1 /\ DOMAIN q = 1..1 /\ q[1] = a
    BY <1>1
  <1>5. q \in Seq(ToSet(q)) /\ q # <<>>
    <2>1. q \in Seq({a})
      BY <1>1
    <2> QED
      BY <2>1, <1>1, OwnSeq
  <1>6. Ends(q, "release") /\ ~Ends(q, "await") /\ ~Ends(q, "forwarder") /\ ~Waits(q)
    BY <1>2, <1>4, <1>5 DEF Ends, Waits
  <1>7. StepOK(a, u)
    BY <1>2 DEF StepOK, CmdOK, Ops, CmdOps
  <1>8. \A i \in DOMAIN q : StepOK(q[i], u)
    BY <1>4, <1>7
  <1>9. \A i, j \in DOMAIN q : i < j => Rank(q[i]) < Rank(q[j])
    BY <1>4, <1>3
  <1>10. ~Waits(q)
    BY <1>6
  <1>11. \A i \in DOMAIN q : q[i].op = "send" =>
            /\ q[i].cmd.op # "RecordMsg" /\ q[i].cmd.op # "Shutdown"
            /\ ~Asks(q[i].cmd, u)
    BY <1>4, <1>2, StreamAssumption DEF Asks
  <1>12. u \notin Importers
    BY StreamAssumption
  <1> QED
    BY <1>5, <1>6, <1>8, <1>9, <1>10, <1>11, <1>12, <1>2, <1>3, <1>4 DEF CallOK, Fresh, Plain, q

\* A message of an importer
LEMMA ImporterCall ==
  ASSUME NEW t \in Importers, NEW k
  PROVE  LET q == <<Send([op |-> "RecordMsg", item |-> k]), Release>>
         IN  CallOK(q, t) /\ Fresh(q) /\ q # <<>> /\ ~Waits(q)
             /\ \A j \in DOMAIN q : q[j].op = "send" => q[j].cmd = [op |-> "RecordMsg", item |-> k]
             /\ q[1].op = "send"
  <1> DEFINE q == <<Send([op |-> "RecordMsg", item |-> k]), Release>>
             a == Send([op |-> "RecordMsg", item |-> k])
             b == Release
  <1>1. q = <<a, b>>
    BY DEF Release
  <1>2. /\ a.op = "send" /\ a.cmd.op = "RecordMsg" /\ a.cmd = [op |-> "RecordMsg", item |-> k]
        /\ b.op = "release"
    BY DEF FlushBatcher, PopPending, Send, Await, WaitForImporters, JoinForwarder, Release,
           Register
  <1>3. Rank(a) = 5 /\ Rank(b) = 6
    BY <1>2, StreamAssumption DEF Rank
  <1> HIDE DEF q, a, b
  <1>4. Len(q) = 2 /\ DOMAIN q = 1..2 /\ q[1] = a /\ q[2] = b
    BY <1>1
  <1>5. q \in Seq(ToSet(q)) /\ q # <<>>
    <2>1. q \in Seq({a, b})
      BY <1>1
    <2> QED
      BY <2>1, <1>1, OwnSeq
  <1>6. Ends(q, "release") /\ ~Ends(q, "await") /\ ~Ends(q, "forwarder") /\ ~Waits(q)
    BY <1>2, <1>4, <1>5 DEF Ends, Waits
  <1>7. StepOK(a, t) /\ StepOK(b, t)
    BY <1>2 DEF StepOK, CmdOK, Ops, CmdOps
  <1>8. \A i \in DOMAIN q : StepOK(q[i], t)
    BY <1>4, <1>7
  <1>9. \A i, j \in DOMAIN q : i < j => Rank(q[i]) < Rank(q[j])
    BY <1>4, <1>3
  <1>10. ~Waits(q)
    BY <1>6
  <1>11. \A i \in DOMAIN q : q[i].op = "send" =>
            /\ q[i].cmd.op # "Shutdown"
            /\ ~Asks(q[i].cmd, t)
    BY <1>4, <1>2, StreamAssumption DEF Asks
  <1>12. \A i \in DOMAIN q : Rank(q[i]) >= 5
    BY <1>3, <1>4
  <1> QED
    BY <1>5, <1>6, <1>8, <1>9, <1>10, <1>11, <1>12, <1>2, <1>3, <1>4 DEF CallOK, Fresh, Plain, q

-----------------------------------------------------------------------------
\* Where items are

LEMMA SunkAll == Sunk = All(sunk)
  BY DEF Sunk, All

LEMMA RangeFacts ==
  ASSUME NEW q \in Seq(Nat)
  PROVE  /\ \A k : k \in Range(q) <=> \E i \in DOMAIN q : q[i] = k
         /\ Range(q) \subseteq Nat
  BY DEF Range

LEMMA AllFacts ==
  ASSUME NEW qq
  PROVE  \A k : k \in All(qq) <=> \E c \in DOMAIN qq : \E i \in DOMAIN qq[c] : qq[c][i] = k
  BY DEF All, Range

LEMMA ListOfAll ==
  ASSUME NEW qq, NEW c \in DOMAIN qq
  PROVE  Range(qq[c]) \subseteq All(qq)
  BY DEF All

LEMMA MessagesFacts ==
  ASSUME NEW q
  PROVE  \A k : k \in Messages(q) <=> \E j \in DOMAIN q : Carries(q[j], k)
  BY DEF Messages, Carries

LEMMA NoItems ==
  /\ Range(<<>>) = {} /\ Distinct(<<>>) /\ AllDistinct(<<>>) /\ All(<<>>) = {}
  /\ Messages(<<>>) = {} /\ Distinctly(<<>>)
  BY DEF Range, Distinct, AllDistinct, All, Messages, Distinctly

LEMMA RangeAppend ==
  ASSUME NEW q \in Seq(Nat), NEW k \in Nat, k \notin Range(q), Distinct(q)
  PROVE  /\ Append(q, k) \in Seq(Nat) /\ Distinct(Append(q, k))
         /\ Range(Append(q, k)) = Range(q) \cup {k}
  <1> DEFINE r == Append(q, k)
  <1>1. /\ r \in Seq(Nat) /\ DOMAIN q = 1..Len(q) /\ Len(q) \in Nat
        /\ \A i \in DOMAIN q : r[i] = q[i] /\ i \in DOMAIN r
        /\ r[Len(q) + 1] = k /\ Len(q) + 1 \in DOMAIN r
        /\ \A i \in DOMAIN r : i \in DOMAIN q \/ i = Len(q) + 1
    BY AppendOf
  <1> HIDE DEF r
  <1>2. \A i \in DOMAIN q : q[i] # k
    BY DEF Range
  <1>3. Distinct(r)
    BY <1>1, <1>2 DEF Distinct
  <1>4. Range(r) = Range(q) \cup {k}
    BY <1>1 DEF Range
  <1> QED
    BY <1>1, <1>3, <1>4 DEF r

LEMMA RangeConcat ==
  ASSUME NEW q \in Seq(Nat), NEW r \in Seq(Nat), Distinct(q), Distinct(r),
         Range(q) \cap Range(r) = {}
  PROVE  /\ q \o r \in Seq(Nat) /\ Distinct(q \o r)
         /\ Range(q \o r) = Range(q) \cup Range(r)
  <1>1. /\ q \o r \in Seq(Nat) /\ Len(q \o r) = Len(q) + Len(r)
        /\ Len(q) \in Nat /\ Len(r) \in Nat
        /\ DOMAIN q = 1..Len(q) /\ DOMAIN r = 1..Len(r)
        /\ DOMAIN (q \o r) = 1..(Len(q) + Len(r))
        /\ \A i \in 1..(Len(q) + Len(r)) :
             (q \o r)[i] = IF i <= Len(q) THEN q[i] ELSE r[i - Len(q)]
    BY ConcatProperties
  <1>2. PICK s : s = q \o r
    OBVIOUS
  <1>3. \A i \in DOMAIN s : \/ i \in DOMAIN q /\ s[i] = q[i]
                            \/ i - Len(q) \in DOMAIN r /\ s[i] = r[i - Len(q)] /\ i > Len(q)
    BY <1>1, <1>2
  <1>4. \A i \in DOMAIN q : i \in DOMAIN s /\ s[i] = q[i]
    BY <1>1, <1>2
  <1>5. \A i \in DOMAIN r : i + Len(q) \in DOMAIN s /\ s[i + Len(q)] = r[i]
    <2> TAKE i \in DOMAIN r
    <2>1. i + Len(q) \in 1..(Len(q) + Len(r)) /\ ~(i + Len(q) <= Len(q)) /\ (i + Len(q)) - Len(q) = i
      BY <1>1
    <2> QED
      BY <1>1, <1>2, <2>1
  <1>6. \A i \in DOMAIN q, j \in DOMAIN r : q[i] # r[j]
    BY DEF Range
  <1>7. Distinct(s)
    <2> SUFFICES ASSUME NEW i \in DOMAIN s, NEW j \in DOMAIN s, s[i] = s[j] PROVE i = j
      BY DEF Distinct
    <2>1. i \in Nat /\ j \in Nat
      BY <1>1, <1>2
    <2>2. CASE i \in DOMAIN q /\ j \in DOMAIN q
      BY <1>4, <2>2 DEF Distinct
    <2>3. CASE i \notin DOMAIN q /\ j \notin DOMAIN q
      <3>1. /\ i - Len(q) \in DOMAIN r /\ s[i] = r[i - Len(q)]
            /\ j - Len(q) \in DOMAIN r /\ s[j] = r[j - Len(q)]
        BY <1>3, <2>3
      <3>2. i - Len(q) = j - Len(q)
        BY <3>1 DEF Distinct
      <3> QED
        BY <3>2, <2>1, <1>1
    <2>4. CASE i \in DOMAIN q /\ j \notin DOMAIN q
      BY <1>3, <1>4, <1>6, <2>4
    <2>5. CASE i \notin DOMAIN q /\ j \in DOMAIN q
      BY <1>3, <1>4, <1>6, <2>5
    <2> QED
      BY <2>2, <2>3, <2>4, <2>5
  <1>8. Range(s) = Range(q) \cup Range(r)
    <2>1. \A k \in Range(s) : k \in Range(q) \cup Range(r)
      BY <1>3 DEF Range
    <2>2. \A k \in Range(q) \cup Range(r) : k \in Range(s)
      BY <1>4, <1>5 DEF Range
    <2> QED
      BY <2>1, <2>2
  <1> QED
    BY <1>1, <1>2, <1>7, <1>8

\* One more list of items.
LEMMA AllAppend ==
  ASSUME NEW qq \in Seq(Seq(Nat)), NEW q \in Seq(Nat), AllDistinct(qq), Distinct(q),
         All(qq) \cap Range(q) = {}
  PROVE  /\ Append(qq, q) \in Seq(Seq(Nat)) /\ AllDistinct(Append(qq, q))
         /\ All(Append(qq, q)) = All(qq) \cup Range(q)
         /\ Len(Append(qq, q)) = Len(qq) + 1
  <1> DEFINE r == Append(qq, q)
             n == Len(qq) + 1
  <1>1. /\ r \in Seq(Seq(Nat)) /\ Len(r) = Len(qq) + 1
        /\ \A i \in DOMAIN qq : r[i] = qq[i] /\ i \in DOMAIN r
        /\ r[n] = q /\ n \in DOMAIN r
        /\ \A i \in DOMAIN r : i \in DOMAIN qq \/ i = n
    BY AppendOf
  <1> HIDE DEF r, n
  <1>2. \A c \in DOMAIN qq : \A i \in DOMAIN qq[c], j \in DOMAIN q : qq[c][i] # q[j]
    BY AllFacts DEF Range
  <1>3. AllDistinct(r)
    <2> SUFFICES ASSUME NEW c \in DOMAIN r, NEW d \in DOMAIN r, NEW i \in DOMAIN r[c],
                        NEW j \in DOMAIN r[d], r[c][i] = r[d][j]
                 PROVE  c = d /\ i = j
      BY DEF AllDistinct
    <2>1. CASE c \in DOMAIN qq /\ d \in DOMAIN qq
      BY <1>1, <2>1 DEF AllDistinct
    <2>2. CASE c = n /\ d = n
      BY <1>1, <2>2 DEF Distinct
    <2>3. CASE c \in DOMAIN qq /\ d = n
      BY <1>1, <1>2, <2>3
    <2>4. CASE c = n /\ d \in DOMAIN qq
      BY <1>1, <1>2, <2>4
    <2> QED
      BY <1>1, <2>1, <2>2, <2>3, <2>4
  <1>4. All(r) = All(qq) \cup Range(q)
    <2>1. ASSUME NEW k \in All(r) PROVE k \in All(qq) \cup Range(q)
      <3>1. PICK c \in DOMAIN r : \E i \in DOMAIN r[c] : r[c][i] = k
        BY AllFacts
      <3>2. CASE c \in DOMAIN qq
        <4>1. r[c] = qq[c]
          BY <1>1, <3>2
        <4> QED
          BY <3>1, <3>2, <4>1, AllFacts
      <3>3. CASE c = n
        BY <1>1, <3>1, <3>3 DEF Range
      <3> QED
        BY <1>1, <3>2, <3>3
    <2>2. ASSUME NEW k \in All(qq) PROVE k \in All(r)
      <3>1. PICK c \in DOMAIN qq : \E i \in DOMAIN qq[c] : qq[c][i] = k
        BY AllFacts
      <3>2. c \in DOMAIN r /\ r[c] = qq[c]
        BY <1>1
      <3> QED
        BY <3>1, <3>2, AllFacts
    <2>3. ASSUME NEW k \in Range(q) PROVE k \in All(r)
      <3>1. PICK i \in DOMAIN q : q[i] = k
        BY DEF Range
      <3> QED
        BY <1>1, <3>1, AllFacts
    <2> QED
      BY <2>1, <2>2, <2>3
  <1> QED
    BY <1>1, <1>3, <1>4 DEF r

\* The first list of items is taken.
LEMMA AllTail ==
  ASSUME NEW qq \in Seq(Seq(Nat)), qq # <<>>, AllDistinct(qq)
  PROVE  /\ Tail(qq) \in Seq(Seq(Nat)) /\ AllDistinct(Tail(qq)) /\ Head(qq) \in Seq(Nat)
         /\ Distinct(Head(qq)) /\ All(qq) = Range(Head(qq)) \cup All(Tail(qq))
         /\ Range(Head(qq)) \cap All(Tail(qq)) = {}
  <1>1. /\ Tail(qq) \in Seq(Seq(Nat)) /\ Len(qq) \in Nat \ {0}
        /\ Head(qq) = qq[1] /\ qq[1] \in Seq(Nat) /\ DOMAIN qq = 1..Len(qq)
        /\ DOMAIN Tail(qq) = 1..(Len(qq) - 1)
        /\ \A i \in DOMAIN Tail(qq) : Tail(qq)[i] = qq[i + 1] /\ i + 1 \in DOMAIN qq
        /\ \A i \in DOMAIN qq : i # 1 => i - 1 \in DOMAIN Tail(qq) /\ Tail(qq)[i - 1] = qq[i]
    BY TailOf
  <1>2. PICK r, h : r = Tail(qq) /\ h = qq[1]
    OBVIOUS
  <1>3. 1 \in DOMAIN qq /\ \A i \in DOMAIN r : i \in Nat /\ i + 1 # 1
    BY <1>1, <1>2
  <1>4. \A i \in DOMAIN r : r[i] = qq[i + 1] /\ i + 1 \in DOMAIN qq
    BY <1>1, <1>2
  <1>5. AllDistinct(r)
    <2> SUFFICES ASSUME NEW c \in DOMAIN r, NEW d \in DOMAIN r, NEW i \in DOMAIN r[c],
                        NEW j \in DOMAIN r[d], r[c][i] = r[d][j]
                 PROVE  c = d /\ i = j
      BY DEF AllDistinct
    <2>1. /\ r[c] = qq[c + 1] /\ c + 1 \in DOMAIN qq
          /\ r[d] = qq[d + 1] /\ d + 1 \in DOMAIN qq /\ c \in Nat /\ d \in Nat
      BY <1>3, <1>4
    <2>2. c + 1 = d + 1 /\ i = j
      BY <2>1 DEF AllDistinct
    <2> QED
      BY <2>1, <2>2
  <1>6. Distinct(h)
    BY <1>2, <1>3 DEF AllDistinct, Distinct
  <1>7. \A k : k \in All(qq) <=> k \in Range(h) \cup All(r)
    <2> TAKE k
    <2>1. k \in All(qq) => k \in Range(h) \cup All(r)
      <3> SUFFICES ASSUME NEW c \in DOMAIN qq, NEW i \in DOMAIN qq[c], qq[c][i] = k
                   PROVE  k \in Range(h) \cup All(r)
        BY AllFacts
      <3>1. CASE c = 1
        BY <3>1, <1>2 DEF Range
      <3>2. CASE c # 1
        <4>1. c - 1 \in DOMAIN r /\ r[c - 1] = qq[c]
          BY <3>2, <1>1, <1>2
        <4> QED
          BY <4>1, AllFacts
      <3> QED
        BY <3>1, <3>2
    <2>2. k \in Range(h) => k \in All(qq)
      BY <1>2, <1>3, AllFacts DEF Range
    <2>3. ASSUME k \in All(r) PROVE k \in All(qq)
      <3>1. PICK c \in DOMAIN r : \E i \in DOMAIN r[c] : r[c][i] = k
        BY <2>3, AllFacts
      <3>2. c + 1 \in DOMAIN qq /\ r[c] = qq[c + 1]
        BY <1>4
      <3> QED
        BY <3>1, <3>2, AllFacts
    <2> QED
      BY <2>1, <2>2, <2>3
  <1>8. Range(h) \cap All(r) = {}
    <2> SUFFICES ASSUME NEW i \in DOMAIN h, NEW c \in DOMAIN r, NEW j \in DOMAIN r[c],
                        h[i] = r[c][j]
                 PROVE  FALSE
      BY AllFacts DEF Range
    <2>1. r[c] = qq[c + 1] /\ c + 1 \in DOMAIN qq /\ c + 1 # 1
      BY <1>3, <1>4
    <2> QED
      BY <2>1, <1>2, <1>3 DEF AllDistinct
  <1> QED
    BY <1>1, <1>2, <1>5, <1>6, <1>7, <1>8

\* Items are added to one of the lists.
LEMMA AllPut ==
  ASSUME NEW qq \in Seq(Seq(Nat)), NEW n \in DOMAIN qq, NEW q \in Seq(Nat), AllDistinct(qq),
         Distinct(q), All(qq) \cap Range(q) = {}
  PROVE  LET r == [qq EXCEPT ![n] = @ \o q]
         IN  /\ r \in Seq(Seq(Nat)) /\ Len(r) = Len(qq) /\ AllDistinct(r)
             /\ All(r) = All(qq) \cup Range(q)
  <1> DEFINE r == [qq EXCEPT ![n] = @ \o q]
  <1>1. /\ DOMAIN r = DOMAIN qq /\ r[n] = qq[n] \o q
        /\ \A c \in DOMAIN qq : c # n => r[c] = qq[c]
    OBVIOUS
  <1>2. qq[n] \in Seq(Nat) /\ Distinct(qq[n])
    BY DEF AllDistinct, Distinct
  <1>3. Range(qq[n]) \cap Range(q) = {}
    BY ListOfAll
  <1>4. qq[n] \o q \in Seq(Nat) /\ Distinct(qq[n] \o q)
        /\ Range(qq[n] \o q) = Range(qq[n]) \cup Range(q)
    BY <1>2, <1>3, RangeConcat
  <1>5. r \in Seq(Seq(Nat)) /\ Len(r) = Len(qq)
    BY <1>4
  <1> HIDE DEF r
  <1>6. \A c \in DOMAIN r \ {n} : \A i \in DOMAIN r[c], j \in DOMAIN r[n] : r[c][i] # r[n][j]
    <2> SUFFICES ASSUME NEW c \in DOMAIN r \ {n}, NEW i \in DOMAIN r[c], NEW j \in DOMAIN r[n],
                        r[c][i] = r[n][j]
                 PROVE  FALSE
      OBVIOUS
    <2>1. r[c] = qq[c] /\ c \in DOMAIN qq
      BY <1>1
    <2>2. r[n][j] \in Range(qq[n]) \cup Range(q)
      BY <1>1, <1>4 DEF Range
    <2>3. r[n][j] \notin Range(q)
      BY <2>1, AllFacts
    <2>4. r[n][j] \notin Range(qq[n])
      BY <2>1 DEF AllDistinct, Range
    <2> QED
      BY <2>2, <2>3, <2>4
  <1>7. AllDistinct(r)
    <2> SUFFICES ASSUME NEW c \in DOMAIN r, NEW d \in DOMAIN r, NEW i \in DOMAIN r[c],
                        NEW j \in DOMAIN r[d], r[c][i] = r[d][j]
                 PROVE  c = d /\ i = j
      BY DEF AllDistinct
    <2>1. CASE c # n /\ d # n
      <3>1. r[c] = qq[c] /\ r[d] = qq[d] /\ c \in DOMAIN qq /\ d \in DOMAIN qq
        BY <1>1, <2>1
      <3> QED
        BY <3>1 DEF AllDistinct
    <2>2. CASE c = n /\ d = n
      BY <1>1, <1>4, <2>2 DEF Distinct
    <2>3. CASE c = n /\ d # n
      BY <1>6, <2>3
    <2>4. CASE c # n /\ d = n
      BY <1>6, <2>4
    <2> QED
      BY <2>1, <2>2, <2>3, <2>4
  <1>8. ASSUME NEW k \in All(r) PROVE k \in All(qq) \cup Range(q)
    <2>1. PICK c \in DOMAIN r : \E i \in DOMAIN r[c] : r[c][i] = k
      BY AllFacts
    <2>2. CASE c # n
      <3>1. r[c] = qq[c] /\ c \in DOMAIN qq
        BY <1>1, <2>2
      <3> QED
        BY <2>1, <3>1, AllFacts
    <2>3. CASE c = n
      <3>1. k \in Range(qq[n]) \cup Range(q)
        BY <1>1, <1>4, <2>1, <2>3 DEF Range
      <3> QED
        BY <3>1, AllFacts DEF Range
    <2> QED
      BY <2>2, <2>3
  <1>9. ASSUME NEW k \in All(qq) PROVE k \in All(r)
    <2>1. PICK c \in DOMAIN qq : \E i \in DOMAIN qq[c] : qq[c][i] = k
      BY AllFacts
    <2>2. CASE c # n
      <3>1. r[c] = qq[c] /\ c \in DOMAIN r
        BY <1>1, <2>2
      <3> QED
        BY <2>1, <3>1, AllFacts
    <2>3. CASE c = n
      <3>1. k \in Range(qq[n])
        BY <2>1, <2>3, <1>2, RangeFacts
      <3>2. k \in Range(r[n]) /\ n \in DOMAIN r
        BY <1>1, <1>4, <3>1
      <3> QED
        BY <3>2, ListOfAll
    <2> QED
      BY <2>2, <2>3
  <1>10. ASSUME NEW k \in Range(q) PROVE k \in All(r)
    <2>1. k \in Range(r[n]) /\ n \in DOMAIN r
      BY <1>1, <1>4
    <2> QED
      BY <2>1, AllFacts DEF Range
  <1>11. All(r) = All(qq) \cup Range(q)
    BY <1>8, <1>9, <1>10
  <1> QED
    BY <1>5, <1>7, <1>11 DEF r

Moving(kept, moved, items) ==
    (kept = items /\ moved = <<>>) \/ (kept = <<>> /\ moved = items)

Moved(qq, n, kept, moved) == Append([qq EXCEPT ![n] = kept], moved)

\* One of the lists is moved to the end, or an empty one is added.
LEMMA AllMove ==
  ASSUME NEW qq \in Seq(Seq(Nat)), NEW n \in DOMAIN qq, AllDistinct(qq),
         NEW kept, NEW moved, Moving(kept, moved, qq[n])
  PROVE  LET r == Moved(qq, n, kept, moved)
         IN  /\ r \in Seq(Seq(Nat)) /\ Len(r) = Len(qq) + 1 /\ AllDistinct(r)
             /\ All(r) = All(qq)
  <1> USE DEF Moved
  <1> DEFINE p == [qq EXCEPT ![n] = kept]
  <1>1. kept \in Seq(Nat) /\ moved \in Seq(Nat) /\ Distinct(qq[n])
    <2>1. qq[n] \in Seq(Nat) /\ <<>> \in Seq(Nat)
      OBVIOUS
    <2>2. Distinct(qq[n])
      BY DEF AllDistinct, Distinct
    <2> QED
      BY <2>1, <2>2 DEF Moving
  <1>2. /\ p \in Seq(Seq(Nat)) /\ Len(p) = Len(qq) /\ DOMAIN p = DOMAIN qq /\ p[n] = kept
        /\ \A c \in DOMAIN qq : c # n => p[c] = qq[c]
    BY <1>1
  <1> HIDE DEF p
  <1>3. CASE kept = qq[n] /\ moved = <<>>
    <2>1. p = qq
      BY <1>3 DEF p
    <2>2. Distinct(moved) /\ Range(moved) = {}
      BY <1>3, NoItems
    <2> QED
      BY <2>1, <2>2, <1>1, AllAppend DEF p
  <1>4. CASE kept = <<>> /\ moved = qq[n]
    <2>1. DOMAIN p[n] = {}
      BY <1>2, <1>4
    <2>2. \A c \in DOMAIN p : \A i \in DOMAIN p[c] : c # n /\ p[c] = qq[c] /\ c \in DOMAIN qq
      BY <1>2, <2>1
    <2>3. AllDistinct(p)
      BY <2>2 DEF AllDistinct
    <2>4. All(p) \cap Range(moved) = {}
      <3> SUFFICES ASSUME NEW k \in All(p), k \in Range(moved) PROVE FALSE
        OBVIOUS
      <3>1. PICK c \in DOMAIN p : \E i \in DOMAIN p[c] : p[c][i] = k
        BY AllFacts
      <3> QED
        BY <3>1, <2>2, <1>4 DEF AllDistinct, Range
    <2>5. All(qq) = All(p) \cup Range(moved)
      <3>1. ASSUME NEW k \in All(qq) PROVE k \in All(p) \cup Range(moved)
        <4>1. PICK c \in DOMAIN qq : \E i \in DOMAIN qq[c] : qq[c][i] = k
          BY AllFacts
        <4>2. CASE c = n
          BY <4>1, <4>2, <1>4 DEF Range
        <4>3. CASE c # n
          <5>1. p[c] = qq[c] /\ c \in DOMAIN p
            BY <1>2, <4>3
          <5> QED
            BY <4>1, <5>1, AllFacts
        <4> QED
          BY <4>2, <4>3
      <3>2. ASSUME NEW k \in All(p) PROVE k \in All(qq)
        <4>1. PICK c \in DOMAIN p : \E i \in DOMAIN p[c] : p[c][i] = k
          BY AllFacts
        <4>2. p[c] = qq[c] /\ c \in DOMAIN qq
          BY <4>1, <2>2
        <4> QED
          BY <4>1, <4>2, AllFacts
      <3>3. Range(moved) \subseteq All(qq)
        BY <1>4, AllFacts DEF Range
      <3> QED
        BY <3>1, <3>2, <3>3
    <2> QED
      BY <1>1, <1>2, <1>4, <2>3, <2>4, <2>5, AllAppend DEF p
  <1> QED
    BY <1>3, <1>4 DEF Moving

LEMMA MessagesAppend ==
  ASSUME NEW q, q \in Seq(ToSet(q)), NEW c, Distinctly(q),
         c.op = "RecordMsg" => c.item \notin Messages(q)
  PROVE  /\ Distinctly(Append(q, c))
         /\ Messages(Append(q, c))
              = Messages(q) \cup (IF c.op = "RecordMsg" THEN {c.item} ELSE {})
  <1> DEFINE r == Append(q, c)
             n == Len(q) + 1
  <1>1. /\ \A i \in DOMAIN q : r[i] = q[i] /\ i \in DOMAIN r
        /\ r[n] = c /\ n \in DOMAIN r
        /\ \A i \in DOMAIN r : i \in DOMAIN q \/ i = n
    BY AppendAny
  <1> HIDE DEF r, n
  <1>2. c.op = "RecordMsg" => \A i \in DOMAIN q : q[i].op = "RecordMsg" => q[i].item # c.item
    BY DEF Messages
  <1>3. Distinctly(r)
    BY <1>1, <1>2 DEF Distinctly
  <1>4. Messages(r) = Messages(q) \cup (IF c.op = "RecordMsg" THEN {c.item} ELSE {})
    BY <1>1 DEF Messages
  <1> QED
    BY <1>3, <1>4 DEF r

LEMMA MessagesTail ==
  ASSUME NEW q, q \in Seq(ToSet(q)), q # <<>>, Distinctly(q)
  PROVE  /\ Distinctly(Tail(q))
         /\ Messages(q) = Messages(Tail(q))
                          \cup (IF Head(q).op = "RecordMsg" THEN {Head(q).item} ELSE {})
         /\ Head(q).op = "RecordMsg" => Head(q).item \notin Messages(Tail(q))
  <1>1. PICK r : r = Tail(q)
    OBVIOUS
  <1>2. /\ Head(q) = q[1] /\ 1 \in DOMAIN q
        /\ \A i \in DOMAIN r : r[i] = q[i + 1] /\ i + 1 \in DOMAIN q /\ i \in Nat \ {0}
        /\ \A i \in DOMAIN q : i # 1 => i - 1 \in DOMAIN r /\ r[i - 1] = q[i]
    BY <1>1, TailAny
  <1>3. Distinctly(r)
    <2> SUFFICES ASSUME NEW i \in DOMAIN r, NEW j \in DOMAIN r, r[i].op = "RecordMsg",
                        r[j].op = "RecordMsg", r[i].item = r[j].item
                 PROVE  i = j
      BY DEF Distinctly
    <2>1. i + 1 = j + 1
      BY <1>2 DEF Distinctly
    <2> QED
      BY <2>1, <1>2
  <1>4. \A k : k \in Messages(q) <=> (k \in Messages(r) \/ Carries(q[1], k))
    <2> TAKE k
    <2>1. ASSUME NEW i \in DOMAIN q, Carries(q[i], k), i # 1 PROVE k \in Messages(r)
      <3>1. i - 1 \in DOMAIN r /\ r[i - 1] = q[i]
        BY <1>2, <2>1
      <3> QED
        BY <3>1, <2>1, MessagesFacts
    <2>2. ASSUME NEW i \in DOMAIN r, Carries(r[i], k) PROVE k \in Messages(q)
      <3>1. i + 1 \in DOMAIN q /\ r[i] = q[i + 1]
        BY <1>2, <2>2
      <3> QED
        BY <3>1, <2>2, MessagesFacts
    <2>3. k \in Messages(q) => \E i \in DOMAIN q : Carries(q[i], k)
      BY MessagesFacts
    <2>4. k \in Messages(r) => \E i \in DOMAIN r : Carries(r[i], k)
      BY MessagesFacts
    <2>5. Carries(q[1], k) => k \in Messages(q)
      BY <1>2, MessagesFacts
    <2>6. k \in Messages(q) => (k \in Messages(r) \/ Carries(q[1], k))
      <3> SUFFICES ASSUME k \in Messages(q)
                   PROVE  k \in Messages(r) \/ Carries(q[1], k)
        OBVIOUS
      <3>0. PICK i \in DOMAIN q : Carries(q[i], k)
        BY <2>3
      <3>1. CASE i = 1
        BY <3>0, <3>1 DEF Carries
      <3>2. CASE i # 1
        BY <3>0, <3>2, <2>1
      <3> QED
        BY <3>1, <3>2
    <2> QED
      BY <2>2, <2>4, <2>5, <2>6
  <1>5. Head(q).op = "RecordMsg" => Head(q).item \notin Messages(r)
    <2> SUFFICES ASSUME q[1].op = "RecordMsg", NEW i \in DOMAIN r, Carries(r[i], q[1].item)
                 PROVE  FALSE
      BY <1>2, MessagesFacts
    <2>1. i + 1 \in DOMAIN q /\ r[i] = q[i + 1] /\ i + 1 # 1
      BY <1>2
    <2> QED
      BY <2>1, <1>2 DEF Carries, Distinctly
  <1>6. Messages(q) = Messages(r) \cup (IF Head(q).op = "RecordMsg" THEN {Head(q).item} ELSE {})
    <2>1. CASE q[1].op = "RecordMsg"
      BY <1>2, <1>4, <2>1 DEF Carries
    <2>2. CASE q[1].op # "RecordMsg"
      BY <1>2, <1>4, <2>2 DEF Carries
    <2> QED
      BY <2>1, <2>2
  <1> QED
    BY <1>1, <1>3, <1>5, <1>6

-----------------------------------------------------------------------------
\* The invariant, step by step

data == <<recorded, swaps, pending, chunks, cmds, forwarder, sink, sunk>>

\* A thread that is not past the batcher goes on with its call.
LEMMA TodoStep ==
  ASSUME StreamInv, NEW t \in Threads, NEW q, CallOK(q, t), Fresh(q), Plain(q),
         Plain(todo[t]), Fresh(todo[t]), todo' = [todo EXCEPT ![t] = q],
         Ends(q, "forwarder") <=> Dropping(t),
         q # <<>> => t \in strong \/ Dropping(t),
         UNCHANGED <<inner, strong, reply>>, UNCHANGED data
  PROVE  StreamInv'
  <1>1. /\ todo' = [u \in Threads |-> todo'[u]] /\ todo'[t] = q
        /\ \A u \in Threads \ {t} : todo'[u] = todo[u]
    BY DEF StreamInv, TypeInv
  <1>2. /\ \A u \in Threads : Dropping(u)' <=> Dropping(u)
        /\ ~Batched(t)' /\ ~Popped(t)' /\ ~Batched(t) /\ ~Popped(t)
        /\ \A u \in Threads \ {t} : (Batched(u)' <=> Batched(u)) /\ (Popped(u)' <=> Popped(u))
    BY <1>1, RankType DEF Dropping, Batched, Popped, Fresh
  <1>3. TypeInv'
    BY <1>1 DEF StreamInv, TypeInv, data
  <1>4. ~Batched(t) => t \notin reply /\ \A j \in DOMAIN cmds : ~Asks(cmds[j], t)
    <2>1. t \in reply => Ends(todo[t], "await") /\ Rank(todo[t][1]) = 6
      BY DEF StreamInv, AskInv
    <2>2. t \in Users => \A j \in DOMAIN cmds : Asks(cmds[j], t) => Popped(t)
      BY DEF StreamInv, AskInv
    <2>3. \A j \in DOMAIN cmds : Asks(cmds[j], t) => t \in Users
      BY StreamAssumption DEF StreamInv, TypeInv, CmdOK, Asks, Threads
    <2> QED
      BY <2>1, <2>2, <2>3, RankType DEF Batched, Popped, Waits
  <1>5. Dropping(t) => Rank(todo[t][1]) # 6
    BY DEF Fresh, Dropping, Waits
  <1>6. LifeInv'
    BY <1>1, <1>2, <1>5 DEF StreamInv, LifeInv, data
  <1>7. AskInv'
    <2>1. Users \subseteq Threads /\ reply \subseteq Users
      BY DEF Threads, StreamInv, TypeInv
    <2> QED
      BY <1>1, <1>2, <1>4, <2>1 DEF StreamInv, AskInv, data
  <1>8. \A u \in Threads : \A k : Sends(u, k)' <=> Sends(u, k)
    BY <1>1 DEF Sends, Carries, Plain
  <1>9. PlaceInv'
    <2>1. Called' = Called /\ Sunk' = Sunk
      BY <1>8 DEF Called, Sunk, data
    <2>2. \A u \in Threads : \A j \in DOMAIN todo'[u] :
            todo'[u][j].op = "send" /\ todo'[u][j].cmd.op = "RecordMsg" =>
              /\ u \in Importers /\ todo'[u][j].cmd.item \in DOMAIN recorded
              /\ recorded[todo'[u][j].cmd.item].by = u
      BY <1>1 DEF StreamInv, PlaceInv, Plain
    <2> QED
      BY <2>1, <2>2 DEF StreamInv, PlaceInv, data
  <1>10. AheadInv'
    <2>1. \A u \in Threads : \A k : Concerns(u, k)' <=> Concerns(u, k)
      BY <1>2 DEF Concerns, data
    <2>2. \A u \in Threads : \A c : AskOf(c, u)' <=> AskOf(c, u)
      BY <1>2 DEF AskOf
    <2>3. \A u \in Threads : PopAhead(u)' <=> PopAhead(u)
      BY <2>2 DEF PopAhead, data
    <2>4. AnsweredMeansRecorded' /\ Sunk' = Sunk
      BY DEF StreamInv, AheadInv, AnsweredMeansRecorded, Own, Sunk, data
    <2> QED
      BY <1>2, <2>1, <2>2, <2>3, <2>4 DEF StreamInv, AheadInv, data
  <1> QED
    BY <1>3, <1>6, <1>7, <1>9, <1>10 DEF StreamInv

\* Nothing that the invariant is about changes.
LEMMA StreamFrame ==
  ASSUME StreamInv, UNCHANGED <<todo, inner, strong, reply>>, UNCHANGED data
  PROVE  StreamInv'
  <1>1. TypeInv' /\ LifeInv'
    BY DEF StreamInv, TypeInv, LifeInv, Dropping, data
  <1>2. AskInv'
    BY DEF StreamInv, AskInv, Popped, data
  <1>3. PlaceInv'
    BY DEF StreamInv, PlaceInv, Called, Sends, Sunk, data
  <1>4. AheadInv'
    BY DEF StreamInv, AheadInv, Concerns, Dropping, Batched, Popped, PopAhead, AskOf, Sunk,
           AnsweredMeansRecorded, Own, data
  <1> QED
    BY <1>1, <1>2, <1>3, <1>4 DEF StreamInv

\* A user calls a function.
LEMMA CallInv ==
  ASSUME StreamInv, NEW u \in Users, NEW function, NEW q, CanCall(u, function),
         CallOK(q, u), Fresh(q), Plain(q), ~Ends(q, "forwarder"),
         todo' = [todo EXCEPT ![u] = q],
         UNCHANGED <<inner, strong, reply>>, UNCHANGED data
  PROVE  StreamInv'
  <1>1. u \in Threads /\ u \in strong /\ todo[u] = <<>>
    BY DEF CanCall, Threads
  <1>2. Plain(todo[u]) /\ Fresh(todo[u]) /\ ~Dropping(u)
    BY <1>1 DEF Plain, Fresh, Waits, Ends, Dropping
  <1> QED
    BY <1>1, <1>2, TodoStep

LEMMA CallsInv ==
  ASSUME StreamInv, NEW u \in Users,
         \/ InspectSink(u) \/ \E kind \in Kinds : SetSink(u, kind)
         \/ \E timeout \in {None, "finite", "max"} : Flush(u, timeout)
         \/ Disconnect(u) \/ FinalizeDeferredSinks(u) \/ DropStream(u)
         \/ \E i \in Importers : LogFile(u, i)
  PROVE  StreamInv'
  <1>1. \A q : Ends(q, "await") => ~Ends(q, "forwarder")
    BY DEF Ends
  <1>2. CASE InspectSink(u)
    <2>1. PICK q : q = <<Send([op |-> "InspectSink"])>>
      OBVIOUS
    <2>2. CallOK(q, u) /\ Fresh(q) /\ Plain(q) /\ ~Ends(q, "forwarder")
      BY <2>1, InspectCall DEF Waits
    <2>3. /\ CanCall(u, "inspect_sink") /\ todo' = [todo EXCEPT ![u] = q]
          /\ UNCHANGED <<inner, strong, reply>> /\ UNCHANGED data
      BY <1>2, <2>1 DEF InspectSink, Call, logged, pipeline, data
    <2> QED
      BY <2>2, <2>3, CallInv
  <1>3. ASSUME NEW kind \in Kinds, SetSink(u, kind) PROVE StreamInv'
    <2>1. PICK q : q = SetSinkSteps(u, kind)
      OBVIOUS
    <2>2. CallOK(q, u) /\ Fresh(q) /\ Plain(q) /\ ~Ends(q, "forwarder")
      BY <1>1, <2>1, SetSinkCall
    <2>3. /\ CanCall(u, "set_sink") /\ todo' = [todo EXCEPT ![u] = q]
          /\ UNCHANGED <<inner, strong, reply>> /\ UNCHANGED data
      BY <1>3, <2>1 DEF SetSink, Call, logged, pipeline, data
    <2> QED
      BY <2>2, <2>3, CallInv
  <1>4. ASSUME NEW timeout, Flush(u, timeout) PROVE StreamInv'
    <2>1. PICK q : q = FlushSteps(u, timeout)
      OBVIOUS
    <2>2. CallOK(q, u) /\ Fresh(q) /\ Plain(q) /\ ~Ends(q, "forwarder")
      BY <1>1, <2>1, FlushCall, FlushAsyncCall DEF Waits
    <2>3. /\ CanCall(u, "flush") /\ todo' = [todo EXCEPT ![u] = q]
          /\ UNCHANGED <<inner, strong, reply>> /\ UNCHANGED data
      BY <1>4, <2>1 DEF Flush, Call, logged, pipeline, data
    <2> QED
      BY <2>2, <2>3, CallInv
  <1>5. CASE Disconnect(u)
    <2>1. PICK q : q = DisconnectSteps(u)
      OBVIOUS
    <2>2. CallOK(q, u) /\ Fresh(q) /\ Plain(q) /\ ~Ends(q, "forwarder")
      BY <1>1, <2>1, DisconnectCall
    <2>3. /\ CanCall(u, "disconnect") /\ todo' = [todo EXCEPT ![u] = q]
          /\ UNCHANGED <<inner, strong, reply>> /\ UNCHANGED data
      BY <1>5, <2>1 DEF Disconnect, Call, logged, pipeline, data
    <2> QED
      BY <2>2, <2>3, CallInv
  <1>6. CASE FinalizeDeferredSinks(u)
    <2>1. PICK q : q = FinalizeSteps(u)
      OBVIOUS
    <2>2. CallOK(q, u) /\ Fresh(q) /\ Plain(q) /\ ~Ends(q, "forwarder")
      BY <1>1, <2>1, FinalizeCall
    <2>3. /\ CanCall(u, "finalize_deferred_sinks") /\ todo' = [todo EXCEPT ![u] = q]
          /\ UNCHANGED <<inner, strong, reply>> /\ UNCHANGED data
      BY <1>6, <2>1 DEF FinalizeDeferredSinks, Call, logged, pipeline, data
    <2> QED
      BY <2>2, <2>3, CallInv
  <1>7. CASE DropStream(u)
    <2>1. PICK q : q = DropSteps
      OBVIOUS
    <2>2. CallOK(q, u) /\ Fresh(q) /\ Plain(q) /\ ~Ends(q, "forwarder")
      BY <2>1, LastDropCall, OtherDropCall DEF Waits, DropSteps
    <2>3. /\ CanCall(u, "drop") /\ todo' = [todo EXCEPT ![u] = q]
          /\ UNCHANGED <<inner, strong, reply>> /\ UNCHANGED data
      BY <1>7, <2>1 DEF DropStream, life, logged, pipeline, data
    <2> QED
      BY <2>2, <2>3, CallInv
  <1>8. ASSUME NEW i \in Importers, LogFile(u, i) PROVE StreamInv'
    <2>1. PICK q : q = <<Register(i)>>
      OBVIOUS
    <2>2. CallOK(q, u) /\ Fresh(q) /\ Plain(q) /\ ~Ends(q, "forwarder")
      BY <2>1, RegisterCall DEF Waits
    <2>3. /\ CanCall(u, "log_file") /\ todo' = [todo EXCEPT ![u] = q]
          /\ UNCHANGED <<inner, strong, reply>> /\ UNCHANGED data
      BY <1>8, <2>1 DEF LogFile, life, logged, pipeline, data
    <2> QED
      BY <2>2, <2>3, CallInv
  <1> QED
    BY <1>2, <1>3, <1>4, <1>5, <1>6, <1>7, <1>8

\* What the next step of a call leaves.
LEMMA NextStep ==
  ASSUME StreamInv, NEW t \in Threads, todo[t] # <<>>
  PROVE  /\ CallOK(todo[t], t) /\ CallOK(Tail(todo[t]), t) /\ StepOK(todo[t][1], t)
         /\ Head(todo[t]) = todo[t][1] /\ 1 \in DOMAIN todo[t]
         /\ Plain(todo[t]) => Plain(Tail(todo[t]))
         /\ \A op : Ends(Tail(todo[t]), op) => Ends(todo[t], op)
         /\ \A op : Ends(todo[t], op) /\ todo[t][1].op # op => Ends(Tail(todo[t]), op)
         /\ t \in strong \/ Dropping(t)
  <1>1. CallOK(todo[t], t)
    BY DEF StreamInv, TypeInv
  <1>2. todo[t] \in Seq(ToSet(todo[t]))
    BY <1>1 DEF CallOK
  <1>3. PICK q, r : q = todo[t] /\ r = Tail(q)
    OBVIOUS
  <1>4. q \in Seq(ToSet(q)) /\ q # <<>>
    BY <1>2, <1>3
  <1>5. /\ Tail(q) \in Seq(ToSet(Tail(q))) /\ Len(Tail(q)) = Len(q) - 1
        /\ Len(q) \in Nat \ {0} /\ Head(q) = q[1] /\ DOMAIN q = 1..Len(q)
        /\ \A i \in DOMAIN Tail(q) : Tail(q)[i] = q[i + 1] /\ i + 1 \in DOMAIN q
    BY <1>4, TailAny
  <1>6. /\ Head(q) = q[1] /\ 1 \in DOMAIN q /\ Len(r) = Len(q) - 1 /\ Len(q) \in Nat \ {0}
        /\ r \in Seq(ToSet(r))
        /\ \A i \in DOMAIN r : r[i] = q[i + 1] /\ i + 1 \in DOMAIN q
    BY <1>5, <1>3
  <1>7. CallOK(r, t) /\ (r # <<>> => \A op : Ends(r, op) <=> Ends(q, op))
    BY <1>1, <1>3, CallTail
  <1>8. r = <<>> => Len(q) = 1
    BY <1>6
  <1>9. \A op : Ends(r, op) => r # <<>>
    BY DEF Ends
  <1>10. Plain(q) => Plain(r)
    BY <1>6 DEF Plain
  <1>11. \A op : Ends(q, op) /\ q[1].op # op => Ends(r, op)
    BY <1>7, <1>8 DEF Ends
  <1>12. t \in strong \/ Dropping(t)
    BY <1>3 DEF StreamInv, LifeInv
  <1>13. StepOK(q[1], t)
    BY <1>1, <1>3, <1>6 DEF CallOK
  <1> QED
    BY <1>1, <1>3, <1>6, <1>7, <1>9, <1>10, <1>11, <1>12, <1>13

\* Only an importer has a message to send, and it sends it first.
LEMMA PlainFacts ==
  ASSUME StreamInv, NEW t \in Threads, todo[t] # <<>>, Rank(todo[t][1]) # 5
  PROVE  Plain(todo[t])
  <1> SUFFICES ASSUME NEW j \in DOMAIN todo[t], todo[t][j].op = "send",
                      todo[t][j].cmd.op = "RecordMsg"
               PROVE  FALSE
    BY DEF Plain
  <1>1. t \in Importers /\ CallOK(todo[t], t) /\ 1 \in DOMAIN todo[t]
    BY NextStep DEF StreamInv, PlaceInv
  <1>2. Ends(todo[t], "release") /\ ~Ends(todo[t], "forwarder")
    BY <1>1 DEF CallOK, Ends
  <1>3. Rank(todo[t][1]) = 6
    BY <1>1, <1>2, RankType DEF CallOK
  <1>4. j = Len(todo[t]) /\ Len(todo[t]) = 1
    <2>1. Rank(todo[t][j]) = 5
      BY DEF Rank
    <2>2. 1 <= j
      BY <1>1 DEF CallOK
    <2>3. j # 1
      BY <1>3, <2>1
    <2> QED
      BY <1>1, <1>3, <2>1, <2>2, <2>3 DEF CallOK
  <1> QED
    BY <1>2, <1>4 DEF Ends

\* A step that is not past the batcher and sends no message.
LEMMA EarlyInv ==
  ASSUME StreamInv, NEW t \in Threads, todo[t] # <<>>,
         todo[t][1].op \in {"importers", "register"}, Continue(t),
         UNCHANGED <<inner, strong, reply>>, UNCHANGED data
  PROVE  StreamInv'
  <1>1. PICK q, r : q = todo[t] /\ r = Tail(q)
    OBVIOUS
  <1>2. Rank(q[1]) \in {1, 6} /\ (Rank(q[1]) = 6 => q[1].op = "register")
    BY <1>1 DEF Rank
  <1>3. /\ CallOK(q, t) /\ CallOK(r, t) /\ (t \in strong \/ Dropping(t))
        /\ Plain(q) /\ Plain(r) /\ (Ends(r, "forwarder") <=> Ends(q, "forwarder"))
    <2>1. Plain(todo[t])
      BY <1>1, <1>2, PlainFacts
    <2>2. /\ CallOK(todo[t], t) /\ CallOK(Tail(todo[t]), t) /\ (t \in strong \/ Dropping(t))
          /\ Plain(todo[t]) => Plain(Tail(todo[t]))
      BY NextStep
    <2>3. Ends(Tail(todo[t]), "forwarder") => Ends(todo[t], "forwarder")
      BY NextStep
    <2>4. todo[t][1].op # "forwarder" /\ Ends(todo[t], "forwarder")
            => Ends(Tail(todo[t]), "forwarder")
      BY NextStep
    <2> QED
      BY <1>1, <2>1, <2>2, <2>3, <2>4
  <1>4. Fresh(q) /\ Fresh(r)
    <2>1. CASE Rank(q[1]) = 6
      <3>1. Len(q) = 1 /\ r = <<>>
        BY <2>1, <1>1, <1>3, CallTail
      <3> QED
        BY <3>1, <2>1, <1>2 DEF Fresh, Waits, Ends
    <2>2. CASE Rank(q[1]) = 1
      <3>1. /\ Waits(r) => Waits(q)
            /\ Waits(q) => Rank(r[1]) = 2
        BY <2>2, <1>1, <1>3, CallTail, NextStep DEF Waits
      <3> QED
        BY <3>1, <2>2 DEF Fresh
    <2> QED
      BY <1>2, <2>1, <2>2
  <1>5. todo' = [todo EXCEPT ![t] = r]
    BY <1>1 DEF Continue
  <1> QED
    BY <1>1, <1>3, <1>4, <1>5, TodoStep DEF Dropping

LEMMA EarlyStepsInv ==
  ASSUME StreamInv, NEW t \in Threads, Take(t) \/ JoinImporters(t) \/ RegisterImporter(t)
  PROVE  StreamInv'
  <1>1. CASE Take(t)
    <2>1. UNCHANGED <<todo, inner, strong, reply>> /\ UNCHANGED data
      BY <1>1 DEF Take, life, logged, pipeline, data
    <2> QED
      BY <2>1, StreamFrame
  <1>2. CASE JoinImporters(t)
    <2>1. /\ todo[t] # <<>> /\ Head(todo[t]).op = "importers" /\ Continue(t)
          /\ UNCHANGED <<inner, strong, reply>> /\ UNCHANGED data
      BY <1>2 DEF JoinImporters, At, life, logged, pipeline, data
    <2> QED
      BY <2>1, NextStep, EarlyInv
  <1>3. CASE RegisterImporter(t)
    <2>1. /\ todo[t] # <<>> /\ Head(todo[t]).op = "register" /\ Continue(t)
          /\ UNCHANGED <<inner, strong, reply>> /\ UNCHANGED data
      BY <1>3 DEF RegisterImporter, At, life, logged, pipeline, data
    <2> QED
      BY <2>1, NextStep, EarlyInv
  <1> QED
    BY <1>1, <1>2, <1>3

LEMMA EndOfFileInv ==
  ASSUME StreamInv, NEW i \in Importers, EndOfFile(i)
  PROVE  StreamInv'
  <1>1. UNCHANGED <<todo, inner, strong, reply>> /\ UNCHANGED data
    BY DEF EndOfFile, life, logged, pipeline, data
  <1> QED
    BY <1>1, StreamFrame

\* The steps of a thread.
LEMMA ThreadTypes ==
  /\ Users \subseteq Threads /\ Importers \subseteq Threads /\ None \notin Threads
  /\ IsFiniteSet(Threads) /\ Users \cap Importers = {} /\ Threads = Users \cup Importers
  BY StreamAssumption, FS_Union DEF Threads

LEMMA AskerFacts ==
  ASSUME StreamInv
  PROVE  /\ \A j \in DOMAIN cmds : CmdOK(cmds[j])
         /\ \A t \in Threads : \A j \in DOMAIN cmds : Asks(cmds[j], t) => t \in Users
         /\ reply \subseteq Users /\ reply \subseteq Threads
  BY ThreadTypes DEF StreamInv, TypeInv, CmdOK, Asks

\* The last step of a call.
LEMMA EndStep ==
  ASSUME StreamInv, NEW t \in Threads, todo' = [todo EXCEPT ![t] = <<>>],
         Plain(todo[t]), strong' \subseteq strong, strong \subseteq strong' \cup {t},
         reply' = reply \ {t},
         inner' = inner \/ (Dropping(t) /\ inner' \in {"dropped", "panicked"}),
         ~(\E j \in DOMAIN cmds : cmds[j].op = "Shutdown" /\ Dropping(t)),
         cmds' = [k \in DOMAIN cmds |-> cmds'[k]],
         \A k \in DOMAIN cmds :
           \/ cmds'[k] = cmds[k] /\ ~Asks(cmds[k], t)
           \/ cmds[k].op = "Flush" /\ cmds'[k].op = "Flush" /\ cmds'[k].by = None,
         UNCHANGED <<recorded, swaps, pending, chunks, forwarder, sink, sunk>>
  PROVE  StreamInv'
  <1>1. /\ todo' = [u \in Threads |-> todo'[u]] /\ todo'[t] = <<>>
        /\ \A u \in Threads \ {t} : todo'[u] = todo[u]
    BY DEF StreamInv, TypeInv
  <1>2. DOMAIN cmds' = DOMAIN cmds
    OBVIOUS
  <1>3. \A u \in Threads : \A k \in DOMAIN cmds : Asks(cmds'[k], u) => u # t /\ Asks(cmds[k], u) /\ cmds'[k] = cmds[k]
    BY ThreadTypes DEF Asks
  <1>4. \A k \in DOMAIN cmds : cmds'[k].op = cmds[k].op
    OBVIOUS
  <1>5. ~Dropping(t)' /\ ~Batched(t)' /\ ~Popped(t)'
    BY <1>1 DEF Dropping, Batched, Popped, Waits, Ends
  <1>6. \A u \in Threads \ {t} : /\ Dropping(u)' <=> Dropping(u)
                                 /\ Batched(u)' <=> Batched(u)
                                 /\ Popped(u)' <=> Popped(u)
    BY <1>1 DEF Dropping, Batched, Popped
  <1>7. TypeInv'
    <2>1. cmds' \in Seq(ToSet(cmds')) /\ \A k \in DOMAIN cmds' : CmdOK(cmds'[k])
      <3>1. cmds \in Seq(ToSet(cmds)) /\ \A k \in DOMAIN cmds : CmdOK(cmds[k])
        BY DEF StreamInv, TypeInv
      <3>2. \A k \in DOMAIN cmds : CmdOK(cmds'[k])
        BY <3>1 DEF CmdOK, CmdOps
      <3>3. PICK c : c = cmds'
        OBVIOUS
      <3>4. DOMAIN c = 1..Len(cmds) /\ Len(cmds) \in Nat /\ c = [k \in DOMAIN c |-> c[k]]
        BY <3>1, <3>3
      <3>5. \A k \in DOMAIN c : c[k] \in ToSet(c)
        BY DEF ToSet
      <3>6. c \in Seq(ToSet(c))
        BY <3>4, <3>5
      <3> QED
        BY <3>2, <3>3, <3>6, <1>2
    <2>2. \A u \in Threads : CallOK(todo'[u], u)
      BY <1>1, EmptyCall DEF StreamInv, TypeInv
    <2> QED
      BY <1>1, <2>1, <2>2 DEF StreamInv, TypeInv
  <1>8. LifeInv'
    <2>1. inner' # inner => strong = {} /\ \A u \in Threads : Dropping(u) => u = t
      BY DEF StreamInv, LifeInv
    <2>2. strong' # {} => inner' = "alive"
      BY <2>1 DEF StreamInv, LifeInv
    <2>3. \A u \in Threads : todo'[u] # <<>> /\ ~Dropping(u)' => u \in strong'
      BY <1>1, <1>6 DEF StreamInv, LifeInv
    <2>4. \A u \in Threads : Dropping(u)' => inner' = "dropping"
      BY <2>1, <1>5, <1>6 DEF StreamInv, LifeInv
    <2>5. \A v, u \in Threads : Dropping(v)' /\ Dropping(u)' => v = u
      BY <1>5, <1>6 DEF StreamInv, LifeInv
    <2>6. \A u \in Threads : Dropping(u)' /\ forwarder' = "done" => Rank(todo'[u][1]) = 6
      BY <1>1, <1>5, <1>6 DEF StreamInv, LifeInv
    <2>7. \A j \in DOMAIN cmds' : cmds'[j].op = "Shutdown" =>
            /\ forwarder' # "done"
            /\ \E u \in Threads : Dropping(u)' /\ Rank(todo'[u][1]) = 6
            /\ \A i \in DOMAIN cmds' : cmds'[i].op = "Shutdown" => i = j
      <3> SUFFICES ASSUME NEW j \in DOMAIN cmds, cmds[j].op = "Shutdown"
                   PROVE  /\ forwarder' # "done"
                          /\ \E u \in Threads : Dropping(u)' /\ Rank(todo'[u][1]) = 6
                          /\ \A i \in DOMAIN cmds' : cmds'[i].op = "Shutdown" => i = j
        BY <1>2, <1>4
      <3>1. PICK u \in Threads : Dropping(u) /\ Rank(todo[u][1]) = 6
        BY DEF StreamInv, LifeInv
      <3>2. u # t
        BY <3>1
      <3>3. Dropping(u)' /\ Rank(todo'[u][1]) = 6
        BY <3>1, <3>2, <1>1, <1>6
      <3> QED
        BY <3>3, <1>2, <1>4 DEF StreamInv, LifeInv
    <2>8. forwarder' = "done" => inner' # "alive"
      BY DEF StreamInv, LifeInv
    <2> QED
      BY <2>2, <2>3, <2>4, <2>5, <2>6, <2>7, <2>8 DEF LifeInv
  <1>9. AskInv'
    <2>1. \A u \in Users : \A j \in DOMAIN cmds' : Asks(cmds'[j], u) =>
            /\ Popped(u)' /\ Ends(todo'[u], "await")
            /\ u \notin reply'
            /\ todo'[u][Len(todo'[u])].timeout => cmds'[j].op = "Flush"
            /\ Answered(cmds'[j], u) =>
                 Rank(todo'[u][1]) = 6 /\ \A i \in DOMAIN cmds' : Asks(cmds'[i], u) => i <= j
      <3> SUFFICES ASSUME NEW u \in Users, NEW j \in DOMAIN cmds', Asks(cmds'[j], u)
                   PROVE  /\ Popped(u)' /\ Ends(todo'[u], "await")
                          /\ u \notin reply'
                          /\ todo'[u][Len(todo'[u])].timeout => cmds'[j].op = "Flush"
                          /\ Answered(cmds'[j], u) =>
                               /\ Rank(todo'[u][1]) = 6
                               /\ \A i \in DOMAIN cmds' : Asks(cmds'[i], u) => i <= j
        OBVIOUS
      <3>1. u \in Threads /\ u # t /\ Asks(cmds[j], u) /\ cmds'[j] = cmds[j] /\ todo'[u] = todo[u]
            /\ j \in DOMAIN cmds
        BY <1>1, <1>2, <1>3, ThreadTypes
      <3>2. /\ Popped(u) /\ Ends(todo[u], "await")
            /\ u \notin reply
            /\ todo[u][Len(todo[u])].timeout => cmds[j].op = "Flush"
            /\ Answered(cmds[j], u) =>
                 Rank(todo[u][1]) = 6 /\ \A i \in DOMAIN cmds : Asks(cmds[i], u) => i <= j
        BY <3>1 DEF StreamInv, AskInv
      <3>3. \A i \in DOMAIN cmds' : Asks(cmds'[i], u) => i \in DOMAIN cmds /\ Asks(cmds[i], u)
        BY <1>2, <1>3, <3>1
      <3> QED
        BY <3>1, <3>2, <3>3, <1>6
    <2>2. \A u \in reply' : Ends(todo'[u], "await") /\ Rank(todo'[u][1]) = 6
      BY <1>1, AskerFacts DEF StreamInv, AskInv
    <2> QED
      BY <2>1, <2>2 DEF AskInv
  <1>10. \A u \in Threads : \A k : Sends(u, k)' <=> Sends(u, k)
    <2>1. \A k : ~Sends(t, k) /\ ~Sends(t, k)'
      BY <1>1 DEF Sends, Plain, Carries
    <2> QED
      BY <1>1, <2>1 DEF Sends
  <1>11. PlaceInv'
    <2>1. Called' = Called /\ Sunk' = Sunk
      BY <1>10 DEF Called, Sunk
    <2>2. \A u \in Threads : \A j \in DOMAIN todo'[u] :
            todo'[u][j].op = "send" /\ todo'[u][j].cmd.op = "RecordMsg" =>
              /\ u \in Importers /\ todo'[u][j].cmd.item \in DOMAIN recorded
              /\ recorded[todo'[u][j].cmd.item].by = u
      BY <1>1 DEF StreamInv, PlaceInv
    <2>3. \A k \in DOMAIN cmds : cmds[k].op = "RecordMsg" \/ cmds'[k].op = "RecordMsg" => cmds'[k] = cmds[k]
      OBVIOUS
    <2>4. Messages(cmds') = Messages(cmds) /\ Distinctly(cmds')
      BY <1>2, <2>3 DEF StreamInv, PlaceInv, Messages, Distinctly
    <2> QED
      BY <2>1, <2>2, <2>4 DEF StreamInv, PlaceInv
  <1>12. AheadInv'
    <2>1. \A u \in Threads \ {t} : \A k : Concerns(u, k)' <=> Concerns(u, k)
      BY <1>6 DEF Concerns
    <2>2. \A u \in Threads : \A k \in DOMAIN cmds : AskOf(cmds[k], u)' => u # t /\ AskOf(cmds[k], u)
      BY <1>3, <1>4, <1>5, <1>6 DEF AskOf
    <2>3. \A u \in Threads \ {t} : PopAhead(u) => PopAhead(u)'
      <3> SUFFICES ASSUME NEW u \in Threads \ {t}, PopAhead(u) PROVE PopAhead(u)'
        OBVIOUS
      <3>1. PICK i \in DOMAIN cmds : cmds[i].op = "PopPendingChunks"
                           /\ \A j \in DOMAIN cmds : AskOf(cmds[j], u) => i < j
        BY DEF PopAhead
      <3> QED
        BY <3>1, <1>2, <1>4, <2>2 DEF PopAhead
    <2>4. AnsweredMeansRecorded' /\ Sunk' = Sunk
      BY DEF StreamInv, AheadInv, AnsweredMeansRecorded, Own, Sunk
    <2>5. \A i \in DOMAIN cmds : \A k : Carries(cmds'[i], k) => Carries(cmds[i], k)
      BY DEF Carries
    <2>6. forwarder' = "done" /\ inner' # "panicked" => Sunk' = DOMAIN recorded'
      BY <2>4 DEF StreamInv, AheadInv, LifeInv
    <2>7. \A u \in Threads : \A k \in DOMAIN recorded' : Concerns(u, k)' =>
            /\ Batched(u)' => k \notin Range(pending')
            /\ Popped(u)' /\ k \in All(chunks') => forwarder' = "drain" \/ PopAhead(u)'
            /\ \A i, j \in DOMAIN cmds' : Carries(cmds'[i], k) /\ AskOf(cmds[j], u)' => i < j
      BY <1>2, <1>5, <1>6, <2>1, <2>2, <2>3, <2>5 DEF StreamInv, AheadInv
    <2> QED
      BY <2>4, <2>6, <2>7 DEF AheadInv
  <1> QED
    BY <1>7, <1>8, <1>9, <1>11, <1>12 DEF StreamInv

LEMMA LastStep ==
  ASSUME StreamInv, NEW t \in Threads, todo[t] # <<>>, Rank(todo[t][1]) = 6
  PROVE  /\ Tail(todo[t]) = <<>> /\ Len(todo[t]) = 1 /\ Plain(todo[t])
         /\ Head(todo[t]) = todo[t][1]
         /\ \A op : Ends(todo[t], op) <=> todo[t][1].op = op
  <1>1. CallOK(todo[t], t) /\ Head(todo[t]) = todo[t][1]
    BY NextStep
  <1>2. Tail(todo[t]) = <<>> /\ Len(todo[t]) = 1
    BY <1>1, CallTail
  <1> QED
    BY <1>1, <1>2, PlainFacts DEF Ends

\* A thread that does not wait for the forwarding thread has asked nothing of it.
LEMMA NotAsking ==
  ASSUME StreamInv, NEW t \in Threads, ~Ends(todo[t], "await")
  PROVE  t \notin reply /\ \A j \in DOMAIN cmds : ~Asks(cmds[j], t)
  BY AskerFacts DEF StreamInv, AskInv

LEMMA SameCmds ==
  ASSUME StreamInv, cmds' = cmds
  PROVE  cmds' = [k \in DOMAIN cmds |-> cmds'[k]]
  <1>1. cmds \in Seq(ToSet(cmds))
    BY DEF StreamInv, TypeInv
  <1> QED
    BY <1>1

LEMMA AwaitReplyInv ==
  ASSUME StreamInv, NEW u \in Users, AwaitReply(u)
  PROVE  StreamInv'
  <1>1. u \in Threads /\ todo[u] # <<>> /\ Head(todo[u]).op = "await" /\ u \in reply
    BY ThreadTypes DEF AwaitReply, At
  <1>2. todo[u][1].op = "await" /\ Rank(todo[u][1]) = 6
    BY <1>1, NextStep DEF Rank
  <1>3. Tail(todo[u]) = <<>> /\ Plain(todo[u]) /\ ~Dropping(u)
    BY <1>1, <1>2, LastStep DEF Dropping
  <1>4. \A j \in DOMAIN cmds : ~Asks(cmds[j], u)
    BY <1>1 DEF StreamInv, AskInv
  <1>5. todo' = [todo EXCEPT ![u] = <<>>]
    BY <1>3 DEF AwaitReply, Continue
  <1>6. /\ UNCHANGED <<inner, strong>> /\ reply' = reply \ {u} /\ cmds' = cmds
        /\ UNCHANGED <<recorded, swaps, pending, chunks, forwarder, sink, sunk>>
    BY DEF AwaitReply, life, logged, pipeline
  <1>7. cmds' = [k \in DOMAIN cmds |-> cmds'[k]]
    BY <1>6, SameCmds
  <1> QED
    BY <1>1, <1>3, <1>4, <1>5, <1>6, <1>7, EndStep

LEMMA TimeoutInv ==
  ASSUME StreamInv, NEW u \in Users, Timeout(u)
  PROVE  StreamInv'
  <1>1. u \in Threads /\ todo[u] # <<>> /\ Head(todo[u]).op = "await" /\ Head(todo[u]).timeout
    BY ThreadTypes DEF Timeout, At
  <1>2. todo[u][1].op = "await" /\ Rank(todo[u][1]) = 6
    BY <1>1, NextStep DEF Rank
  <1>3. Tail(todo[u]) = <<>> /\ Plain(todo[u]) /\ ~Dropping(u) /\ todo[u][Len(todo[u])].timeout
    BY <1>1, <1>2, LastStep DEF Dropping
  <1>4. \A j \in DOMAIN cmds : Asks(cmds[j], u) => cmds[j].op = "Flush"
    BY <1>3 DEF StreamInv, AskInv
  <1>5. todo' = [todo EXCEPT ![u] = <<>>]
    BY <1>3 DEF Timeout, Continue
  <1>6. /\ UNCHANGED <<inner, strong>> /\ reply' = reply \ {u}
        /\ UNCHANGED <<recorded, swaps, pending, chunks, forwarder, sink, sunk>>
    BY DEF Timeout, life, logged
  <1>7. cmds' = [k \in DOMAIN cmds |-> cmds'[k]]
    BY DEF Timeout
  <1>8. \A k \in DOMAIN cmds :
           \/ cmds'[k] = cmds[k] /\ ~Asks(cmds[k], u)
           \/ cmds[k].op = "Flush" /\ cmds'[k].op = "Flush" /\ cmds'[k].by = None
    <2> TAKE k \in DOMAIN cmds
    <2>1. cmds'[k] = IF cmds[k].op = "Flush" /\ cmds[k].by = u
                       THEN [op |-> "Flush", by |-> None] ELSE cmds[k]
      BY DEF Timeout
    <2> QED
      BY <2>1, <1>4 DEF Asks
  <1> QED
    BY <1>1, <1>3, <1>5, <1>6, <1>7, <1>8, EndStep

LEMMA JoinForwarderInv ==
  ASSUME StreamInv, NEW t \in Threads, JoinForwardingThread(t)
  PROVE  StreamInv'
  <1>1. todo[t] # <<>> /\ Head(todo[t]).op = "forwarder" /\ forwarder = "done"
    BY DEF JoinForwardingThread, At
  <1>2. todo[t][1].op = "forwarder" /\ Rank(todo[t][1]) = 6
    BY <1>1, NextStep DEF Rank
  <1>3. Tail(todo[t]) = <<>> /\ Plain(todo[t]) /\ Dropping(t) /\ ~Ends(todo[t], "await")
    BY <1>1, <1>2, LastStep DEF Dropping
  <1>4. t \notin reply /\ \A j \in DOMAIN cmds : ~Asks(cmds[j], t)
    BY <1>3, NotAsking
  <1>5. ~(\E j \in DOMAIN cmds : cmds[j].op = "Shutdown")
    BY <1>1 DEF StreamInv, LifeInv
  <1>6. todo' = [todo EXCEPT ![t] = <<>>]
    BY <1>3 DEF JoinForwardingThread, Continue
  <1>7. /\ inner' = "dropped" /\ strong' = strong /\ reply' = reply \ {t} /\ cmds' = cmds
        /\ UNCHANGED <<recorded, swaps, pending, chunks, forwarder, sink, sunk>>
    BY <1>4 DEF JoinForwardingThread, logged, pipeline
  <1>8. cmds' = [k \in DOMAIN cmds |-> cmds'[k]]
    BY <1>7, SameCmds
  <1> QED
    BY <1>3, <1>4, <1>5, <1>6, <1>7, <1>8, EndStep

LEMMA JoinItselfInv ==
  ASSUME StreamInv, NEW i \in Importers, JoinItself(i)
  PROVE  StreamInv'
  <1>1. i \in Threads /\ todo[i] # <<>> /\ Head(todo[i]).op = "importers"
    BY ThreadTypes DEF JoinItself, At
  <1>2. todo[i][1].op = "importers" /\ Rank(todo[i][1]) = 1 /\ CallOK(todo[i], i) /\ 1 \in DOMAIN todo[i]
    BY <1>1, NextStep DEF Rank
  <1>3. Dropping(i) /\ Plain(todo[i]) /\ ~Ends(todo[i], "await")
    BY <1>1, <1>2, PlainFacts DEF Dropping, CallOK, Ends
  <1>4. i \notin reply /\ \A j \in DOMAIN cmds : ~Asks(cmds[j], i)
    BY <1>1, <1>3, NotAsking
  <1>5. ~(\E j \in DOMAIN cmds : cmds[j].op = "Shutdown")
    <2> SUFFICES ASSUME NEW j \in DOMAIN cmds, cmds[j].op = "Shutdown" PROVE FALSE
      OBVIOUS
    <2>1. PICK t \in Threads : Dropping(t) /\ Rank(todo[t][1]) = 6
      BY DEF StreamInv, LifeInv
    <2>2. t = i
      BY <1>1, <1>3, <2>1 DEF StreamInv, LifeInv
    <2> QED
      BY <1>2, <2>1, <2>2
  <1>6. CASE inner' = "panicked" /\ todo' = [todo EXCEPT ![i] = <<>>]
    <2>1. /\ strong' = strong /\ reply' = reply \ {i} /\ cmds' = cmds
          /\ UNCHANGED <<recorded, swaps, pending, chunks, forwarder, sink, sunk>>
      BY <1>4 DEF JoinItself, logged, pipeline
    <2>2. cmds' = [k \in DOMAIN cmds |-> cmds'[k]]
      BY <2>1, SameCmds
    <2> QED
      BY <1>1, <1>3, <1>4, <1>5, <1>6, <2>1, <2>2, EndStep
  <1>7. CASE UNCHANGED <<inner, todo>>
    <2>1. UNCHANGED <<todo, inner, strong, reply>> /\ UNCHANGED data
      BY <1>7 DEF JoinItself, logged, pipeline, data
    <2> QED
      BY <2>1, StreamFrame
  <1> QED
    BY <1>6, <1>7 DEF JoinItself

LEMMA ReleaseInv ==
  ASSUME StreamInv, NEW t \in Threads, ReleaseHandle(t)
  PROVE  StreamInv'
  <1>1. todo[t] # <<>> /\ Head(todo[t]).op = "release"
    BY DEF ReleaseHandle, At
  <1>2. todo[t][1].op = "release" /\ Rank(todo[t][1]) = 6
    BY <1>1, NextStep DEF Rank
  <1>3. /\ Tail(todo[t]) = <<>> /\ Plain(todo[t]) /\ ~Dropping(t)
        /\ ~Ends(todo[t], "await") /\ ~Waits(todo[t])
    BY <1>1, <1>2, LastStep DEF Dropping, Waits
  <1>4. t \notin reply /\ \A j \in DOMAIN cmds : ~Asks(cmds[j], t)
    BY <1>3, NotAsking
  <1>5. t \in strong /\ inner = "alive"
    BY <1>1, <1>3 DEF StreamInv, LifeInv
  <1>6. UNCHANGED reply /\ UNCHANGED data /\ strong' = strong \ {t}
    BY DEF ReleaseHandle, logged, pipeline, data
  <1>7. CASE StrongCount # 1
    <2>1. todo' = [todo EXCEPT ![t] = <<>>] /\ inner' = inner
      BY <1>7, <1>3 DEF ReleaseHandle, Continue
    <2>2. cmds' = [k \in DOMAIN cmds |-> cmds'[k]] /\ cmds' = cmds /\ reply' = reply \ {t}
      BY <1>4, <1>6, SameCmds DEF data
    <2> QED
      BY <1>3, <1>4, <1>6, <2>1, <2>2, EndStep DEF data
  <1>8. CASE StrongCount = 1
    <2>1. strong = {t}
      <3>1. IsFiniteSet(strong) /\ Cardinality(strong) \in Nat
        BY ThreadTypes, FS_Subset, FS_CardinalityType DEF StreamInv, TypeInv
      <3>2. Cardinality(strong) <= 1
        BY <3>1, <1>8 DEF StrongCount
      <3>3. IsFiniteSet({t}) /\ Cardinality({t}) = 1
        BY FS_Singleton
      <3>4. {t} \subseteq strong
        BY <1>5
      <3> QED
        BY <3>1, <3>2, <3>3, <3>4, FS_Subset
    <2>2. PICK q : q = DropInnerSteps
      OBVIOUS
    <2>3. CallOK(q, t) /\ Fresh(q) /\ Plain(q) /\ Ends(q, "forwarder")
      BY <2>2, DropInnerCall
    <2>4. todo' = [todo EXCEPT ![t] = q] /\ inner' = "dropping" /\ strong' = {}
      BY <1>6, <1>8, <2>1, <2>2 DEF ReleaseHandle
    <2>5. \A u \in Threads : ~Dropping(u)
      BY <1>5 DEF StreamInv, LifeInv
    <2>6. forwarder # "done" /\ ~(\E j \in DOMAIN cmds : cmds[j].op = "Shutdown")
      BY <1>5, <2>5 DEF StreamInv, LifeInv
    <2>7. /\ todo' = [u \in Threads |-> todo'[u]] /\ todo'[t] = q
          /\ \A u \in Threads \ {t} : todo'[u] = todo[u]
      BY <2>4 DEF StreamInv, TypeInv
    <2>8. \A u \in Threads : Dropping(u)' <=> u = t
      BY <2>3, <2>5, <2>7 DEF Dropping
    <2>9. /\ \A u \in Threads : (Batched(u)' <=> Batched(u)) /\ (Popped(u)' <=> Popped(u))
          /\ ~Batched(t) /\ ~Popped(t)
      BY <1>3, <2>3, <2>7 DEF Batched, Popped, Fresh
    <2>10. TypeInv'
      BY <1>6, <2>3, <2>4, <2>7 DEF StreamInv, TypeInv, data
    <2>11. LifeInv'
      <3>1. \A u \in Threads : todo'[u] # <<>> => u = t
        BY <2>1, <2>5, <2>7 DEF StreamInv, LifeInv
      <3> QED
        BY <1>6, <2>4, <2>6, <2>8, <3>1 DEF LifeInv, data
    <2>12. AskInv'
      BY <1>4, <1>6, <2>7, <2>9, AskerFacts, ThreadTypes DEF StreamInv, AskInv, data
    <2>13. \A u \in Threads : \A k : Sends(u, k)' <=> Sends(u, k)
      BY <1>3, <2>3, <2>7 DEF Sends, Carries, Plain
    <2>14. PlaceInv'
      <3>1. Called' = Called /\ Sunk' = Sunk
        BY <1>6, <2>13 DEF Called, Sunk, data
      <3>2. \A u \in Threads : \A j \in DOMAIN todo'[u] :
              todo'[u][j].op = "send" /\ todo'[u][j].cmd.op = "RecordMsg" =>
                /\ u \in Importers /\ todo'[u][j].cmd.item \in DOMAIN recorded
                /\ recorded[todo'[u][j].cmd.item].by = u
        BY <2>3, <2>7 DEF StreamInv, PlaceInv, Plain
      <3> QED
        BY <1>6, <3>1, <3>2 DEF StreamInv, PlaceInv, data
    <2>15. AheadInv'
      <3>1. \A u \in Threads \ {t} : \A k : Concerns(u, k)' <=> Concerns(u, k)
        BY <1>6, <2>5, <2>8 DEF Concerns, data
      <3>2. \A u \in Threads : \A j \in DOMAIN cmds : AskOf(cmds[j], u)' <=> AskOf(cmds[j], u)
        BY <1>6, <2>6 DEF AskOf, data
      <3>3. \A j \in DOMAIN cmds : ~AskOf(cmds[j], t)
        BY <1>4, <2>6 DEF AskOf
      <3>4. \A u \in Threads : PopAhead(u) => PopAhead(u)'
        BY <1>6, <3>2 DEF PopAhead, data
      <3>5. AnsweredMeansRecorded' /\ Sunk' = Sunk
        BY <1>6 DEF StreamInv, AheadInv, AnsweredMeansRecorded, Own, Sunk, data
      <3>6. \A u \in Threads : \A k \in DOMAIN recorded' : Concerns(u, k)' =>
              /\ Batched(u)' => k \notin Range(pending')
              /\ Popped(u)' /\ k \in All(chunks') => forwarder' = "drain" \/ PopAhead(u)'
              /\ \A i, j \in DOMAIN cmds' : Carries(cmds'[i], k) /\ AskOf(cmds[j], u)' => i < j
        BY <1>6, <2>9, <3>1, <3>2, <3>3, <3>4 DEF StreamInv, AheadInv, data
      <3> QED
        BY <1>6, <2>6, <3>5, <3>6 DEF AheadInv, data
    <2> QED
      BY <2>10, <2>11, <2>12, <2>14, <2>15 DEF StreamInv
  <1> QED
    BY <1>7, <1>8

\* The step of a call that sends a command.
LEMMA SendCmdInv ==
  ASSUME StreamInv, NEW t \in Threads, SendCmd(t)
  PROVE  StreamInv'
  <1>1. PICK q : q = todo[t]
    OBVIOUS
  <1>2. PICK r : r = Tail(q)
    OBVIOUS
  <1>3. PICK c : c = q[1].cmd
    OBVIOUS
  <1>4. PICK n : n = Len(cmds) + 1
    OBVIOUS
  <1>5. /\ q # <<>> /\ q[1].op = "send" /\ 1 \in DOMAIN q /\ CallOK(q, t) /\ CallOK(r, t)
        /\ CmdOK(c) /\ (Asks(c, t) \/ \A u \in Threads : ~Asks(c, u))
        /\ todo' = [u \in Threads |-> todo'[u]] /\ todo'[t] = r
        /\ \A u \in Threads \ {t} : todo'[u] = todo[u]
        /\ \A op \in {"await", "forwarder", "release"} : Ends(r, op) <=> Ends(q, op)
        /\ r # <<>> => Rank(q[1]) < Rank(r[1]) /\ r[Len(r)] = q[Len(q)]
        /\ Rank(q[1]) = 6 => r = <<>>
        /\ cmds' = Append(cmds, c) /\ cmds' \in Seq(ToSet(cmds')) /\ n \in DOMAIN cmds'
        /\ \A i \in DOMAIN cmds : cmds'[i] = cmds[i] /\ i \in DOMAIN cmds' /\ i \in Nat /\ i < n
        /\ cmds'[n] = c /\ n \in Nat /\ \A i \in DOMAIN cmds' : i \in DOMAIN cmds \/ i = n
        /\ UNCHANGED <<inner, strong, reply>>
        /\ UNCHANGED <<recorded, swaps, pending, chunks, forwarder, sink, sunk>>
    <2>1. q # <<>> /\ Head(q).op = "send" /\ cmds' = Append(cmds, Head(q).cmd) /\ Continue(t)
      BY <1>1 DEF SendCmd, At
    <2>2. /\ CallOK(q, t) /\ CallOK(r, t) /\ StepOK(q[1], t) /\ Head(q) = q[1] /\ 1 \in DOMAIN q
      BY <1>1, <1>2, <2>1, NextStep
    <2>3. \A op : Ends(r, op) => Ends(q, op)
      BY <1>1, <1>2, <2>1, NextStep
    <2>4. \A op : Ends(q, op) /\ q[1].op # op => Ends(r, op)
      BY <1>1, <1>2, <2>1, NextStep
    <2>5. /\ r # <<>> => Rank(q[1]) < Rank(r[1]) /\ r[Len(r)] = q[Len(q)]
          /\ Rank(q[1]) = 6 => r = <<>>
      BY <1>2, <2>1, <2>2, CallTail
    <2>6. todo' = [todo EXCEPT ![t] = r]
      BY <1>1, <1>2, <2>1 DEF Continue
    <2>7. /\ todo' = [u \in Threads |-> todo'[u]] /\ todo'[t] = r
          /\ \A u \in Threads \ {t} : todo'[u] = todo[u]
      BY <2>6 DEF StreamInv, TypeInv
    <2>8. CmdOK(c) /\ (Asks(c, t) \/ \A u \in Threads : ~Asks(c, u))
      BY <1>3, <2>1, <2>2, ThreadTypes DEF StepOK, Asks
    <2>9. /\ cmds' = Append(cmds, c) /\ cmds' \in Seq(ToSet(cmds')) /\ n \in DOMAIN cmds'
          /\ \A i \in DOMAIN cmds : cmds'[i] = cmds[i] /\ i \in DOMAIN cmds' /\ i \in Nat /\ i < n
          /\ cmds'[n] = c /\ n \in Nat /\ \A i \in DOMAIN cmds' : i \in DOMAIN cmds \/ i = n
      <3>1. cmds \in Seq(ToSet(cmds)) /\ cmds' = Append(cmds, c)
        BY <1>3, <2>1, <2>2 DEF StreamInv, TypeInv
      <3> QED
        BY <1>4, <3>1, AppendAny
    <2>10. /\ UNCHANGED <<inner, strong, reply>>
           /\ UNCHANGED <<recorded, swaps, pending, chunks, forwarder, sink, sunk>>
      BY DEF SendCmd, life, logged
    <2> QED
      BY <2>1, <2>2, <2>3, <2>4, <2>5, <2>7, <2>8, <2>9, <2>10
  <1>6. /\ q # <<>> /\ q[1].op = "send" /\ 1 \in DOMAIN q /\ CallOK(q, t) /\ CallOK(r, t)
        /\ CmdOK(c) /\ (Asks(c, t) \/ \A u \in Threads : ~Asks(c, u))
    BY <1>5
  <1>7. /\ todo' = [u \in Threads |-> todo'[u]] /\ todo'[t] = r
        /\ \A u \in Threads \ {t} : todo'[u] = todo[u]
    BY <1>5
  <1>8. /\ \A op \in {"await", "forwarder", "release"} : Ends(r, op) <=> Ends(q, op)
        /\ r # <<>> => Rank(q[1]) < Rank(r[1]) /\ r[Len(r)] = q[Len(q)]
        /\ Rank(q[1]) = 6 => r = <<>>
    BY <1>5
  <1>9. /\ cmds' = Append(cmds, c) /\ cmds' \in Seq(ToSet(cmds')) /\ n \in DOMAIN cmds'
        /\ \A i \in DOMAIN cmds : cmds'[i] = cmds[i] /\ i \in DOMAIN cmds' /\ i \in Nat /\ i < n
        /\ cmds'[n] = c /\ n \in Nat /\ \A i \in DOMAIN cmds' : i \in DOMAIN cmds \/ i = n
    BY <1>5
  <1>10. /\ UNCHANGED <<inner, strong, reply>>
         /\ UNCHANGED <<recorded, swaps, pending, chunks, forwarder, sink, sunk>>
    BY <1>5
  <1>11. \A u \in Threads : Dropping(u)' <=> Dropping(u)
    BY <1>1, <1>7, <1>8 DEF Dropping
  <1>12. Waits(r) <=> Waits(q)
    BY <1>8 DEF Waits
  <1>13. Ends(q, "forwarder") \/ Ends(q, "await") \/ Ends(q, "release") => r # <<>>
    BY <1>8 DEF Ends
  <1>14. Rank(q[1]) >= 3 /\ (Waits(q) => Rank(q[1]) <= 5)
    <2>1. Rank(q[1]) \in 3..6
      BY <1>6 DEF Rank
    <2>2. Waits(q) => r # <<>>
      BY <1>13 DEF Waits
    <2> QED
      BY <2>1, <2>2, <1>8
  <1>15. forwarder # "done"
    <2> SUFFICES ASSUME forwarder = "done" PROVE FALSE
      OBVIOUS
    <2>1. Dropping(t)
      BY <1>1, <1>6 DEF StreamInv, LifeInv
    <2>2. Rank(q[1]) = 6
      BY <2>1, <1>1 DEF StreamInv, LifeInv
    <2> QED
      BY <2>1, <2>2, <1>1, <1>14 DEF Dropping, Waits
  <1>16. /\ c.op = "Shutdown" => Ends(q, "forwarder") /\ Rank(q[1]) = 5
         /\ c.op = "RecordMsg" => Ends(q, "release") /\ ~Waits(q) /\ Rank(q[1]) = 5
         /\ Asks(c, t) => /\ Ends(q, "await") /\ ~Ends(q, "forwarder")
                          /\ (q[Len(q)].timeout => c.op = "Flush")
                          /\ Rank(q[1]) \in {4, 5} /\ (c.op # "SwapSink" => Rank(q[1]) = 5)
         /\ c.op = "PopPendingChunks" <=> Rank(q[1]) = 3
         /\ Ends(q, "await") /\ Rank(q[1]) >= 4 => Asks(c, t)
    <2>1. c.op = "Shutdown" => Ends(q, "forwarder") /\ Rank(q[1]) = 5
      BY <1>3, <1>6 DEF CallOK, Rank
    <2>2. c.op = "RecordMsg" => Ends(q, "release") /\ ~Waits(q) /\ Rank(q[1]) = 5
      BY <1>3, <1>6 DEF CallOK, Rank, Waits, Ends
    <2>3. Asks(c, t) => /\ Ends(q, "await") /\ ~Ends(q, "forwarder")
                        /\ (q[Len(q)].timeout => c.op = "Flush")
                        /\ Rank(q[1]) \in {4, 5} /\ (c.op # "SwapSink" => Rank(q[1]) = 5)
      <3> SUFFICES ASSUME Asks(c, t)
                   PROVE  /\ Ends(q, "await") /\ ~Ends(q, "forwarder")
                          /\ (q[Len(q)].timeout => c.op = "Flush")
                          /\ Rank(q[1]) \in {4, 5} /\ (c.op # "SwapSink" => Rank(q[1]) = 5)
        OBVIOUS
      <3>1. Ends(q, "await") /\ (q[Len(q)].timeout => c.op = "Flush")
        BY <1>3, <1>6 DEF CallOK
      <3>2. ~Ends(q, "forwarder")
        BY <3>1 DEF Ends
      <3>3. t # None
        BY ThreadTypes
      <3>4. Rank(q[1]) \in {4, 5} /\ (c.op # "SwapSink" => Rank(q[1]) = 5)
        BY <1>3, <1>6, <3>3 DEF Asks, Rank
      <3> QED
        BY <3>1, <3>2, <3>4
    <2>4. c.op = "PopPendingChunks" <=> Rank(q[1]) = 3
      BY <1>3, <1>6 DEF Rank
    <2>5. Ends(q, "await") /\ Rank(q[1]) >= 4 => Asks(c, t)
      <3> SUFFICES ASSUME Ends(q, "await"), Rank(q[1]) >= 4 PROVE Asks(c, t)
        OBVIOUS
      <3>1. Rank(q[1]) <= 5
        BY <1>14 DEF Waits
      <3>2. c.op \in {"SwapSink", "FinalizeDeferredSinks", "Flush", "RecordMsg", "Shutdown"}
            /\ (c.op = "Flush" => c.by # None)
        BY <1>3, <1>6, <3>1 DEF Rank, CmdOK, CmdOps
      <3>3. c.op # "RecordMsg" /\ c.op # "Shutdown"
        BY <2>1, <2>2 DEF Ends, Waits
      <3>4. StepOK(q[1], t)
        BY <1>6 DEF CallOK
      <3>5. c.by \in {t, None} /\ c.by # None
        BY <1>3, <1>6, <3>2, <3>3, <3>4, ThreadTypes DEF StepOK, CmdOK
      <3> QED
        BY <3>2, <3>3, <3>5 DEF Asks
    <2> QED
      BY <2>1, <2>2, <2>3, <2>4, <2>5
  <1>17. TypeInv'
    <2>1. \A i \in DOMAIN cmds' : CmdOK(cmds'[i])
      BY <1>6, <1>9 DEF StreamInv, TypeInv
    <2>2. \A u \in Threads : CallOK(todo'[u], u)
      BY <1>6, <1>7 DEF StreamInv, TypeInv
    <2> QED
      BY <1>7, <1>9, <1>10, <2>1, <2>2 DEF StreamInv, TypeInv
  <1>18. \A j \in DOMAIN cmds : cmds[j].op = "Shutdown" => ~Dropping(t)
    <2> SUFFICES ASSUME NEW j \in DOMAIN cmds, cmds[j].op = "Shutdown", Dropping(t) PROVE FALSE
      OBVIOUS
    <2>1. PICK u \in Threads : Dropping(u) /\ Rank(todo[u][1]) = 6
      BY DEF StreamInv, LifeInv
    <2>2. u = t
      BY <2>1 DEF StreamInv, LifeInv
    <2> QED
      BY <2>1, <2>2, <1>1, <1>14 DEF Dropping, Waits
  <1>19. LifeInv'
    <2>1. \A u \in Threads : todo'[u] # <<>> /\ ~Dropping(u)' => u \in strong'
      BY <1>1, <1>6, <1>7, <1>10, <1>11 DEF StreamInv, LifeInv
    <2>2. \A j \in DOMAIN cmds' : cmds'[j].op = "Shutdown" =>
            /\ \E u \in Threads : Dropping(u)' /\ Rank(todo'[u][1]) = 6
            /\ \A i \in DOMAIN cmds' : cmds'[i].op = "Shutdown" => i = j
      <3> SUFFICES ASSUME NEW j \in DOMAIN cmds', cmds'[j].op = "Shutdown"
                   PROVE  /\ \E u \in Threads : Dropping(u)' /\ Rank(todo'[u][1]) = 6
                          /\ \A i \in DOMAIN cmds' : cmds'[i].op = "Shutdown" => i = j
        OBVIOUS
      <3>1. CASE c.op = "Shutdown"
        <4>1. Dropping(t) /\ Dropping(t)' /\ Rank(r[1]) = 6
          BY <3>1, <1>1, <1>8, <1>11, <1>13, <1>16, RankType DEF Dropping
        <4>2. \A i \in DOMAIN cmds : cmds[i].op # "Shutdown"
          BY <4>1, <1>18
        <4> QED
          BY <4>1, <4>2, <1>7, <1>9
      <3>2. CASE c.op # "Shutdown"
        <4>1. j \in DOMAIN cmds /\ cmds[j].op = "Shutdown"
          BY <3>2, <1>9
        <4>2. PICK u \in Threads : Dropping(u) /\ Rank(todo[u][1]) = 6
          BY <4>1 DEF StreamInv, LifeInv
        <4>3. u # t
          BY <4>1, <4>2, <1>18
        <4>4. \A i \in DOMAIN cmds : cmds[i].op = "Shutdown" => i = j
          BY <4>1 DEF StreamInv, LifeInv
        <4> QED
          BY <4>2, <4>3, <4>4, <1>7, <1>9, <1>11, <3>2
      <3> QED
        BY <3>1, <3>2
    <2>3. /\ strong' # {} => inner' = "alive"
          /\ \A u \in Threads : Dropping(u)' => inner' = "dropping"
          /\ \A v, u \in Threads : Dropping(v)' /\ Dropping(u)' => v = u
      BY <1>10, <1>11 DEF StreamInv, LifeInv
    <2> QED
      BY <2>1, <2>2, <2>3, <1>10, <1>15 DEF LifeInv
  <1>20. t \notin reply
    BY <1>1, <1>14 DEF StreamInv, AskInv, Waits
  <1>21. \A j \in DOMAIN cmds : Asks(cmds[j], t) =>
            /\ Asks(c, t) /\ ~Answered(cmds[j], t)
            /\ q[Len(q)].timeout => cmds[j].op = "Flush"
    <2> SUFFICES ASSUME NEW j \in DOMAIN cmds, Asks(cmds[j], t)
                 PROVE  /\ Asks(c, t) /\ ~Answered(cmds[j], t)
                        /\ q[Len(q)].timeout => cmds[j].op = "Flush"
      OBVIOUS
    <2>1. t \in Users
      BY AskerFacts
    <2>2. /\ Popped(t) /\ Ends(q, "await")
          /\ q[Len(q)].timeout => cmds[j].op = "Flush"
          /\ Answered(cmds[j], t) => Rank(q[1]) = 6
      BY <1>1, <2>1 DEF StreamInv, AskInv
    <2>3. Rank(q[1]) >= 4
      BY <1>1, <2>2 DEF Popped
    <2> QED
      BY <2>2, <2>3, <1>14, <1>16 DEF Waits
  <1>22. AskInv'
    <2>1. \A u \in Users : \A j \in DOMAIN cmds' : Asks(cmds'[j], u) =>
            /\ Popped(u)' /\ Ends(todo'[u], "await")
            /\ u \notin reply'
            /\ todo'[u][Len(todo'[u])].timeout => cmds'[j].op = "Flush"
            /\ Answered(cmds'[j], u) =>
                 Rank(todo'[u][1]) = 6 /\ \A i \in DOMAIN cmds' : Asks(cmds'[i], u) => i <= j
      <3> SUFFICES ASSUME NEW u \in Users, NEW j \in DOMAIN cmds', Asks(cmds'[j], u)
                   PROVE  /\ Popped(u)' /\ Ends(todo'[u], "await")
                          /\ u \notin reply'
                          /\ todo'[u][Len(todo'[u])].timeout => cmds'[j].op = "Flush"
                          /\ Answered(cmds'[j], u) =>
                               /\ Rank(todo'[u][1]) = 6
                               /\ \A i \in DOMAIN cmds' : Asks(cmds'[i], u) => i <= j
        OBVIOUS
      <3>1. CASE u # t
        <4>1. u \in Threads /\ ~Asks(c, u) /\ todo'[u] = todo[u]
          BY <3>1, <1>6, <1>7, ThreadTypes DEF Asks
        <4>2. j \in DOMAIN cmds /\ Asks(cmds[j], u) /\ cmds'[j] = cmds[j]
          BY <4>1, <1>9
        <4>3. /\ Popped(u) /\ Ends(todo[u], "await")
              /\ u \notin reply
              /\ todo[u][Len(todo[u])].timeout => cmds[j].op = "Flush"
              /\ Answered(cmds[j], u) =>
                   Rank(todo[u][1]) = 6 /\ \A i \in DOMAIN cmds : Asks(cmds[i], u) => i <= j
          BY <4>2 DEF StreamInv, AskInv
        <4>4. \A i \in DOMAIN cmds' : Asks(cmds'[i], u) => i \in DOMAIN cmds /\ Asks(cmds[i], u)
          BY <4>1, <1>9
        <4>5. Popped(u)'
          BY <4>1, <4>3 DEF Popped
        <4> QED
          BY <4>1, <4>2, <4>3, <4>4, <4>5, <1>10
      <3>2. CASE u = t
        <4>1. Asks(c, t)
          BY <3>2, <1>9, <1>21
        <4>2. Ends(r, "await") /\ r # <<>> /\ r[Len(r)] = q[Len(q)] /\ Rank(r[1]) > Rank(q[1])
          BY <4>1, <1>8, <1>13, <1>16
        <4>3. Popped(t)'
          BY <4>1, <4>2, <1>7, <1>16, RankType DEF Popped, Waits
        <4>4. r[Len(r)].timeout => cmds'[j].op = "Flush"
          BY <4>1, <4>2, <3>2, <1>9, <1>16, <1>21
        <4>5. ASSUME Answered(cmds'[j], t)
              PROVE  Rank(r[1]) = 6 /\ \A i \in DOMAIN cmds' : Asks(cmds'[i], t) => i <= j
          <5>1. j = n /\ c.op # "SwapSink"
            BY <4>5, <1>9, <1>21 DEF Answered
          <5>2. Rank(q[1]) = 5
            BY <5>1, <4>1, <1>16
          <5> QED
            BY <5>1, <5>2, <4>2, <1>9, RankType
        <4> QED
          BY <3>2, <4>2, <4>3, <4>4, <4>5, <1>7, <1>10, <1>20
      <3> QED
        BY <3>1, <3>2
    <2>2. \A u \in reply' : Ends(todo'[u], "await") /\ Rank(todo'[u][1]) = 6
      BY <1>7, <1>10, <1>20, AskerFacts DEF StreamInv, AskInv
    <2> QED
      BY <2>1, <2>2 DEF AskInv
  <1>23. /\ \A i \in DOMAIN r : r[i] = q[i + 1] /\ i + 1 \in DOMAIN q /\ i + 1 # 1
         /\ \A i \in DOMAIN q : i # 1 => i - 1 \in DOMAIN r /\ r[i - 1] = q[i]
    <2>1. q \in Seq(ToSet(q))
      BY <1>6 DEF CallOK
    <2> QED
      BY <2>1, <1>2, <1>6, TailAny
  <1>24. \A k : Sends(t, k) <=> (Sends(t, k)' \/ Carries(c, k))
    <2> TAKE k
    <2>1. Sends(t, k)' => Sends(t, k)
      BY <1>1, <1>7, <1>23 DEF Sends
    <2>2. Carries(c, k) => Sends(t, k)
      BY <1>1, <1>3, <1>6 DEF Sends
    <2>3. ASSUME Sends(t, k) PROVE Sends(t, k)' \/ Carries(c, k)
      <3>1. PICK j \in DOMAIN q : q[j].op = "send" /\ Carries(q[j].cmd, k)
        BY <2>3, <1>1 DEF Sends
      <3>2. CASE j = 1
        BY <3>1, <3>2, <1>3 DEF Carries
      <3>3. CASE j # 1
        <4>1. j - 1 \in DOMAIN r /\ r[j - 1] = q[j]
          BY <3>3, <1>23
        <4> QED
          BY <4>1, <3>1, <1>7 DEF Sends
      <3> QED
        BY <3>2, <3>3
    <2> QED
      BY <2>1, <2>2, <2>3
  <1>25. c.op = "RecordMsg" => /\ c.item \in DOMAIN recorded /\ recorded[c.item].by = t
                               /\ c.item \in Called /\ \A k : ~Sends(t, k)'
    <2> SUFFICES ASSUME c.op = "RecordMsg"
                 PROVE  /\ c.item \in DOMAIN recorded /\ recorded[c.item].by = t
                        /\ c.item \in Called /\ \A k : ~Sends(t, k)'
      OBVIOUS
    <2>1. c.item \in DOMAIN recorded /\ recorded[c.item].by = t
      BY <1>1, <1>3, <1>6 DEF StreamInv, PlaceInv
    <2>2. c.item \in Called
      BY <2>1, <1>24 DEF Called, Carries
    <2>3. ASSUME NEW k, Sends(t, k)' PROVE FALSE
      <3>1. PICK j \in DOMAIN r : r[j].op = "send" /\ Carries(r[j].cmd, k)
        BY <2>3, <1>7 DEF Sends
      <3>2. j + 1 \in DOMAIN q /\ q[j + 1] = r[j] /\ 1 < j + 1
        <4>1. j + 1 \in DOMAIN q /\ q[j + 1] = r[j] /\ j + 1 # 1
          BY <1>23
        <4>2. DOMAIN q = 1..Len(q)
          BY <1>6 DEF CallOK
        <4> QED
          BY <4>1, <4>2
      <3>3. Rank(q[1]) < Rank(q[j + 1])
        BY <3>2, <1>6 DEF CallOK
      <3>4. Rank(q[j + 1]) = 5
        BY <3>1, <3>2 DEF Rank, Carries
      <3> QED
        BY <3>3, <3>4, <1>16
    <2> QED
      BY <2>1, <2>2, <2>3
  <1>26. \A u \in Threads : \A k : Sends(u, k) => k \in DOMAIN recorded /\ recorded[k].by = u
    BY DEF Sends, Carries, StreamInv, PlaceInv
  <1>27. Called' = IF c.op = "RecordMsg" THEN Called \ {c.item} ELSE Called
    <2>1. \A u \in Threads \ {t} : \A k : Sends(u, k)' <=> Sends(u, k)
      BY <1>7 DEF Sends
    <2>2. CASE c.op = "RecordMsg"
      <3>1. \A k : Sends(t, k) => k = c.item
        BY <2>2, <1>24, <1>25 DEF Carries
      <3>2. \A u \in Threads : \A k : Sends(u, k)' <=> (Sends(u, k) /\ k # c.item)
        BY <2>1, <2>2, <3>1, <1>25, <1>26
      <3> QED
        BY <2>2, <3>2, <1>10 DEF Called
    <2>3. CASE c.op # "RecordMsg"
      <3>1. \A u \in Threads : \A k : Sends(u, k)' <=> Sends(u, k)
        BY <2>1, <2>3, <1>24 DEF Carries
      <3> QED
        BY <2>3, <3>1, <1>10 DEF Called
    <2> QED
      BY <2>2, <2>3
  <1>28. PlaceInv'
    <2>1. Apart(DOMAIN recorded, Called, Messages(cmds), Range(pending), All(chunks), Sunk)
          /\ Distinctly(cmds) /\ cmds \in Seq(ToSet(cmds))
      BY DEF StreamInv, PlaceInv, TypeInv
    <2>2. c.op = "RecordMsg" => c.item \notin Messages(cmds)
      BY <2>1, <1>25 DEF Apart
    <2>3. /\ Distinctly(cmds')
          /\ Messages(cmds') = Messages(cmds) \cup (IF c.op = "RecordMsg" THEN {c.item} ELSE {})
      BY <2>1, <2>2, <1>9, MessagesAppend
    <2>4. Sunk' = Sunk
      BY <1>10 DEF Sunk
    <2>5. Apart(DOMAIN recorded, Called', Messages(cmds'), Range(pending), All(chunks), Sunk)
      <3>1. CASE c.op = "RecordMsg"
        BY <3>1, <2>1, <2>3, <1>25, <1>27 DEF Apart
      <3>2. CASE c.op # "RecordMsg"
        BY <3>2, <2>1, <2>3, <1>27
      <3> QED
        BY <3>1, <3>2
    <2>6. \A u \in Threads : \A j \in DOMAIN todo'[u] :
            todo'[u][j].op = "send" /\ todo'[u][j].cmd.op = "RecordMsg" =>
              /\ u \in Importers /\ todo'[u][j].cmd.item \in DOMAIN recorded
              /\ recorded[todo'[u][j].cmd.item].by = u
      BY <1>1, <1>7, <1>23 DEF StreamInv, PlaceInv
    <2> QED
      BY <2>3, <2>4, <2>5, <2>6, <1>10 DEF StreamInv, PlaceInv
  <1>29. AheadInv'
    <2>1. \A u \in Threads : \A k : Concerns(u, k)' <=> Concerns(u, k)
      BY <1>10, <1>11 DEF Concerns
    <2>2. \A u \in Threads : \A j \in DOMAIN cmds : AskOf(cmds[j], u)' <=> AskOf(cmds[j], u)
      BY <1>9, <1>11 DEF AskOf
    <2>3. \A u \in Threads : PopAhead(u) => PopAhead(u)'
      <3> SUFFICES ASSUME NEW u \in Threads, PopAhead(u) PROVE PopAhead(u)'
        OBVIOUS
      <3>1. PICK i \in DOMAIN cmds : cmds[i].op = "PopPendingChunks"
                           /\ \A j \in DOMAIN cmds : AskOf(cmds[j], u) => i < j
        BY DEF PopAhead
      <3>2. \A j \in DOMAIN cmds' : AskOf(cmds[j], u)' => i < j
        BY <3>1, <2>2, <1>9
      <3> QED
        BY <3>1, <3>2, <1>9 DEF PopAhead
    <2>4. \A u \in Threads \ {t} : (Batched(u)' <=> Batched(u)) /\ (Popped(u)' <=> Popped(u))
      BY <1>7 DEF Batched, Popped
    <2>5. Batched(t)' => Batched(t)
      BY <1>1, <1>7, <1>12, <1>14 DEF Batched
    <2>6. Popped(t)' => Popped(t) \/ (c.op = "PopPendingChunks" /\ Waits(q) /\ Rank(q[1]) = 3)
      BY <1>1, <1>7, <1>12, <1>14, <1>16, RankType DEF Popped
    <2>7. c.op = "PopPendingChunks" => PopAhead(t)'
      <3> SUFFICES ASSUME c.op = "PopPendingChunks" PROVE PopAhead(t)'
        OBVIOUS
      <3>1. ~Asks(c, t)
        BY DEF Asks
      <3>2. \A j \in DOMAIN cmds : ~AskOf(cmds[j], t)
        BY <3>1, <1>18, <1>21 DEF AskOf
      <3>3. ~AskOf(c, t)'
        BY <3>1 DEF AskOf
      <3>4. \A j \in DOMAIN cmds' : ~AskOf(cmds[j], t)'
        <4> TAKE j \in DOMAIN cmds'
        <4>1. CASE j \in DOMAIN cmds
          BY <4>1, <2>2, <3>2
        <4>2. CASE j = n
          BY <4>2, <1>9, <3>1 DEF AskOf
        <4> QED
          BY <4>1, <4>2, <1>9
      <3> QED
        BY <3>4, <1>9 DEF PopAhead
    <2>8. \A u \in Threads : \A k \in DOMAIN recorded : Concerns(u, k) =>
            \A i, j \in DOMAIN cmds' : Carries(cmds'[i], k) /\ AskOf(cmds[j], u)' => i < j
      <3> SUFFICES ASSUME NEW u \in Threads, NEW k \in DOMAIN recorded, Concerns(u, k),
                          NEW i \in DOMAIN cmds', NEW j \in DOMAIN cmds', Carries(cmds'[i], k),
                          AskOf(cmds[j], u)'
                   PROVE  i < j
        OBVIOUS
      <3>1. CASE i \in DOMAIN cmds /\ j \in DOMAIN cmds
        BY <3>1, <2>2, <1>9 DEF StreamInv, AheadInv
      <3>2. CASE i \in DOMAIN cmds /\ j = n
        BY <3>2, <1>9
      <3>3. CASE i = n /\ j \in DOMAIN cmds
        <4>1. c.op = "RecordMsg" /\ c.item = k /\ recorded[k].by = t
          BY <3>3, <1>9, <1>25 DEF Carries
        <4>2. ~Waits(q) /\ ~Dropping(t) /\ t \in strong
          <5>1. ~Waits(q)
            BY <4>1, <1>16
          <5>2. ~Dropping(t)
            BY <5>1, <1>1 DEF Dropping, Waits
          <5> QED
            BY <5>1, <5>2, <1>1, <1>6 DEF StreamInv, LifeInv
        <4>3. ~Dropping(u)
          BY <4>2 DEF StreamInv, LifeInv
        <4>4. u = t
          BY <4>1, <4>3 DEF Concerns
        <4>5. Asks(cmds[j], t)
          BY <4>3, <4>4, <3>3, <2>2 DEF AskOf
        <4>6. Asks(c, t)
          BY <4>5, <3>3, <1>21
        <4> QED
          BY <4>1, <4>6 DEF Asks
      <3>4. CASE i = n /\ j = n
        BY <3>4, <1>9 DEF Carries, AskOf, Asks
      <3> QED
        BY <3>1, <3>2, <3>3, <3>4, <1>9
    <2>9. AnsweredMeansRecorded'
      BY <1>10 DEF StreamInv, AheadInv, AnsweredMeansRecorded, Own, Sunk
    <2>10. \A u \in Threads : \A k \in DOMAIN recorded : Concerns(u, k) =>
             /\ Batched(u)' => k \notin Range(pending)
             /\ Popped(u)' /\ k \in All(chunks) => forwarder = "drain" \/ PopAhead(u)'
      <3> SUFFICES ASSUME NEW u \in Threads, NEW k \in DOMAIN recorded, Concerns(u, k)
                   PROVE  /\ Batched(u)' => k \notin Range(pending)
                          /\ Popped(u)' /\ k \in All(chunks) => forwarder = "drain" \/ PopAhead(u)'
        OBVIOUS
      <3>1. /\ Batched(u) => k \notin Range(pending)
            /\ Popped(u) /\ k \in All(chunks) => forwarder = "drain" \/ PopAhead(u)
        BY DEF StreamInv, AheadInv
      <3> QED
        BY <3>1, <2>3, <2>4, <2>5, <2>6, <2>7
    <2> QED
      BY <2>1, <2>8, <2>9, <2>10, <1>10, <1>15 DEF AheadInv
  <1> QED
    BY <1>17, <1>19, <1>22, <1>28, <1>29 DEF StreamInv

\* An item is logged: it has the next number, which is nowhere yet.
LEMMA RecordFacts ==
  ASSUME StreamInv, NEW t \in Threads, NEW route \in {"row", "msg"}, Record(t, route)
  PROVE  /\ recorded' \in Seq([by : Threads, route : {"row", "msg"}, after : Nat])
         /\ Len(recorded) + 1 \in Nat /\ Len(recorded) + 1 \notin DOMAIN recorded
         /\ DOMAIN recorded' = DOMAIN recorded \cup {Len(recorded) + 1}
         /\ recorded'[Len(recorded) + 1].by = t
         /\ \A i \in DOMAIN recorded : recorded'[i] = recorded[i]
  <1>1. recorded \in Seq([by : Threads, route : {"row", "msg"}, after : Nat])
        /\ swaps \in [Users -> Nat] /\ cmds \in Seq(ToSet(cmds))
    BY DEF StreamInv, TypeInv
  <1>2. PICK ahead : ahead = {k \in DOMAIN cmds : cmds[k].op = "SwapSink" /\ cmds[k].by = t}
    OBVIOUS
  <1>3. Cardinality(ahead) \in Nat
    <2>1. DOMAIN cmds = 1..Len(cmds) /\ Len(cmds) \in Nat
      BY <1>1
    <2>2. IsFiniteSet(1..Len(cmds))
      BY <2>1, FS_Interval
    <2>3. ahead \subseteq 1..Len(cmds)
      BY <1>2, <2>1
    <2> QED
      BY <2>2, <2>3, FS_Subset, FS_CardinalityType
  <1>4. PICK e : e = [by |-> t, route |-> route,
                      after |-> IF t \in Users THEN swaps[t] + Cardinality(ahead) ELSE 0]
    OBVIOUS
  <1>5. recorded' = Append(recorded, e)
    BY <1>2, <1>4 DEF Record
  <1>6. e \in [by : Threads, route : {"row", "msg"}, after : Nat] /\ e.by = t
    BY <1>1, <1>3, <1>4
  <1> QED
    BY <1>1, <1>5, <1>6, AppendOf

\* Nothing of an item that is not logged is anywhere.
LEMMA NowhereYet ==
  ASSUME StreamInv, NEW k, k \notin DOMAIN recorded
  PROVE  /\ k \notin Called /\ k \notin Messages(cmds) /\ k \notin Range(pending)
         /\ k \notin All(chunks) /\ k \notin Sunk
         /\ \A u \in Threads : ~Sends(u, k)
         /\ \A i \in DOMAIN cmds : ~Carries(cmds[i], k)
  <1>1. Apart(DOMAIN recorded, Called, Messages(cmds), Range(pending), All(chunks), Sunk)
    BY DEF StreamInv, PlaceInv
  <1>2. \A u \in Threads : ~Sends(u, k)
    BY DEF Sends, Carries, StreamInv, PlaceInv
  <1>3. k \notin Messages(cmds)
    BY <1>1 DEF Apart
  <1> QED
    BY <1>1, <1>2, <1>3, MessagesFacts DEF Apart

\* What logging an item leaves to show of the rest of the invariant.
LEMMA LogStep ==
  ASSUME StreamInv, NEW t \in Threads, NEW k, k \notin DOMAIN recorded,
         DOMAIN recorded' = DOMAIN recorded \cup {k}, recorded'[k].by = t,
         \A i \in DOMAIN recorded : recorded'[i] = recorded[i],
         todo[t] = <<>>, inner = "alive", inner' = inner, t \in strong', strong \subseteq strong',
         ~Waits(todo'[t]), \A u \in Threads \ {t} : todo'[u] = todo[u],
         \A i \in DOMAIN cmds' : \/ i \in DOMAIN cmds /\ cmds'[i] = cmds[i]
                                 \/ /\ Carries(cmds'[i], k)
                                    /\ \A j \in DOMAIN cmds : j < i,
         \A i \in DOMAIN cmds : i \in DOMAIN cmds' /\ cmds'[i] = cmds[i],
         Range(pending') \subseteq Range(pending) \cup {k},
         UNCHANGED <<reply, swaps, chunks, forwarder, sink, sunk>>,
         TypeInv', PlaceInv'
  PROVE  StreamInv'
  <1>1. /\ \A u \in Threads : ~Dropping(u) /\ ~Dropping(u)'
        /\ forwarder # "done" /\ ~(\E j \in DOMAIN cmds : cmds[j].op = "Shutdown")
    <2>1. \A u \in Threads : ~Dropping(u)
      BY DEF StreamInv, LifeInv
    <2>2. \A u \in Threads : ~Dropping(u)'
      BY <2>1 DEF Dropping, Waits
    <2> QED
      BY <2>1, <2>2 DEF StreamInv, LifeInv
  <1>2. ~Batched(t)' /\ ~Popped(t)' /\ ~Batched(t) /\ ~Popped(t) /\ ~Ends(todo[t], "await")
    BY DEF Batched, Popped, Waits, Ends
  <1>3. \A u \in Threads : (Batched(u)' <=> Batched(u)) /\ (Popped(u)' <=> Popped(u))
    BY <1>2 DEF Batched, Popped
  <1>4. t \notin reply /\ \A j \in DOMAIN cmds : ~Asks(cmds[j], t)
    BY <1>2, NotAsking
  <1>5. \A c : Carries(c, k) => c.op # "Shutdown" /\ (\A u : ~Asks(c, u)) /\ \A u \in Threads : ~AskOf(c, u) /\ ~AskOf(c, u)'
    BY DEF Carries, Asks, AskOf
  <1>6. LifeInv'
    <2>1. \A j \in DOMAIN cmds' : cmds'[j].op # "Shutdown"
      BY <1>1, <1>5
    <2>2. \A u \in Threads : todo'[u] # <<>> => u \in strong'
      BY <1>1 DEF StreamInv, LifeInv
    <2> QED
      BY <1>1, <2>1, <2>2 DEF LifeInv
  <1>7. \A u \in Threads : \A j \in DOMAIN cmds' : Asks(cmds'[j], u) =>
          u # t /\ j \in DOMAIN cmds /\ cmds'[j] = cmds[j]
    BY <1>4, <1>5
  <1>8. AskInv'
    <2>1. \A u \in Users : \A j \in DOMAIN cmds' : Asks(cmds'[j], u) =>
            /\ Popped(u)' /\ Ends(todo'[u], "await")
            /\ u \notin reply'
            /\ todo'[u][Len(todo'[u])].timeout => cmds'[j].op = "Flush"
            /\ Answered(cmds'[j], u) =>
                 Rank(todo'[u][1]) = 6 /\ \A i \in DOMAIN cmds' : Asks(cmds'[i], u) => i <= j
      <3> SUFFICES ASSUME NEW u \in Users, NEW j \in DOMAIN cmds', Asks(cmds'[j], u)
                   PROVE  /\ Popped(u)' /\ Ends(todo'[u], "await")
                          /\ u \notin reply'
                          /\ todo'[u][Len(todo'[u])].timeout => cmds'[j].op = "Flush"
                          /\ Answered(cmds'[j], u) =>
                               /\ Rank(todo'[u][1]) = 6
                               /\ \A i \in DOMAIN cmds' : Asks(cmds'[i], u) => i <= j
        OBVIOUS
      <3>1. u \in Threads /\ u # t /\ j \in DOMAIN cmds /\ cmds'[j] = cmds[j] /\ todo'[u] = todo[u]
        BY <1>7, ThreadTypes
      <3>2. /\ Popped(u) /\ Ends(todo[u], "await")
            /\ u \notin reply
            /\ todo[u][Len(todo[u])].timeout => cmds[j].op = "Flush"
            /\ Answered(cmds[j], u) =>
                 Rank(todo[u][1]) = 6 /\ \A i \in DOMAIN cmds : Asks(cmds[i], u) => i <= j
        BY <3>1 DEF StreamInv, AskInv
      <3>3. \A i \in DOMAIN cmds' : Asks(cmds'[i], u) => i \in DOMAIN cmds /\ Asks(cmds[i], u)
        BY <1>7, <3>1
      <3> QED
        BY <3>1, <3>2, <3>3, <1>3
    <2>2. \A u \in reply' : Ends(todo'[u], "await") /\ Rank(todo'[u][1]) = 6
      BY <1>4, AskerFacts DEF StreamInv, AskInv
    <2> QED
      BY <2>1, <2>2 DEF AskInv
  <1>9. AheadInv'
    <2>1. \A u \in Threads : \A i \in DOMAIN recorded : Concerns(u, i)' <=> Concerns(u, i)
      BY <1>1 DEF Concerns
    <2>2. \A u \in Threads : Concerns(u, k)' => u = t
      BY <1>1 DEF Concerns
    <2>3. \A u \in Threads : \A j \in DOMAIN cmds' :
            AskOf(cmds[j], u)' => u # t /\ j \in DOMAIN cmds /\ AskOf(cmds[j], u)
      <3> SUFFICES ASSUME NEW u \in Threads, NEW j \in DOMAIN cmds', AskOf(cmds[j], u)'
                   PROVE  u # t /\ j \in DOMAIN cmds /\ AskOf(cmds[j], u)
        OBVIOUS
      <3>1. Asks(cmds'[j], u)
        BY <1>1 DEF AskOf
      <3> QED
        BY <3>1, <1>7 DEF AskOf
    <2>4. \A u \in Threads : PopAhead(u) => PopAhead(u)'
      <3> SUFFICES ASSUME NEW u \in Threads, PopAhead(u) PROVE PopAhead(u)'
        OBVIOUS
      <3>1. PICK i \in DOMAIN cmds : cmds[i].op = "PopPendingChunks"
                           /\ \A j \in DOMAIN cmds : AskOf(cmds[j], u) => i < j
        BY DEF PopAhead
      <3> QED
        BY <3>1, <2>3 DEF PopAhead
    <2>5. \A u \in reply' : Own(u)' \subseteq Sunk'
      <3> SUFFICES ASSUME NEW u \in reply PROVE Own(u)' \subseteq Sunk'
        OBVIOUS
      <3>1. u # t /\ u \in Threads
        BY <1>4, AskerFacts
      <3>2. Own(u)' = Own(u)
        BY <3>1 DEF Own
      <3> QED
        BY <3>2 DEF StreamInv, AheadInv, AnsweredMeansRecorded, Sunk
    <2>6. \A u \in Threads : \A m \in DOMAIN recorded' : Concerns(u, m)' =>
            /\ Batched(u)' => m \notin Range(pending')
            /\ Popped(u)' /\ m \in All(chunks') => forwarder' = "drain" \/ PopAhead(u)'
            /\ \A i, j \in DOMAIN cmds' : Carries(cmds'[i], m) /\ AskOf(cmds[j], u)' => i < j
      <3> SUFFICES ASSUME NEW u \in Threads, NEW m \in DOMAIN recorded', Concerns(u, m)'
                   PROVE  /\ Batched(u)' => m \notin Range(pending')
                          /\ Popped(u)' /\ m \in All(chunks') => forwarder' = "drain" \/ PopAhead(u)'
                          /\ \A i, j \in DOMAIN cmds' : Carries(cmds'[i], m) /\ AskOf(cmds[j], u)' => i < j
        OBVIOUS
      <3>1. CASE m = k
        <4>1. u = t
          BY <3>1, <2>2
        <4> QED
          BY <4>1, <1>2, <2>3
      <3>2. CASE m \in DOMAIN recorded
        <4>1. Concerns(u, m) /\ m # k
          BY <3>2, <2>1
        <4>2. /\ Batched(u) => m \notin Range(pending)
              /\ Popped(u) /\ m \in All(chunks) => forwarder = "drain" \/ PopAhead(u)
              /\ \A i, j \in DOMAIN cmds : Carries(cmds[i], m) /\ AskOf(cmds[j], u) => i < j
          BY <3>2, <4>1 DEF StreamInv, AheadInv
        <4>3. \A i \in DOMAIN cmds' : Carries(cmds'[i], m) => i \in DOMAIN cmds /\ Carries(cmds[i], m)
          BY <4>1 DEF Carries
        <4>4. \A i, j \in DOMAIN cmds' : Carries(cmds'[i], m) /\ AskOf(cmds[j], u)' => i < j
          BY <4>2, <4>3, <2>3
        <4> QED
          BY <4>1, <4>2, <4>4, <1>3, <2>4
      <3> QED
        BY <3>1, <3>2
    <2> QED
      BY <2>5, <2>6, <1>1 DEF AheadInv, AnsweredMeansRecorded
  <1> QED
    BY <1>6, <1>8, <1>9 DEF StreamInv

LEMMA RecordRowInv ==
  ASSUME StreamInv, NEW u \in Users, RecordRow(u)
  PROVE  StreamInv'
  <1>1. PICK k : k = Len(recorded) + 1
    OBVIOUS
  <1>2. u \in Threads /\ u \in strong /\ todo[u] = <<>> /\ inner = "alive"
    BY ThreadTypes DEF RecordRow, CanCall, StreamInv, LifeInv
  <1>3. /\ recorded' \in Seq([by : Threads, route : {"row", "msg"}, after : Nat])
        /\ k \in Nat /\ k \notin DOMAIN recorded /\ DOMAIN recorded' = DOMAIN recorded \cup {k}
        /\ recorded'[k].by = u /\ \A i \in DOMAIN recorded : recorded'[i] = recorded[i]
    BY <1>1, <1>2, RecordFacts DEF RecordRow
  <1>4. /\ pending' = Append(pending, k)
        /\ UNCHANGED <<todo, inner, strong, reply, swaps, chunks, cmds, forwarder, sink, sunk>>
    BY <1>1 DEF RecordRow, calls
  <1>5. /\ k \notin Called /\ k \notin Messages(cmds) /\ k \notin Range(pending)
        /\ k \notin All(chunks) /\ k \notin Sunk
        /\ \A t \in Threads : ~Sends(t, k)
    BY <1>3, NowhereYet
  <1>6. /\ pending' \in Seq(Nat) /\ Distinct(pending') /\ Range(pending') = Range(pending) \cup {k}
    BY <1>3, <1>4, <1>5, RangeAppend DEF StreamInv, TypeInv, PlaceInv
  <1>7. TypeInv'
    BY <1>3, <1>4, <1>6 DEF StreamInv, TypeInv
  <1>8. Called' = Called /\ Sunk' = Sunk
    BY <1>3, <1>4, <1>5 DEF Called, Sends, Sunk
  <1>9. PlaceInv'
    <2>1. Apart(DOMAIN recorded, Called, Messages(cmds), Range(pending), All(chunks), Sunk)
      BY DEF StreamInv, PlaceInv
    <2>2. Apart(DOMAIN recorded', Called', Messages(cmds'), Range(pending'), All(chunks'), Sunk')
      BY <2>1, <1>3, <1>4, <1>5, <1>6, <1>8 DEF Apart
    <2> QED
      BY <2>2, <1>3, <1>4, <1>6 DEF StreamInv, PlaceInv
  <1>10. ~Waits(todo'[u])
    BY <1>2, <1>4 DEF Waits, Ends
  <1> QED
    BY <1>2, <1>3, <1>4, <1>6, <1>7, <1>9, <1>10, LogStep

LEMMA RecordMsgInv ==
  ASSUME StreamInv, NEW u \in Users, RecordMsg(u)
  PROVE  StreamInv'
  <1>1. PICK k : k = Len(recorded) + 1
    OBVIOUS
  <1>2. u \in Threads /\ u \in strong /\ todo[u] = <<>> /\ inner = "alive"
    BY ThreadTypes DEF RecordMsg, CanCall, StreamInv, LifeInv
  <1>3. /\ recorded' \in Seq([by : Threads, route : {"row", "msg"}, after : Nat])
        /\ k \in Nat /\ k \notin DOMAIN recorded /\ DOMAIN recorded' = DOMAIN recorded \cup {k}
        /\ recorded'[k].by = u /\ \A i \in DOMAIN recorded : recorded'[i] = recorded[i]
    BY <1>1, <1>2, RecordFacts DEF RecordMsg
  <1>4. PICK c : c = [op |-> "RecordMsg", item |-> k]
    OBVIOUS
  <1>5. /\ cmds' = Append(cmds, c)
        /\ UNCHANGED <<todo, inner, strong, reply, swaps, pending, chunks, forwarder, sink, sunk>>
    BY <1>1, <1>4 DEF RecordMsg, calls
  <1>6. c.op = "RecordMsg" /\ c.item = k /\ CmdOK(c) /\ Carries(c, k)
    BY <1>4 DEF CmdOK, CmdOps, Carries
  <1>7. /\ k \notin Called /\ k \notin Messages(cmds) /\ k \notin Range(pending)
        /\ k \notin All(chunks) /\ k \notin Sunk
        /\ \A t \in Threads : ~Sends(t, k)
    BY <1>3, NowhereYet
  <1>8. /\ cmds' \in Seq(ToSet(cmds'))
        /\ \A i \in DOMAIN cmds : cmds'[i] = cmds[i] /\ i \in DOMAIN cmds'
        /\ \A i \in DOMAIN cmds' : \/ i \in DOMAIN cmds /\ cmds'[i] = cmds[i]
                                   \/ cmds'[i] = c /\ \A j \in DOMAIN cmds : j < i
    <2>1. cmds \in Seq(ToSet(cmds))
      BY DEF StreamInv, TypeInv
    <2> QED
      BY <2>1, <1>5, AppendAny
  <1>9. Distinctly(cmds') /\ Messages(cmds') = Messages(cmds) \cup {k}
    <2>1. cmds \in Seq(ToSet(cmds)) /\ Distinctly(cmds)
      BY DEF StreamInv, TypeInv, PlaceInv
    <2> QED
      BY <2>1, <1>5, <1>6, <1>7, MessagesAppend
  <1>10. TypeInv'
    BY <1>3, <1>5, <1>6, <1>8 DEF StreamInv, TypeInv
  <1>11. Called' = Called /\ Sunk' = Sunk
    BY <1>3, <1>5, <1>7 DEF Called, Sends, Sunk
  <1>12. PlaceInv'
    <2>1. Apart(DOMAIN recorded, Called, Messages(cmds), Range(pending), All(chunks), Sunk)
      BY DEF StreamInv, PlaceInv
    <2>2. Apart(DOMAIN recorded', Called', Messages(cmds'), Range(pending'), All(chunks'), Sunk')
      BY <2>1, <1>3, <1>5, <1>7, <1>9, <1>11 DEF Apart
    <2> QED
      BY <2>2, <1>3, <1>5, <1>9 DEF StreamInv, PlaceInv
  <1>13. ~Waits(todo'[u])
    BY <1>2, <1>5 DEF Waits, Ends
  <1> QED
    BY <1>2, <1>3, <1>5, <1>6, <1>8, <1>10, <1>12, <1>13, LogStep

LEMMA UpgradeInv ==
  ASSUME StreamInv, NEW i \in Importers, Upgrade(i)
  PROVE  StreamInv'
  <1>1. CASE inner # "alive"
    <2>1. UNCHANGED <<todo, inner, strong, reply>> /\ UNCHANGED data
      BY <1>1 DEF Upgrade, pipeline, data
    <2> QED
      BY <2>1, StreamFrame
  <1>2. CASE inner = "alive"
    <2>1. PICK k : k = Len(recorded) + 1
      OBVIOUS
    <2>2. i \in Threads /\ todo[i] = <<>> /\ Record(i, "msg") /\ strong' = strong \cup {i}
      BY <1>2, ThreadTypes DEF Upgrade
    <2>3. /\ recorded' \in Seq([by : Threads, route : {"row", "msg"}, after : Nat])
          /\ k \in Nat /\ k \notin DOMAIN recorded /\ DOMAIN recorded' = DOMAIN recorded \cup {k}
          /\ recorded'[k].by = i /\ \A j \in DOMAIN recorded : recorded'[j] = recorded[j]
      BY <2>1, <2>2, RecordFacts
    <2>4. PICK q : q = <<Send([op |-> "RecordMsg", item |-> k]), Release>>
      OBVIOUS
    <2>5. /\ todo' = [todo EXCEPT ![i] = q]
          /\ UNCHANGED <<inner, reply, swaps, pending, chunks, cmds, forwarder, sink, sunk>>
      BY <1>2, <2>1, <2>4 DEF Upgrade, pipeline
    <2>6. CallOK(q, i) /\ ~Waits(q)
      BY <2>4, ImporterCall
    <2>7. /\ DOMAIN q = {1, 2} /\ q[1].op = "send" /\ q[1].cmd.op = "RecordMsg" /\ q[1].cmd.item = k
          /\ q[2].op = "release"
      BY <2>4 DEF Send, Release
    <2>8. /\ todo' = [u \in Threads |-> todo'[u]] /\ todo'[i] = q
          /\ \A u \in Threads \ {i} : todo'[u] = todo[u]
      BY <2>2, <2>5 DEF StreamInv, TypeInv
    <2>9. /\ k \notin Called /\ k \notin Messages(cmds) /\ k \notin Range(pending)
          /\ k \notin All(chunks) /\ k \notin Sunk
          /\ \A t \in Threads : ~Sends(t, k)
      BY <2>3, NowhereYet
    <2>10. TypeInv'
      BY <2>2, <2>3, <2>5, <2>6, <2>8 DEF StreamInv, TypeInv
    <2>11. Called' = Called \cup {k} /\ Sunk' = Sunk
      <3>1. \A m : Sends(i, m)' <=> m = k
        BY <2>7, <2>8 DEF Sends, Carries
      <3>2. \A m : ~Sends(i, m)
        BY <2>2 DEF Sends
      <3>3. \A u \in Threads \ {i} : \A m : Sends(u, m)' <=> Sends(u, m)
        BY <2>8 DEF Sends
      <3>4. \A m : (\E u \in Threads : Sends(u, m)') <=> (m = k \/ \E u \in Threads : Sends(u, m))
        BY <2>2, <3>1, <3>2, <3>3
      <3>5. \A m \in DOMAIN recorded : m # k
        BY <2>3
      <3>6. Called' = Called \cup {k}
        BY <2>3, <3>4, <3>5 DEF Called
      <3> QED
        BY <2>5, <3>6 DEF Sunk
    <2>12. PlaceInv'
      <3>1. Apart(DOMAIN recorded, Called, Messages(cmds), Range(pending), All(chunks), Sunk)
        BY DEF StreamInv, PlaceInv
      <3>2. Apart(DOMAIN recorded', Called', Messages(cmds'), Range(pending'), All(chunks'), Sunk')
        BY <3>1, <2>3, <2>5, <2>9, <2>11 DEF Apart
      <3>3. \A t \in Threads : \A j \in DOMAIN todo'[t] :
              todo'[t][j].op = "send" /\ todo'[t][j].cmd.op = "RecordMsg" =>
                /\ t \in Importers /\ todo'[t][j].cmd.item \in DOMAIN recorded'
                /\ recorded'[todo'[t][j].cmd.item].by = t
        <4>1. \A t \in Threads \ {i} : \A j \in DOMAIN todo'[t] :
                todo'[t][j].op = "send" /\ todo'[t][j].cmd.op = "RecordMsg" =>
                  /\ t \in Importers /\ todo'[t][j].cmd.item \in DOMAIN recorded'
                  /\ recorded'[todo'[t][j].cmd.item].by = t
          BY <2>3, <2>8 DEF StreamInv, PlaceInv
        <4>2. \A j \in DOMAIN q : q[j].op = "send" => j = 1
          BY <2>7
        <4>3. \A j \in DOMAIN todo'[i] : todo'[i][j].op = "send" =>
                todo'[i][j].cmd.item = k /\ k \in DOMAIN recorded' /\ recorded'[k].by = i
          BY <4>2, <2>3, <2>7, <2>8
        <4> TAKE t \in Threads
        <4>4. CASE t = i
          BY <4>3, <4>4
        <4>5. CASE t # i
          BY <4>1, <4>5
        <4> QED
          BY <4>4, <4>5
      <3> QED
        BY <3>2, <3>3, <2>5 DEF StreamInv, PlaceInv
    <2>13. ~Waits(todo'[i])
      BY <2>6, <2>8
    <2> QED
      BY <1>2, <2>2, <2>3, <2>5, <2>8, <2>10, <2>12, <2>13, LogStep
  <1> QED
    BY <1>1, <1>2

\* The rows in the batcher become a chunk, if there are any; a call that is at this step
\* goes on.
LEMMA BatchStep ==
  ASSUME StreamInv, NEW t \in Threads, NEW q, CallOK(q, t), todo' = [todo EXCEPT ![t] = q],
         \/ q = todo[t]
         \/ /\ Plain(q) /\ Plain(todo[t]) /\ Fresh(todo[t])
            /\ Waits(q) => Rank(q[1]) <= 3,
         Ends(q, "forwarder") <=> Dropping(t),
         q # <<>> => t \in strong \/ Dropping(t),
         \/ pending = <<>> /\ chunks' = chunks
         \/ chunks' = Append(chunks, pending),
         pending' = <<>>,
         UNCHANGED <<inner, strong, reply, recorded, swaps, cmds, forwarder, sink, sunk>>
  PROVE  StreamInv'
  <1>1. /\ todo' = [u \in Threads |-> todo'[u]] /\ todo'[t] = q
        /\ \A u \in Threads \ {t} : todo'[u] = todo[u]
    BY DEF StreamInv, TypeInv
  <1>2. /\ \A u \in Threads : Dropping(u)' <=> Dropping(u)
        /\ \A u \in Threads : Popped(u)' <=> Popped(u)
    <2>1. \A u \in Threads : Dropping(u)' <=> Dropping(u)
      BY <1>1 DEF Dropping
    <2>2. \A u \in Threads \ {t} : Popped(u)' <=> Popped(u)
      BY <1>1 DEF Popped
    <2>3. Popped(t)' <=> Popped(t)
      <3>1. CASE q = todo[t]
        BY <3>1, <1>1 DEF Popped
      <3>2. CASE Fresh(todo[t]) /\ (Waits(q) => Rank(q[1]) <= 3)
        BY <3>2, <1>1, RankType DEF Popped, Fresh
      <3> QED
        BY <3>1, <3>2
    <2> QED
      BY <2>1, <2>2, <2>3
  <1>3. \A u \in Threads : Popped(u) => Batched(u)
    BY RankType DEF Popped, Batched
  <1>4. q = todo[t] \/ (t \notin reply /\ (\A j \in DOMAIN cmds : ~Asks(cmds[j], t))
                        /\ (Dropping(t) => Rank(todo[t][1]) # 6))
    <2> SUFFICES ASSUME Fresh(todo[t])
                 PROVE  /\ t \notin reply /\ (\A j \in DOMAIN cmds : ~Asks(cmds[j], t))
                        /\ Dropping(t) => Rank(todo[t][1]) # 6
      OBVIOUS
    <2>1. ~Popped(t) /\ (Waits(todo[t]) => Rank(todo[t][1]) # 6)
      BY DEF Popped, Fresh
    <2>2. Dropping(t) => Rank(todo[t][1]) # 6
      BY <2>1 DEF Dropping, Waits
    <2>3. t \notin reply
      BY <2>1 DEF StreamInv, AskInv, Waits
    <2>4. \A j \in DOMAIN cmds : ~Asks(cmds[j], t)
      BY <2>1, AskerFacts DEF StreamInv, AskInv
    <2> QED
      BY <2>2, <2>3, <2>4
  <1>5. /\ pending \in Seq(Nat) /\ Distinct(pending) /\ chunks \in Seq(Seq(Nat))
        /\ AllDistinct(chunks)
        /\ Apart(DOMAIN recorded, Called, Messages(cmds), Range(pending), All(chunks), Sunk)
    BY DEF StreamInv, TypeInv, PlaceInv
  <1>6. /\ chunks' \in Seq(Seq(Nat)) /\ AllDistinct(chunks')
        /\ All(chunks') = All(chunks) \cup Range(pending)
    <2>1. CASE pending = <<>> /\ chunks' = chunks
      BY <2>1, <1>5, NoItems
    <2>2. CASE chunks' = Append(chunks, pending)
      <3>1. All(chunks) \cap Range(pending) = {}
        BY <1>5 DEF Apart
      <3> QED
        BY <2>2, <3>1, <1>5, AllAppend
    <2> QED
      BY <2>1, <2>2
  <1>7. TypeInv'
    <2>1. pending' \in Seq(Nat)
      OBVIOUS
    <2>2. \A u \in Threads : CallOK(todo'[u], u)
      BY <1>1 DEF StreamInv, TypeInv
    <2> QED
      BY <1>1, <1>6, <2>1, <2>2 DEF StreamInv, TypeInv
  <1>8. LifeInv'
    <2>1. \A u \in Threads : todo'[u] # <<>> /\ ~Dropping(u)' => u \in strong
      BY <1>1, <1>2 DEF StreamInv, LifeInv
    <2>2. \A u \in Threads : Dropping(u) /\ Rank(todo[u][1]) = 6 => todo'[u] = todo[u]
      BY <1>1, <1>4
    <2>3. \A u \in Threads : Dropping(u)' /\ forwarder = "done" => Rank(todo'[u][1]) = 6
      BY <1>2, <2>2 DEF StreamInv, LifeInv
    <2>4. \A j \in DOMAIN cmds : cmds[j].op = "Shutdown" =>
            \E u \in Threads : Dropping(u)' /\ Rank(todo'[u][1]) = 6
      BY <1>2, <2>2 DEF StreamInv, LifeInv
    <2> QED
      BY <1>2, <2>1, <2>3, <2>4 DEF StreamInv, LifeInv
  <1>9. AskInv'
    <2>1. \A u \in Users : u \in Threads /\ ((\E j \in DOMAIN cmds : Asks(cmds[j], u)) => todo'[u] = todo[u])
      BY <1>1, <1>4, ThreadTypes
    <2>2. \A u \in reply : u \in Threads /\ todo'[u] = todo[u]
      BY <1>1, <1>4, AskerFacts
    <2> QED
      BY <1>2, <2>1, <2>2 DEF StreamInv, AskInv
  <1>10. \A u \in Threads : \A k : Sends(u, k)' <=> Sends(u, k)
    BY <1>1 DEF Sends, Carries, Plain
  <1>11. PlaceInv'
    <2>1. Called' = Called /\ Sunk' = Sunk
      BY <1>10 DEF Called, Sunk
    <2>2. \A u \in Threads : \A j \in DOMAIN todo'[u] :
            todo'[u][j].op = "send" /\ todo'[u][j].cmd.op = "RecordMsg" =>
              /\ u \in Importers /\ todo'[u][j].cmd.item \in DOMAIN recorded
              /\ recorded[todo'[u][j].cmd.item].by = u
      BY <1>1 DEF StreamInv, PlaceInv, Plain
    <2>3. Distinct(pending') /\ Range(pending') = {}
      BY NoItems
    <2>4. Apart(DOMAIN recorded', Called', Messages(cmds'), Range(pending'), All(chunks'), Sunk')
      BY <1>5, <1>6, <2>1, <2>3 DEF Apart
    <2> QED
      BY <1>6, <2>2, <2>3, <2>4 DEF StreamInv, PlaceInv
  <1>12. AheadInv'
    <2>1. \A u \in Threads : \A k : Concerns(u, k)' <=> Concerns(u, k)
      BY <1>2 DEF Concerns
    <2>2. \A u \in Threads : \A j \in DOMAIN cmds : AskOf(cmds[j], u)' <=> AskOf(cmds[j], u)
      BY <1>2 DEF AskOf
    <2>3. \A u \in Threads : PopAhead(u)' <=> PopAhead(u)
      BY <2>2 DEF PopAhead
    <2>4. AnsweredMeansRecorded' /\ Sunk' = Sunk
      BY DEF StreamInv, AheadInv, AnsweredMeansRecorded, Own, Sunk
    <2>5. Range(pending') = {}
      BY NoItems
    <2>6. \A u \in Threads : \A k \in DOMAIN recorded :
            Concerns(u, k)' /\ Popped(u)' /\ k \in All(chunks')
              => forwarder = "drain" \/ PopAhead(u)'
      <3> SUFFICES ASSUME NEW u \in Threads, NEW k \in DOMAIN recorded, Concerns(u, k),
                          Popped(u), k \in All(chunks')
                   PROVE  forwarder = "drain" \/ PopAhead(u)'
        BY <1>2, <2>1
      <3>1. k \notin Range(pending)
        BY <1>3 DEF StreamInv, AheadInv
      <3>2. k \in All(chunks)
        BY <3>1, <1>6
      <3>3. forwarder = "drain" \/ PopAhead(u)
        BY <3>2 DEF StreamInv, AheadInv
      <3> QED
        BY <3>3, <2>3
    <2>7. \A u \in Threads : \A k \in DOMAIN recorded : Concerns(u, k)' =>
            \A i, j \in DOMAIN cmds : Carries(cmds[i], k) /\ AskOf(cmds[j], u)' => i < j
      BY <2>1, <2>2 DEF StreamInv, AheadInv
    <2> QED
      BY <2>4, <2>5, <2>6, <2>7 DEF StreamInv, AheadInv
  <1> QED
    BY <1>7, <1>8, <1>9, <1>11, <1>12 DEF StreamInv

LEMMA FlushBatcherInv ==
  ASSUME StreamInv, NEW t \in Threads, FlushTheBatcher(t)
  PROVE  StreamInv'
  <1>1. todo[t] # <<>> /\ Head(todo[t]).op = "batcher"
    BY DEF FlushTheBatcher, At
  <1>2. PICK q : q = Tail(todo[t])
    OBVIOUS
  <1>3. /\ CallOK(todo[t], t) /\ CallOK(q, t) /\ Head(todo[t]) = todo[t][1]
        /\ t \in strong \/ Dropping(t)
    BY <1>1, <1>2, NextStep
  <1>4. todo[t][1].op = "batcher" /\ Rank(todo[t][1]) = 2
    BY <1>1, <1>3 DEF Rank
  <1>5. Plain(todo[t])
    BY <1>1, <1>4, PlainFacts
  <1>6. Plain(q)
    BY <1>1, <1>2, <1>5, NextStep
  <1>7. Ends(q, "forwarder") => Ends(todo[t], "forwarder")
    BY <1>1, <1>2, NextStep
  <1>8. Ends(todo[t], "forwarder") => Ends(q, "forwarder")
    BY <1>1, <1>2, <1>4, NextStep
  <1>9. Fresh(todo[t])
    BY <1>4 DEF Fresh
  <1>10. Waits(q) => Rank(q[1]) <= 3
    <2> SUFFICES ASSUME Waits(q) PROVE Rank(q[1]) <= 3
      OBVIOUS
    <2>1. q # <<>>
      BY DEF Waits, Ends
    <2>2. \A op : Ends(q, op) <=> Ends(todo[t], op)
      BY <2>1, <1>1, <1>2, <1>3, CallTail
    <2>3. Waits(todo[t])
      BY <2>2 DEF Waits
    <2>4. Rank(q[1]) = Rank(todo[t][1]) + 1
      BY <2>3, <1>1, <1>2, <1>3, <1>4, CallTail
    <2> QED
      BY <2>4, <1>4
  <1>11. todo' = [todo EXCEPT ![t] = q]
    BY <1>2 DEF FlushTheBatcher, Continue
  <1>12. /\ UNCHANGED <<inner, strong, reply, recorded, swaps, cmds, forwarder, sink, sunk>>
         /\ pending' = <<>>
         /\ \/ pending = <<>> /\ chunks' = chunks
            \/ chunks' = Append(chunks, pending)
    BY DEF FlushTheBatcher, life, logged
  <1> QED
    BY <1>3, <1>5, <1>6, <1>7, <1>8, <1>9, <1>10, <1>11, <1>12, BatchStep DEF Dropping

LEMMA BatchInv ==
  ASSUME StreamInv, Batch
  PROVE  StreamInv'
  <1>1. /\ pending \in Seq(Nat) /\ pending # <<>>
        /\ Apart(DOMAIN recorded, Called, Messages(cmds), Range(pending), All(chunks), Sunk)
        /\ recorded \in Seq([by : Threads, route : {"row", "msg"}, after : Nat])
    BY DEF StreamInv, TypeInv, PlaceInv, Batch
  <1>2. 1 \in DOMAIN pending
    BY <1>1
  <1>3. pending[1] \in DOMAIN recorded
    BY <1>1, <1>2, RangeFacts DEF Apart
  <1>4. PICK t \in Threads : TRUE
    <2>1. PICK k : k = pending[1]
      OBVIOUS
    <2>2. k \in 1..Len(recorded)
      BY <1>1, <1>3, <2>1
    <2>3. recorded[k] \in [by : Threads, route : {"row", "msg"}, after : Nat]
      BY <1>1, <2>2, ElementOfSeq
    <2>4. recorded[k].by \in Threads
      BY <2>3
    <2> QED
      BY <2>4
  <1>5. PICK q : q = todo[t]
    OBVIOUS
  <1>6. CallOK(q, t) /\ (Ends(q, "forwarder") <=> Dropping(t))
        /\ (q # <<>> => t \in strong \/ Dropping(t))
    BY <1>5 DEF StreamInv, TypeInv, LifeInv, Dropping
  <1>7. /\ UNCHANGED <<todo, inner, strong, reply, recorded, swaps, cmds, forwarder, sink, sunk>>
        /\ pending' = <<>> /\ chunks' = Append(chunks, pending)
    BY DEF Batch, calls, logged
  <1>8. todo' = [todo EXCEPT ![t] = q]
    BY <1>5, <1>7 DEF StreamInv, TypeInv
  <1> QED
    BY <1>5, <1>6, <1>7, <1>8, BatchStep

LEMMA SinkFacts ==
  ASSUME StreamInv
  PROVE  /\ sunk \in Seq(Seq(Nat)) /\ Len(sunk) = sink.n /\ sink.n \in DOMAIN sunk
         /\ sink.n \in Nat \ {0} /\ AllDistinct(sunk) /\ sink.kind # "empty"
         /\ sink = [n |-> sink.n, kind |-> sink.kind] /\ sink.kind \in AllKinds \ {"files", "empty"}
  <1>1. sunk \in Seq(Seq(Nat)) /\ Len(sunk) = sink.n /\ sink.n \in Nat \ {0} /\ AllDistinct(sunk)
    BY DEF StreamInv, TypeInv, PlaceInv
  <1>2. sink.n \in DOMAIN sunk
    BY <1>1
  <1> QED
    BY <1>1, <1>2 DEF StreamInv, TypeInv

\* LogSink::send
LEMMA SendToFacts ==
  ASSUME StreamInv, NEW items \in Seq(Nat), Distinct(items), Sunk \cap Range(items) = {},
         sunk' = SendTo(items), sink' = sink
  PROVE  /\ sunk' \in Seq(Seq(Nat)) /\ Len(sunk') = sink'.n /\ AllDistinct(sunk')
         /\ All(sunk') = All(sunk) \cup Range(items)
  <1>1. sunk' = [sunk EXCEPT ![sink.n] = @ \o items]
    BY SinkFacts DEF SendTo
  <1>2. All(sunk) \cap Range(items) = {}
    BY SunkAll
  <1>3. PICK n : n = sink.n
    OBVIOUS
  <1>4. n \in DOMAIN sunk /\ sunk \in Seq(Seq(Nat)) /\ AllDistinct(sunk) /\ Len(sunk) = n
    BY <1>3, SinkFacts
  <1>5. PICK qq : qq = sunk
    OBVIOUS
  <1>6. n \in DOMAIN qq /\ qq \in Seq(Seq(Nat)) /\ AllDistinct(qq) /\ All(qq) \cap Range(items) = {}
    BY <1>2, <1>4, <1>5
  <1>7. LET r == [qq EXCEPT ![n] = @ \o items]
        IN  /\ r \in Seq(Seq(Nat)) /\ Len(r) = Len(qq) /\ AllDistinct(r)
            /\ All(r) = All(qq) \cup Range(items)
    BY <1>6, AllPut
  <1> QED
    BY <1>1, <1>3, <1>4, <1>5, <1>7

\* The backlog moves to the new sink.
LEMMA ReplaceFacts ==
  ASSUME StreamInv, NEW kind, Replace(kind)
  PROVE  /\ sunk' \in Seq(Seq(Nat)) /\ Len(sunk') = sink'.n /\ AllDistinct(sunk')
         /\ All(sunk') = All(sunk) /\ sink' = [n |-> sink.n + 1, kind |-> kind]
         /\ sink' = [n |-> sink'.n, kind |-> sink'.kind] /\ sink'.n \in Nat \ {0}
         /\ sink'.kind = kind
  <1>1. PICK n : n = sink.n
    OBVIOUS
  <1>2. n \in DOMAIN sunk /\ sunk \in Seq(Seq(Nat)) /\ AllDistinct(sunk) /\ Len(sunk) = n
        /\ n \in Nat \ {0}
    BY <1>1, SinkFacts
  <1>3. PICK moved : moved = IF Buffering(sink) THEN sunk[n] ELSE <<>>
    OBVIOUS
  <1>4. PICK kept : kept = IF Buffering(sink) THEN <<>> ELSE sunk[n]
    OBVIOUS
  <1>5. \/ kept = sunk[n] /\ moved = <<>>
        \/ kept = <<>> /\ moved = sunk[n]
    BY <1>3, <1>4
  <1>6. sink' = [n |-> n + 1, kind |-> kind] /\ sunk' = Append([sunk EXCEPT ![n] = kept], moved)
    BY <1>1, <1>3, <1>4 DEF Replace
  <1>7. PICK qq : qq = sunk
    OBVIOUS
  <1>8. /\ n \in DOMAIN qq /\ qq \in Seq(Seq(Nat)) /\ AllDistinct(qq)
        /\ Moving(kept, moved, qq[n])
    BY <1>2, <1>5, <1>7 DEF Moving
  <1>9. LET r == Moved(qq, n, kept, moved)
        IN  /\ r \in Seq(Seq(Nat)) /\ Len(r) = Len(qq) + 1 /\ AllDistinct(r)
            /\ All(r) = All(qq)
    BY <1>8, AllMove
  <1> QED
    BY <1>1, <1>2, <1>6, <1>7, <1>9 DEF Moved

\* When the forwarding thread takes the command a thread waits for, everything that
\* concerns that thread is in a sink.
LEMMA HeadWants ==
  ASSUME StreamInv, forwarder = "select", cmds # <<>>, NEW t \in Threads, AskOf(cmds[1], t),
         NEW k \in DOMAIN recorded, Concerns(t, k)
  PROVE  k \in Sunk
  <1>1. 1 \in DOMAIN cmds /\ \A i \in DOMAIN cmds : ~(i < 1)
    <2>1. cmds \in Seq(ToSet(cmds))
      BY DEF StreamInv, TypeInv
    <2> QED
      BY <2>1
  <1>2. Popped(t)
    <2>1. CASE Asks(cmds[1], t)
      BY <2>1, <1>1, AskerFacts DEF StreamInv, AskInv
    <2>2. CASE cmds[1].op = "Shutdown" /\ Dropping(t)
      <3>1. PICK u \in Threads : Dropping(u) /\ Rank(todo[u][1]) = 6
        BY <2>2, <1>1 DEF StreamInv, LifeInv
      <3>2. u = t
        BY <3>1, <2>2 DEF StreamInv, LifeInv
      <3> QED
        BY <3>1, <3>2 DEF Popped, Dropping, Waits
    <2> QED
      BY <2>1, <2>2 DEF AskOf
  <1>3. k \notin Range(pending)
    <2>1. Batched(t)
      BY <1>2, RankType DEF Popped, Batched
    <2> QED
      BY <2>1 DEF StreamInv, AheadInv
  <1>4. k \notin All(chunks)
    <2>1. ~PopAhead(t)
      BY <1>1 DEF PopAhead
    <2> QED
      BY <2>1, <1>2 DEF StreamInv, AheadInv
  <1>5. k \notin Messages(cmds)
    <2>1. \A i \in DOMAIN cmds : ~Carries(cmds[i], k)
      BY <1>1 DEF StreamInv, AheadInv
    <2> QED
      BY <2>1, MessagesFacts
  <1>6. k \notin Called
    <2> SUFFICES ASSUME NEW u \in Threads, Sends(u, k) PROVE FALSE
      BY DEF Called
    <2>1. PICK j \in DOMAIN todo[u] : todo[u][j].op = "send" /\ Carries(todo[u][j].cmd, k)
      BY DEF Sends
    <2>2. recorded[k].by = u
      BY <2>1 DEF StreamInv, PlaceInv, Carries
    <2>3. Ends(todo[u], "release")
      BY <2>1 DEF StreamInv, TypeInv, CallOK, Carries
    <2>4. ~Waits(todo[u]) /\ todo[u] # <<>>
      BY <2>3 DEF Ends, Waits
    <2>5. u # t
      BY <2>4, <1>2 DEF Popped
    <2>6. Dropping(t)
      BY <2>2, <2>5 DEF Concerns
    <2>7. u \in strong
      BY <2>4 DEF StreamInv, LifeInv, Dropping, Waits
    <2> QED
      BY <2>6, <2>7 DEF StreamInv, LifeInv
  <1>7. Apart(DOMAIN recorded, Called, Messages(cmds), Range(pending), All(chunks), Sunk)
    BY DEF StreamInv, PlaceInv
  <1> QED
    BY <1>3, <1>4, <1>5, <1>6, <1>7 DEF Apart

LEMMA ForwardChunkInv ==
  ASSUME StreamInv, ForwardChunk
  PROVE  StreamInv'
  <1>1. /\ forwarder \in {"drain", "select"} /\ chunks # <<>> /\ sunk' = SendTo(Head(chunks))
        /\ chunks' = Tail(chunks) /\ forwarder' = "drain"
        /\ UNCHANGED <<todo, inner, strong, reply, recorded, swaps, pending, cmds, sink>>
    BY DEF ForwardChunk, calls, logged
  <1>2. /\ chunks \in Seq(Seq(Nat)) /\ AllDistinct(chunks)
        /\ Apart(DOMAIN recorded, Called, Messages(cmds), Range(pending), All(chunks), Sunk)
    BY DEF StreamInv, TypeInv, PlaceInv
  <1>3. PICK h : h = Head(chunks)
    OBVIOUS
  <1>4. /\ chunks' \in Seq(Seq(Nat)) /\ AllDistinct(chunks') /\ h \in Seq(Nat)
        /\ Distinct(h) /\ All(chunks) = Range(h) \cup All(chunks')
        /\ Range(h) \cap All(chunks') = {}
    BY <1>1, <1>2, <1>3, AllTail
  <1>5. Sunk \cap Range(h) = {}
    BY <1>2, <1>4 DEF Apart
  <1>6. /\ sunk' \in Seq(Seq(Nat)) /\ Len(sunk') = sink'.n /\ AllDistinct(sunk')
        /\ All(sunk') = All(sunk) \cup Range(h)
    BY <1>1, <1>3, <1>4, <1>5, SendToFacts
  <1>7. Sunk' = Sunk \cup Range(h)
    <2>1. Sunk' = All(sunk') /\ Sunk = All(sunk)
      BY DEF Sunk, All
    <2> QED
      BY <2>1, <1>6
  <1>8. TypeInv'
    BY <1>1, <1>4, <1>6 DEF StreamInv, TypeInv
  <1>9. LifeInv' /\ AskInv'
    BY <1>1 DEF StreamInv, LifeInv, AskInv, Dropping, Popped
  <1>10. PlaceInv'
    <2>1. Called' = Called
      BY <1>1 DEF Called, Sends
    <2>2. Apart(DOMAIN recorded', Called', Messages(cmds'), Range(pending'), All(chunks'), Sunk')
      BY <1>1, <1>2, <1>4, <1>7, <2>1 DEF Apart
    <2> QED
      BY <1>1, <1>4, <1>6, <2>2 DEF StreamInv, PlaceInv
  <1>11. AheadInv'
    <2>1. AnsweredMeansRecorded'
      BY <1>1, <1>7 DEF StreamInv, AheadInv, AnsweredMeansRecorded, Own
    <2>2. \A u \in Threads : /\ \A k : Concerns(u, k)' <=> Concerns(u, k)
                             /\ Batched(u)' <=> Batched(u)
                             /\ \A j \in DOMAIN cmds : AskOf(cmds[j], u)' <=> AskOf(cmds[j], u)
      BY <1>1 DEF Concerns, Batched, AskOf, Dropping
    <2> QED
      BY <1>1, <2>1, <2>2 DEF StreamInv, AheadInv
  <1> QED
    BY <1>8, <1>9, <1>10, <1>11 DEF StreamInv

\* Only where the forwarding thread is changes.
LEMMA DrainedInv ==
  ASSUME StreamInv, Drained \/ CmdsDisconnected
  PROVE  StreamInv'
  <1>1. /\ forwarder' \in {"select", "done"} /\ forwarder # "done"
        /\ UNCHANGED <<todo, inner, strong, reply, recorded, swaps, pending, chunks, cmds, sink, sunk>>
        /\ \/ chunks = <<>> /\ forwarder' = "select"
           \/ inner = "panicked" /\ cmds = <<>> /\ forwarder' = "done"
    BY DEF Drained, CmdsDisconnected, calls, logged
  <1>2. inner = "panicked" => \A t \in Threads : todo[t] = <<>> /\ ~Dropping(t) /\ ~Popped(t)
    <2> SUFFICES ASSUME inner = "panicked", NEW t \in Threads
                 PROVE  todo[t] = <<>> /\ ~Dropping(t) /\ ~Popped(t)
      OBVIOUS
    <2>1. todo[t] = <<>>
      BY DEF StreamInv, LifeInv
    <2> QED
      BY <2>1 DEF Dropping, Popped, Waits, Ends
  <1>3. TypeInv'
    BY <1>1 DEF StreamInv, TypeInv
  <1>4. \A t \in Threads : (Dropping(t)' <=> Dropping(t)) /\ (Popped(t)' <=> Popped(t)) /\ (Batched(t)' <=> Batched(t))
    BY <1>1 DEF Dropping, Popped, Batched
  <1>5. LifeInv'
    <2>1. CASE forwarder' = "select"
      BY <2>1, <1>1, <1>4 DEF StreamInv, LifeInv
    <2>2. CASE inner = "panicked" /\ cmds = <<>>
      BY <2>2, <1>1, <1>2, <1>4 DEF StreamInv, LifeInv
    <2> QED
      BY <1>1, <2>1, <2>2
  <1>6. AskInv'
    BY <1>1, <1>4, ThreadTypes DEF StreamInv, AskInv
  <1>7. PlaceInv'
    BY <1>1 DEF StreamInv, PlaceInv, Called, Sends, Sunk
  <1>8. AheadInv'
    <2>1. \A t \in Threads : /\ \A k : Concerns(t, k)' <=> Concerns(t, k)
                             /\ \A j \in DOMAIN cmds : AskOf(cmds[j], t)' <=> AskOf(cmds[j], t)
      BY <1>1, <1>4 DEF Concerns, AskOf
    <2>2. AnsweredMeansRecorded'
      BY <1>1 DEF StreamInv, AheadInv, AnsweredMeansRecorded, Own, Sunk
    <2>3. \A t \in Threads : ~(Popped(t)' /\ \E k : k \in All(chunks'))
      BY <1>1, <1>2, <1>4, NoItems
    <2>4. ~(forwarder' = "done" /\ inner' # "panicked")
      BY <1>1
    <2> QED
      BY <1>1, <1>4, <2>1, <2>2, <2>3, <2>4 DEF StreamInv, AheadInv
  <1> QED
    BY <1>3, <1>5, <1>6, <1>7, <1>8 DEF StreamInv

\* The forwarding thread is done with the first command.
LEMMA HandleStep ==
  ASSUME StreamInv, forwarder = "select", cmds # <<>>, NEW c, c = cmds[1], cmds' = Tail(cmds),
         forwarder' \in {"drain", "done"}, forwarder' = "done" <=> c.op = "Shutdown",
         UNCHANGED <<todo, inner, strong, recorded, pending, chunks>>,
         reply \subseteq reply', reply' \subseteq Users,
         \A u \in reply' \ reply : Answered(c, u),
         swaps' \in [Users -> Nat],
         sink' = [n |-> sink'.n, kind |-> sink'.kind], sink'.kind \in AllKinds \ {"files", "empty"},
         sink'.n \in Nat \ {0}, sunk' \in Seq(Seq(Nat)), Len(sunk') = sink'.n, AllDistinct(sunk'),
         All(sunk') = All(sunk) \cup (IF c.op = "RecordMsg" THEN {c.item} ELSE {})
  PROVE  StreamInv'
  <1>1. PICK d : d = cmds'
    OBVIOUS
  <1>2. /\ d \in Seq(ToSet(d)) /\ 1 \in DOMAIN cmds /\ cmds \in Seq(ToSet(cmds))
        /\ \A i \in DOMAIN d : d[i] = cmds[i + 1] /\ i + 1 \in DOMAIN cmds /\ i \in Nat \ {0}
        /\ \A i \in DOMAIN cmds : i \in Nat \ {0} /\ (i # 1 => i - 1 \in DOMAIN d /\ d[i - 1] = cmds[i])
    <2>1. cmds \in Seq(ToSet(cmds))
      BY DEF StreamInv, TypeInv
    <2> QED
      BY <2>1, <1>1, TailAny
  <1>3. \A t \in Threads : /\ Dropping(t)' <=> Dropping(t)
                           /\ Batched(t)' <=> Batched(t)
                           /\ Popped(t)' <=> Popped(t)
    BY DEF Dropping, Batched, Popped
  <1>4. TypeInv'
    BY <1>1, <1>2 DEF StreamInv, TypeInv
  <1>5. c.op = "Shutdown" => /\ \A i \in DOMAIN d : d[i].op # "Shutdown"
                             /\ inner = "dropping"
                             /\ \A t \in Threads : Dropping(t) => Rank(todo[t][1]) = 6
    <2> SUFFICES ASSUME c.op = "Shutdown"
                 PROVE  /\ \A i \in DOMAIN d : d[i].op # "Shutdown"
                        /\ inner = "dropping"
                        /\ \A t \in Threads : Dropping(t) => Rank(todo[t][1]) = 6
      OBVIOUS
    <2>1. PICK t \in Threads : Dropping(t) /\ Rank(todo[t][1]) = 6
      BY <1>2 DEF StreamInv, LifeInv
    <2>2. inner = "dropping" /\ \A u \in Threads : Dropping(u) => u = t
      BY <2>1 DEF StreamInv, LifeInv
    <2>3. \A i \in DOMAIN cmds : cmds[i].op = "Shutdown" => i = 1
      BY <1>2 DEF StreamInv, LifeInv
    <2>4. \A i \in DOMAIN d : d[i].op # "Shutdown"
      <3> SUFFICES ASSUME NEW i \in DOMAIN d, d[i].op = "Shutdown" PROVE FALSE
        OBVIOUS
      <3>1. i + 1 \in DOMAIN cmds /\ cmds[i + 1].op = "Shutdown" /\ i \in Nat \ {0}
        BY <1>2
      <3>2. i + 1 = 1
        BY <3>1, <2>3
      <3> QED
        BY <3>1, <3>2
    <2> QED
      BY <2>1, <2>2, <2>4
  <1>6. LifeInv'
    <2>1. \A j \in DOMAIN d : d[j].op = "Shutdown" =>
            /\ forwarder' # "done"
            /\ \E t \in Threads : Dropping(t)' /\ Rank(todo'[t][1]) = 6
            /\ \A i \in DOMAIN d : d[i].op = "Shutdown" => i = j
      <3> SUFFICES ASSUME NEW j \in DOMAIN d, d[j].op = "Shutdown"
                   PROVE  /\ forwarder' # "done"
                          /\ \E t \in Threads : Dropping(t)' /\ Rank(todo'[t][1]) = 6
                          /\ \A i \in DOMAIN d : d[i].op = "Shutdown" => i = j
        OBVIOUS
      <3>1. j + 1 \in DOMAIN cmds /\ cmds[j + 1].op = "Shutdown" /\ j \in Nat
        BY <1>2
      <3>2. \E t \in Threads : Dropping(t) /\ Rank(todo[t][1]) = 6
        BY <3>1 DEF StreamInv, LifeInv
      <3>3. \A i \in DOMAIN cmds : cmds[i].op = "Shutdown" => i = j + 1
        BY <3>1 DEF StreamInv, LifeInv
      <3>4. \A i \in DOMAIN d : d[i].op = "Shutdown" => i = j
        <4> SUFFICES ASSUME NEW i \in DOMAIN d, d[i].op = "Shutdown" PROVE i = j
          OBVIOUS
        <4>1. i + 1 \in DOMAIN cmds /\ cmds[i + 1].op = "Shutdown" /\ i \in Nat
          BY <1>2
        <4>2. i + 1 = j + 1
          BY <4>1, <3>3
        <4> QED
          BY <4>1, <4>2, <3>1
      <3> QED
        BY <3>2, <3>4, <1>3, <1>5
    <2>2. \A t \in Threads : Dropping(t)' /\ forwarder' = "done" => Rank(todo'[t][1]) = 6
      BY <1>3, <1>5
    <2>3. forwarder' = "done" => inner' # "alive"
      BY <1>5
    <2> QED
      BY <1>1, <1>3, <2>1, <2>2, <2>3 DEF StreamInv, LifeInv
  <1>7. \A u \in reply' \ reply : /\ u \in Users /\ u \in Threads /\ Asks(c, u)
                                  /\ Ends(todo[u], "await") /\ Rank(todo[u][1]) = 6
                                  /\ \A i \in DOMAIN d : ~Asks(d[i], u)
    <2> SUFFICES ASSUME NEW u \in reply' \ reply
                 PROVE  /\ u \in Users /\ u \in Threads /\ Asks(c, u)
                        /\ Ends(todo[u], "await") /\ Rank(todo[u][1]) = 6
                        /\ \A i \in DOMAIN d : ~Asks(d[i], u)
      OBVIOUS
    <2>1. u \in Users /\ u \in Threads /\ Answered(cmds[1], u) /\ Asks(cmds[1], u)
      BY ThreadTypes DEF Answered
    <2>2. /\ Ends(todo[u], "await") /\ Rank(todo[u][1]) = 6
          /\ \A i \in DOMAIN cmds : Asks(cmds[i], u) => i <= 1
      BY <2>1, <1>2 DEF StreamInv, AskInv
    <2>3. ASSUME NEW i \in DOMAIN d, Asks(d[i], u) PROVE FALSE
      <3>1. i + 1 \in DOMAIN cmds /\ Asks(cmds[i + 1], u) /\ i \in Nat \ {0}
        BY <2>3, <1>2
      <3>2. i + 1 <= 1
        BY <3>1, <2>2
      <3> QED
        BY <3>1, <3>2
    <2> QED
      BY <2>1, <2>2, <2>3
  <1>8. AskInv'
    <2>1. \A u \in Users : \A j \in DOMAIN d : Asks(d[j], u) =>
            /\ Popped(u)' /\ Ends(todo'[u], "await")
            /\ u \notin reply'
            /\ todo'[u][Len(todo'[u])].timeout => d[j].op = "Flush"
            /\ Answered(d[j], u) =>
                 Rank(todo'[u][1]) = 6 /\ \A i \in DOMAIN d : Asks(d[i], u) => i <= j
      <3> SUFFICES ASSUME NEW u \in Users, NEW j \in DOMAIN d, Asks(d[j], u)
                   PROVE  /\ Popped(u)' /\ Ends(todo'[u], "await")
                          /\ u \notin reply'
                          /\ todo'[u][Len(todo'[u])].timeout => d[j].op = "Flush"
                          /\ Answered(d[j], u) =>
                               /\ Rank(todo'[u][1]) = 6
                               /\ \A i \in DOMAIN d : Asks(d[i], u) => i <= j
        OBVIOUS
      <3>1. j + 1 \in DOMAIN cmds /\ d[j] = cmds[j + 1] /\ j \in Nat
        BY <1>2
      <3>2. /\ Popped(u) /\ Ends(todo[u], "await")
            /\ u \notin reply
            /\ todo[u][Len(todo[u])].timeout => cmds[j + 1].op = "Flush"
            /\ Answered(cmds[j + 1], u) =>
                 Rank(todo[u][1]) = 6 /\ \A i \in DOMAIN cmds : Asks(cmds[i], u) => i <= j + 1
        BY <3>1 DEF StreamInv, AskInv
      <3>3. u \notin reply'
        BY <3>2, <1>7
      <3>4. Answered(d[j], u) => \A i \in DOMAIN d : Asks(d[i], u) => i <= j
        <4> SUFFICES ASSUME Answered(d[j], u), NEW i \in DOMAIN d, Asks(d[i], u) PROVE i <= j
          OBVIOUS
        <4>1. i + 1 \in DOMAIN cmds /\ Asks(cmds[i + 1], u) /\ i \in Nat
          BY <1>2
        <4>2. i + 1 <= j + 1
          BY <4>1, <3>1, <3>2
        <4> QED
          BY <4>1, <4>2, <3>1
      <3> QED
        BY <3>1, <3>2, <3>3, <3>4, <1>3, ThreadTypes
    <2>2. \A u \in reply' : Ends(todo'[u], "await") /\ Rank(todo'[u][1]) = 6
      BY <1>7 DEF StreamInv, AskInv
    <2> QED
      BY <1>1, <2>1, <2>2 DEF AskInv
  <1>9. Sunk' = Sunk \cup (IF c.op = "RecordMsg" THEN {c.item} ELSE {})
    <2>1. Sunk' = All(sunk') /\ Sunk = All(sunk)
      BY DEF Sunk, All
    <2> QED
      BY <2>1
  <1>10. Apart(DOMAIN recorded, Called, Messages(cmds), Range(pending), All(chunks), Sunk)
    BY DEF StreamInv, PlaceInv
  <1>11. /\ Distinctly(d)
         /\ Messages(cmds) = Messages(d) \cup (IF c.op = "RecordMsg" THEN {c.item} ELSE {})
         /\ c.op = "RecordMsg" => c.item \notin Messages(d)
    <2>1. Distinctly(cmds) /\ Head(cmds) = c /\ d = Tail(cmds)
      BY <1>1, <1>2 DEF StreamInv, PlaceInv
    <2> QED
      BY <2>1, <1>2, MessagesTail
  <1>12. PlaceInv'
    <2>1. Called' = Called
      BY DEF Called, Sends
    <2>2. Apart(DOMAIN recorded, Called, Messages(d), Range(pending), All(chunks), Sunk')
      <3>1. CASE c.op = "RecordMsg"
        BY <3>1, <1>9, <1>10, <1>11 DEF Apart
      <3>2. CASE c.op # "RecordMsg"
        BY <3>2, <1>9, <1>10, <1>11
      <3> QED
        BY <3>1, <3>2
    <2> QED
      BY <1>1, <1>11, <2>1, <2>2 DEF StreamInv, PlaceInv
  <1>13. AheadInv'
    <2>1. \A t \in Threads : \A k : Concerns(t, k)' <=> Concerns(t, k)
      BY <1>3 DEF Concerns
    <2>3. \A t \in Threads : \A j \in DOMAIN d : AskOf(cmds[j], t)' <=> AskOf(d[j], t)
      BY <1>1, <1>3 DEF AskOf
    <2>4. AnsweredMeansRecorded'
      <3> SUFFICES ASSUME NEW u \in reply' PROVE Own(u)' \subseteq Sunk'
        BY DEF AnsweredMeansRecorded
      <3>1. Own(u)' = Own(u) /\ Sunk \subseteq Sunk'
        BY <1>9 DEF Own
      <3>2. CASE u \in reply
        BY <3>1, <3>2 DEF StreamInv, AheadInv, AnsweredMeansRecorded
      <3>3. CASE u \notin reply
        <4>1. u \in Threads /\ AskOf(cmds[1], u)
          BY <3>3, <1>7 DEF AskOf
        <4>2. \A k \in Own(u) : k \in DOMAIN recorded /\ Concerns(u, k)
          BY DEF Own, Concerns
        <4>3. \A k \in Own(u) : k \in Sunk
          BY <4>1, <4>2, HeadWants
        <4> QED
          BY <4>3, <3>1
      <3> QED
        BY <3>2, <3>3
    <2>5. c.op = "Shutdown" => Sunk = DOMAIN recorded
      <3> SUFFICES ASSUME c.op = "Shutdown" PROVE Sunk = DOMAIN recorded
        OBVIOUS
      <3>1. PICK t \in Threads : Dropping(t)
        BY <1>2 DEF StreamInv, LifeInv
      <3>2. AskOf(cmds[1], t)
        BY <3>1 DEF AskOf
      <3>3. \A k \in DOMAIN recorded : Concerns(t, k)
        BY <3>1 DEF Concerns
      <3>4. \A k \in DOMAIN recorded : k \in Sunk
        BY <3>2, <3>3, HeadWants
      <3> QED
        BY <3>4, <1>10 DEF Apart
    <2>6. forwarder' = "done" => Sunk' = DOMAIN recorded' /\ All(chunks') = {}
      BY <2>5, <1>9, <1>10 DEF Apart
    <2>7. \A t \in Threads : \A k \in DOMAIN recorded : Concerns(t, k) =>
            \A i, j \in DOMAIN d : Carries(d[i], k) /\ AskOf(d[j], t) => i < j
      <3> SUFFICES ASSUME NEW t \in Threads, NEW k \in DOMAIN recorded, Concerns(t, k),
                          NEW i \in DOMAIN d, NEW j \in DOMAIN d, Carries(d[i], k), AskOf(d[j], t)
                   PROVE  i < j
        OBVIOUS
      <3>1. /\ i + 1 \in DOMAIN cmds /\ j + 1 \in DOMAIN cmds /\ i \in Nat /\ j \in Nat
            /\ Carries(cmds[i + 1], k) /\ AskOf(cmds[j + 1], t)
        BY <1>2
      <3>2. i + 1 < j + 1
        BY <3>1 DEF StreamInv, AheadInv
      <3> QED
        BY <3>1, <3>2
    <2>8. \A t \in Threads : \A k \in DOMAIN recorded' : Concerns(t, k)' =>
            /\ Batched(t)' => k \notin Range(pending')
            /\ Popped(t)' /\ k \in All(chunks') => forwarder' = "drain" \/ PopAhead(t)'
      BY <1>3, <2>1, <2>6 DEF StreamInv, AheadInv
    <2>9. \A t \in Threads : \A k \in DOMAIN recorded' : Concerns(t, k)' =>
            \A i, j \in DOMAIN cmds' : Carries(cmds'[i], k) /\ AskOf(cmds[j], t)' => i < j
      BY <1>1, <2>1, <2>3, <2>7
    <2> QED
      BY <2>4, <2>6, <2>8, <2>9 DEF AheadInv
  <1> QED
    BY <1>4, <1>6, <1>8, <1>12, <1>13 DEF StreamInv

LEMMA HandleCmdInv ==
  ASSUME "files" \notin Kinds, StreamInv, HandleCmd
  PROVE  StreamInv'
  <1>1. PICK c : c = cmds[1]
    OBVIOUS
  <1>2. /\ forwarder = "select" /\ cmds # <<>> /\ cmds' = Tail(cmds)
        /\ UNCHANGED <<todo, inner, strong, recorded, pending, chunks>>
    BY DEF HandleCmd, calls
  <1>3. 1 \in DOMAIN cmds /\ CmdOK(c) /\ Head(cmds) = c
    <2>1. cmds \in Seq(ToSet(cmds)) /\ \A i \in DOMAIN cmds : CmdOK(cmds[i])
      BY DEF StreamInv, TypeInv
    <2>2. Head(cmds) = cmds[1] /\ 1 \in DOMAIN cmds
      BY <2>1, <1>2
    <2> QED
      BY <1>1, <2>1, <2>2
  <1>4. reply \subseteq Users /\ swaps \in [Users -> Nat]
    BY DEF StreamInv, TypeInv
  <1>5. UNCHANGED <<sink, sunk>> =>
          /\ sink' = [n |-> sink'.n, kind |-> sink'.kind] /\ sink'.kind \in AllKinds \ {"files", "empty"}
          /\ sink'.n \in Nat \ {0} /\ sunk' \in Seq(Seq(Nat)) /\ Len(sunk') = sink'.n
          /\ AllDistinct(sunk') /\ All(sunk') = All(sunk)
    BY SinkFacts
  <1>6. CASE c.op = "RecordMsg"
    <2>1. sunk' = SendTo(<<c.item>>) /\ forwarder' = "drain" /\ UNCHANGED <<reply, swaps, sink>>
      BY <1>3, <1>6 DEF HandleCmd
    <2>2. c.item \in Messages(cmds)
      BY <1>1, <1>3, <1>6 DEF Messages
    <2>3. Apart(DOMAIN recorded, Called, Messages(cmds), Range(pending), All(chunks), Sunk)
          /\ recorded \in Seq([by : Threads, route : {"row", "msg"}, after : Nat])
      BY DEF StreamInv, PlaceInv, TypeInv
    <2>4. c.item \in Nat /\ c.item \notin Sunk
      <3>1. DOMAIN recorded \subseteq Nat
        BY <2>3
      <3>2. c.item \in DOMAIN recorded /\ c.item \notin Sunk
        BY <2>2, <2>3 DEF Apart
      <3> QED
        BY <3>1, <3>2
    <2>5. PICK s : s = <<c.item>>
      OBVIOUS
    <2>6. s \in Seq(Nat) /\ Distinct(s) /\ Range(s) = {c.item}
      BY <2>4, <2>5 DEF Distinct, Range
    <2>7. Sunk \cap Range(s) = {}
      BY <2>4, <2>6
    <2>8. /\ sunk' \in Seq(Seq(Nat)) /\ Len(sunk') = sink'.n /\ AllDistinct(sunk')
          /\ All(sunk') = All(sunk) \cup {c.item}
      BY <2>1, <2>5, <2>6, <2>7, SendToFacts
    <2>9. sink' = [n |-> sink'.n, kind |-> sink'.kind] /\ sink'.kind \in AllKinds \ {"files", "empty"}
          /\ sink'.n \in Nat \ {0}
      BY <2>1, SinkFacts
    <2> QED
      BY <1>1, <1>2, <1>4, <1>6, <2>1, <2>8, <2>9, HandleStep
  <1>7. CASE c.op = "SwapSink"
    <2>1. /\ Replace(c.kind) /\ swaps' = [swaps EXCEPT ![c.by] = @ + 1]
          /\ forwarder' = "drain" /\ UNCHANGED reply
      BY <1>3, <1>7 DEF HandleCmd
    <2>2. c.kind \in AllKinds \ {"files", "empty"} /\ c.by \in Users
      BY <1>3, <1>7, StreamAssumption DEF CmdOK, AllKinds
    <2>3. swaps' \in [Users -> Nat]
      BY <2>1, <2>2, <1>4
    <2>4. /\ sunk' \in Seq(Seq(Nat)) /\ Len(sunk') = sink'.n /\ AllDistinct(sunk')
          /\ All(sunk') = All(sunk)
          /\ sink' = [n |-> sink'.n, kind |-> sink'.kind] /\ sink'.n \in Nat \ {0}
          /\ sink'.kind = c.kind
      BY <2>1, ReplaceFacts
    <2> QED
      BY <1>1, <1>2, <1>4, <1>7, <2>1, <2>2, <2>3, <2>4, HandleStep
  <1>8. CASE c.op = "Flush"
    <2>1. Reply(c.by) /\ forwarder' = "drain" /\ UNCHANGED <<swaps, sink, sunk>>
      BY <1>3, <1>8 DEF HandleCmd
    <2>2. reply \subseteq reply' /\ reply' \subseteq Users /\ \A u \in reply' \ reply : Answered(c, u)
      BY <2>1, <1>4, <1>8 DEF Reply, Answered, Asks
    <2> QED
      BY <1>1, <1>2, <1>4, <1>5, <1>8, <2>1, <2>2, HandleStep
  <1>9. CASE c.op = "FinalizeDeferredSinks"
    <2>1. Reply(c.by) /\ forwarder' = "drain" /\ UNCHANGED swaps /\ FinalizeSink
      BY <1>3, <1>9 DEF HandleCmd
    <2>2. reply \subseteq reply' /\ reply' \subseteq Users /\ \A u \in reply' \ reply : Answered(c, u)
      BY <2>1, <1>4, <1>9 DEF Reply, Answered, Asks
    <2>3. /\ sunk' \in Seq(Seq(Nat)) /\ Len(sunk') = sink'.n /\ AllDistinct(sunk')
          /\ All(sunk') = All(sunk)
          /\ sink' = [n |-> sink'.n, kind |-> sink'.kind] /\ sink'.n \in Nat \ {0}
          /\ sink'.kind \in AllKinds \ {"files", "empty"}
      <3>1. CASE sink.kind \in {"multi", "files"} /\ UNCHANGED sunk
                 /\ sink' = [sink EXCEPT !.kind = IF @ = "multi" THEN "streams" ELSE "empty"]
        <4>1. sink.kind = "multi"
          BY <3>1, SinkFacts
        <4>2. sink' = [n |-> sink.n, kind |-> "streams"]
          BY <3>1, <4>1, SinkFacts
        <4> QED
          BY <3>1, <4>2, SinkFacts DEF AllKinds
      <3>2. CASE Replace("buffered")
        BY <3>2, ReplaceFacts DEF AllKinds
      <3>3. CASE UNCHANGED <<sink, sunk>>
        BY <3>3, <1>5
      <3> QED
        BY <2>1, <3>1, <3>2, <3>3 DEF FinalizeSink
    <2> QED
      BY <1>1, <1>2, <1>4, <1>9, <2>1, <2>2, <2>3, HandleStep
  <1>10. CASE c.op \in {"InspectSink", "PopPendingChunks"}
    <2>1. forwarder' = "drain" /\ UNCHANGED <<reply, swaps, sink, sunk>>
      BY <1>3, <1>10 DEF HandleCmd
    <2> QED
      BY <1>1, <1>2, <1>4, <1>5, <1>10, <2>1, HandleStep
  <1>11. CASE c.op = "Shutdown"
    <2>1. forwarder' = "done" /\ UNCHANGED <<reply, swaps, sink, sunk>>
      BY <1>3, <1>11 DEF HandleCmd
    <2> QED
      BY <1>1, <1>2, <1>4, <1>5, <1>11, <2>1, HandleStep
  <1> QED
    BY <1>3, <1>6, <1>7, <1>8, <1>9, <1>10, <1>11 DEF CmdOK, CmdOps

LEMMA InitInv == Init => StreamInv
  <1> SUFFICES ASSUME Init PROVE StreamInv
    OBVIOUS
  <1>1. \A t \in Threads : todo[t] = <<>> /\ CallOK(todo[t], t) /\ DOMAIN todo[t] = {}
                           /\ ~Dropping(t) /\ ~Batched(t) /\ ~Popped(t)
    BY EmptyCall DEF Init, Dropping, Batched, Popped, Waits, Ends
  <1>2. sunk = <<<<>>>> /\ DOMAIN sunk = {1} /\ sunk[1] = <<>> /\ DOMAIN sunk[1] = {}
    BY DEF Init
  <1>3. AllDistinct(sunk) /\ All(sunk) = {}
    BY <1>2 DEF AllDistinct, All, Range
  <1>4. cmds = <<>> /\ chunks = <<>> /\ pending = <<>> /\ recorded = <<>> /\ DOMAIN cmds = {}
        /\ DOMAIN recorded = {}
    BY DEF Init
  <1>5. TypeInv
    <2>1. sink = [n |-> sink.n, kind |-> sink.kind] /\ sink.kind = "buffered" /\ sink.n = 1
      BY DEF Init
    <2>2. sunk \in Seq(Seq(Nat)) /\ Len(sunk) = 1
      BY <1>2
    <2>3. cmds \in Seq(ToSet(cmds)) /\ pending \in Seq(Nat) /\ chunks \in Seq(Seq(Nat))
          /\ recorded \in Seq([by : Threads, route : {"row", "msg"}, after : Nat])
      BY <1>4
    <2>4. swaps \in [Users -> Nat] /\ strong \subseteq Threads /\ reply \subseteq Users
          /\ forwarder \in {"drain", "select", "done"} /\ todo = [t \in Threads |-> todo[t]]
      BY ThreadTypes DEF Init
    <2> QED
      BY <1>1, <1>4, <2>1, <2>2, <2>3, <2>4 DEF TypeInv, AllKinds
  <1>6. LifeInv
    BY <1>1, <1>4 DEF Init, LifeInv
  <1>7. AskInv
    BY <1>4 DEF Init, AskInv
  <1>8. Called = {} /\ Sunk = {}
    BY <1>3, <1>4, SunkAll DEF Called
  <1>9. PlaceInv
    <2>1. Apart(DOMAIN recorded, Called, Messages(cmds), Range(pending), All(chunks), Sunk)
      BY <1>4, <1>8, NoItems DEF Apart
    <2> QED
      BY <1>1, <1>3, <1>4, <2>1, NoItems DEF PlaceInv
  <1>10. AheadInv
    BY <1>4, <1>8 DEF Init, AheadInv, AnsweredMeansRecorded
  <1> QED
    BY <1>5, <1>6, <1>7, <1>9, <1>10 DEF StreamInv

LEMMA StepOfInv ==
  ASSUME StreamInv, NEW t \in Threads, StepOf(t)
  PROVE  StreamInv'
  BY SendCmdInv, EarlyStepsInv, FlushBatcherInv, ReleaseInv, JoinForwarderInv DEF StepOf

LEMMA NextInv ==
  ASSUME "files" \notin Kinds, StreamInv, [Next]_vars
  PROVE  StreamInv'
  <1>1. ASSUME NEW u \in Users, RecordRow(u) \/ RecordMsg(u) PROVE StreamInv'
    BY <1>1, RecordRowInv, RecordMsgInv
  <1>2. ASSUME NEW u \in Users,
               \/ InspectSink(u) \/ \E kind \in Kinds : SetSink(u, kind)
               \/ \E timeout \in {None, "finite", "max"} : Flush(u, timeout)
               \/ Disconnect(u) \/ FinalizeDeferredSinks(u) \/ DropStream(u)
               \/ \E i \in Importers : LogFile(u, i)
        PROVE  StreamInv'
    BY <1>2, CallsInv
  <1>3. ASSUME NEW u \in Users, UserStep(u) \/ Timeout(u) PROVE StreamInv'
    <2>1. u \in Threads
      BY ThreadTypes
    <2> QED
      BY <1>3, <2>1, StepOfInv, EarlyStepsInv, AwaitReplyInv, TimeoutInv DEF UserStep
  <1>4. ASSUME NEW i \in Importers, ImporterStep(i) PROVE StreamInv'
    <2>1. i \in Threads
      BY ThreadTypes
    <2> QED
      BY <1>4, <2>1, StepOfInv, JoinItselfInv, UpgradeInv, EndOfFileInv DEF ImporterStep
  <1>5. CASE Batch \/ ForwardingThread
    BY <1>5, BatchInv, ForwardChunkInv, DrainedInv, HandleCmdInv DEF ForwardingThread
  <1>6. CASE UNCHANGED vars
    <2>1. UNCHANGED <<todo, inner, strong, reply>> /\ UNCHANGED data
      BY <1>6 DEF vars, data
    <2> QED
      BY <2>1, StreamFrame
  <1> QED
    BY <1>1, <1>2, <1>3, <1>4, <1>5, <1>6 DEF Next

\* Every step of a public function, of an importer, of the batcher and of
\* forwarding_thread keeps the invariant of the recording stream.
THEOREM StreamInductive ==
  ASSUME "files" \notin Kinds
  PROVE  Spec => []StreamInv
  <1>1. Init => StreamInv
    BY InitInv
  <1>2. StreamInv /\ [Next]_vars => StreamInv'
    BY NextInv
  <1> QED
    BY <1>1, <1>2, PTL DEF Spec

-----------------------------------------------------------------------------
\* ExactlyOnce

LEMMA OnePosition ==
  ASSUME NEW q, Distinct(q), NEW k, NEW p
  PROVE  /\ k \notin Range(q) => InList(p, q, k) = {}
         /\ k \in Range(q) => \E x : InList(p, q, k) = {x}
  <1>1. k \notin Range(q) => InList(p, q, k) = {}
    BY DEF Range, InList
  <1>2. ASSUME k \in Range(q) PROVE \E x : InList(p, q, k) = {x}
    <2>1. PICK j \in DOMAIN q : q[j] = k
      BY <1>2 DEF Range
    <2>2. {i \in DOMAIN q : q[i] = k} = {j}
      BY <2>1 DEF Distinct
    <2>3. InList(p, q, k) = {<<p, j>>}
      BY <2>2 DEF InList
    <2> QED
      BY <2>3
  <1> QED
    BY <1>1, <1>2

LEMMA OnePositionOfAll ==
  ASSUME NEW qq, AllDistinct(qq), NEW k, NEW name
  PROVE  /\ k \notin All(qq) => InLists(name, qq, k) = {}
         /\ k \in All(qq) => \E x : InLists(name, qq, k) = {x}
  <1>1. \A x : x \in InLists(name, qq, k) <=>
                \E c \in DOMAIN qq : \E i \in DOMAIN qq[c] : qq[c][i] = k /\ x = <<<<name, c>>, i>>
    BY DEF InLists, InList
  <1>2. k \notin All(qq) => InLists(name, qq, k) = {}
    BY <1>1, AllFacts
  <1>3. ASSUME k \in All(qq) PROVE \E x : InLists(name, qq, k) = {x}
    <2>1. PICK c \in DOMAIN qq : \E i \in DOMAIN qq[c] : qq[c][i] = k
      BY <1>3, AllFacts
    <2>2. PICK i \in DOMAIN qq[c] : qq[c][i] = k
      BY <2>1
    <2>3. PICK x : x = <<<<name, c>>, i>>
      OBVIOUS
    <2>4. x \in InLists(name, qq, k)
      BY <1>1, <2>2, <2>3
    <2>5. \A y \in InLists(name, qq, k) : y = x
      BY <1>1, <2>2, <2>3 DEF AllDistinct
    <2>6. InLists(name, qq, k) = {x}
      BY <2>4, <2>5
    <2> QED
      BY <2>6
  <1> QED
    BY <1>2, <1>3

LEMMA PlacesOnce ==
  ASSUME StreamInv
  PROVE  ExactlyOnce
  <1>1. /\ Distinct(pending) /\ AllDistinct(chunks) /\ AllDistinct(sunk) /\ Distinctly(cmds)
        /\ Apart(DOMAIN recorded, Called, Messages(cmds), Range(pending), All(chunks), Sunk)
    BY DEF StreamInv, PlaceInv
  <1> SUFFICES ASSUME NEW k
               PROVE  /\ k \in DOMAIN recorded => Cardinality(Places(k)) = 1
                      /\ k \notin DOMAIN recorded => Places(k) = {}
    BY DEF ExactlyOnce
  <1>2. PICK A : A = InList(<<"batcher", 0>>, pending, k)
    OBVIOUS
  <1>3. PICK B : B = InLists("chunk", chunks, k)
    OBVIOUS
  <1>4. PICK C : C = {<<"commands", 0>>} \X {j \in DOMAIN cmds : Carries(cmds[j], k)}
    OBVIOUS
  <1>5. PICK D : D = InLists("sink", sunk, k)
    OBVIOUS
  <1>6. PICK E : E = {<<"call", 0>>} \X {t \in Threads : Sends(t, k)}
    OBVIOUS
  <1>7. Places(k) = A \cup B \cup C \cup D \cup E
    BY <1>2, <1>3, <1>4, <1>5, <1>6 DEF Places
  <1>8. (k \notin Range(pending) => A = {}) /\ (k \in Range(pending) => \E x : A = {x})
    BY <1>1, <1>2, OnePosition
  <1>9. (k \notin All(chunks) => B = {}) /\ (k \in All(chunks) => \E x : B = {x})
    BY <1>1, <1>3, OnePositionOfAll
  <1>10. (k \notin Sunk => D = {}) /\ (k \in Sunk => \E x : D = {x})
    BY <1>1, <1>5, OnePositionOfAll, SunkAll
  <1>11. (k \notin Messages(cmds) => C = {}) /\ (k \in Messages(cmds) => \E x : C = {x})
    <2>1. k \notin Messages(cmds) => C = {}
      BY <1>4, MessagesFacts
    <2>2. ASSUME k \in Messages(cmds) PROVE \E x : C = {x}
      <3>1. PICK j \in DOMAIN cmds : Carries(cmds[j], k)
        BY <2>2, MessagesFacts
      <3>2. {i \in DOMAIN cmds : Carries(cmds[i], k)} = {j}
        BY <3>1, <1>1 DEF Carries, Distinctly
      <3>3. C = {<<<<"commands", 0>>, j>>}
        BY <3>2, <1>4
      <3> QED
        BY <3>3
    <2> QED
      BY <2>1, <2>2
  <1>12. (k \notin Called => E = {}) /\ (k \in Called => \E x : E = {x})
    <2>1. \A t \in Threads : Sends(t, k) => k \in DOMAIN recorded /\ recorded[k].by = t
      BY DEF Sends, Carries, StreamInv, PlaceInv
    <2>2. k \notin Called => E = {}
      BY <1>6, <2>1 DEF Called
    <2>3. ASSUME k \in Called PROVE \E x : E = {x}
      <3>1. PICK t \in Threads : Sends(t, k)
        BY <2>3 DEF Called
      <3>2. {u \in Threads : Sends(u, k)} = {t}
        BY <3>1, <2>1
      <3>3. E = {<<<<"call", 0>>, t>>}
        BY <3>2, <1>6
      <3> QED
        BY <3>3
    <2> QED
      BY <2>2, <2>3
  <1>13. k \notin DOMAIN recorded => Places(k) = {}
    BY <1>1, <1>7, <1>8, <1>9, <1>10, <1>11, <1>12 DEF Apart
  <1>14. ASSUME k \in DOMAIN recorded PROVE \E x : Places(k) = {x}
    <2>1. CASE k \in Called
      <3>1. A = {} /\ B = {} /\ C = {} /\ D = {}
        BY <2>1, <1>1, <1>8, <1>9, <1>10, <1>11 DEF Apart
      <3> QED
        BY <2>1, <3>1, <1>7, <1>12
    <2>2. CASE k \in Messages(cmds)
      <3>1. A = {} /\ B = {} /\ E = {} /\ D = {}
        BY <2>2, <1>1, <1>8, <1>9, <1>10, <1>12 DEF Apart
      <3> QED
        BY <2>2, <3>1, <1>7, <1>11
    <2>3. CASE k \in Range(pending)
      <3>1. C = {} /\ B = {} /\ E = {} /\ D = {}
        BY <2>3, <1>1, <1>9, <1>10, <1>11, <1>12 DEF Apart
      <3> QED
        BY <2>3, <3>1, <1>7, <1>8
    <2>4. CASE k \in All(chunks)
      <3>1. C = {} /\ A = {} /\ E = {} /\ D = {}
        BY <2>4, <1>1, <1>8, <1>10, <1>11, <1>12 DEF Apart
      <3> QED
        BY <2>4, <3>1, <1>7, <1>9
    <2>5. CASE k \in Sunk
      <3>1. C = {} /\ A = {} /\ E = {} /\ B = {}
        BY <2>5, <1>1, <1>8, <1>9, <1>11, <1>12 DEF Apart
      <3> QED
        BY <2>5, <3>1, <1>7, <1>10
    <2> QED
      BY <1>1, <1>14, <2>1, <2>2, <2>3, <2>4, <2>5 DEF Apart
  <1>15. k \in DOMAIN recorded => Cardinality(Places(k)) = 1
    BY <1>14, FS_Singleton
  <1> QED
    BY <1>13, <1>15

\* What record_row and record_msg took is in exactly one place on its way through
\* forwarding_thread or in exactly one sink, whatever sinks set_sink exchanges meanwhile.
THEOREM StreamExactlyOnce ==
  ASSUME "files" \notin Kinds
  PROVE  Spec => []ExactlyOnce
  <1>1. Spec => []StreamInv
    BY StreamInductive
  <1>2. StreamInv => ExactlyOnce
    BY PlacesOnce
  <1> QED
    BY <1>1, <1>2, PTL

\* When the answer to the command of a set_sink, a flush or a finalize_deferred_sinks is
\* there, everything that its thread logged is in a sink.
THEOREM StreamAnsweredMeansRecorded ==
  ASSUME "files" \notin Kinds
  PROVE  Spec => []AnsweredMeansRecorded
  <1>1. Spec => []StreamInv
    BY StreamInductive
  <1>2. StreamInv => AnsweredMeansRecorded
    BY DEF StreamInv, AheadInv
  <1> QED
    BY <1>1, <1>2, PTL

\* Only a command exchanges the sink.
LEMMA SinkStep ==
  ASSUME StreamInv, [Next]_vars, sink' # sink
  PROVE  /\ HandleCmd /\ forwarder = "select" /\ cmds # <<>>
         /\ Head(cmds).op \in {"SwapSink", "FinalizeDeferredSinks"}
  <1>1. \A t : ~StepOf(t)
    BY DEF StepOf, SendCmd, Take, JoinImporters, FlushTheBatcher, ReleaseHandle,
           JoinForwardingThread, pipeline
  <1>2. \A u : ~UserStep(u) /\ ~Timeout(u)
    BY <1>1 DEF UserStep, RegisterImporter, AwaitReply, Timeout, pipeline
  <1>3. \A i : ~ImporterStep(i)
    BY <1>1 DEF ImporterStep, JoinItself, Upgrade, EndOfFile, pipeline
  <1>4. \A u : /\ ~RecordRow(u) /\ ~RecordMsg(u) /\ ~InspectSink(u) /\ ~Disconnect(u)
               /\ ~FinalizeDeferredSinks(u) /\ ~DropStream(u)
               /\ \A x : ~SetSink(u, x) /\ ~Flush(u, x) /\ ~LogFile(u, x)
    BY DEF RecordRow, RecordMsg, InspectSink, Disconnect, FinalizeDeferredSinks, DropStream,
           SetSink, Flush, LogFile, Call, pipeline
  <1>5. ~Batch /\ ~ForwardChunk /\ ~Drained /\ ~CmdsDisconnected /\ ~UNCHANGED vars
    BY DEF Batch, ForwardChunk, Drained, CmdsDisconnected, vars
  <1>6. HandleCmd
    BY <1>2, <1>3, <1>4, <1>5 DEF Next, ForwardingThread
  <1> QED
    BY <1>6 DEF HandleCmd

\* forwarding_thread exchanges or finalizes a sink only when it has forwarded everything
\* that the thread which asked for it had logged.
THEOREM StreamSinkLeavesLast ==
  ASSUME "files" \notin Kinds
  PROVE  Spec => SinkLeavesLast
  <1>1. Spec => []StreamInv
    BY StreamInductive
  <1>2. StreamInv /\ [Next]_vars =>
          [sink' # sink => \A k \in Own(Head(cmds).by) :
             recorded[k].after <= swaps[Head(cmds).by] => k \in Sunk]_vars
    <2> SUFFICES ASSUME StreamInv, [Next]_vars, sink' # sink, NEW k \in Own(Head(cmds).by)
                 PROVE  k \in Sunk
      OBVIOUS
    <2>1. /\ forwarder = "select" /\ cmds # <<>>
          /\ Head(cmds).op \in {"SwapSink", "FinalizeDeferredSinks"}
      BY SinkStep
    <2>2. cmds \in Seq(ToSet(cmds)) /\ \A i \in DOMAIN cmds : CmdOK(cmds[i])
      BY DEF StreamInv, TypeInv
    <2>3. Head(cmds) = cmds[1] /\ 1 \in DOMAIN cmds
      BY <2>1, <2>2
    <2>4. PICK u : u = cmds[1].by
      OBVIOUS
    <2>5. u \in Threads /\ Asks(cmds[1], u)
      BY <2>1, <2>2, <2>3, <2>4, ThreadTypes DEF CmdOK, Asks
    <2>6. k \in DOMAIN recorded /\ Concerns(u, k)
      BY <2>3, <2>4 DEF Own, Concerns
    <2>7. AskOf(cmds[1], u)
      BY <2>5 DEF AskOf
    <2> QED
      BY <2>1, <2>5, <2>6, <2>7, HeadWants
  <1> QED
    BY <1>1, <1>2, PTL DEF Spec, SinkLeavesLast

LEMMA ItemFacts ==
  ASSUME StreamInv, NEW k \in DOMAIN recorded
  PROVE  recorded[k].by \in Threads /\ recorded[k].after \in Nat
  <1>1. recorded \in Seq([by : Threads, route : {"row", "msg"}, after : Nat])
    BY DEF StreamInv, TypeInv
  <1>2. k \in 1..Len(recorded)
    BY <1>1
  <1>3. recorded[k] \in [by : Threads, route : {"row", "msg"}, after : Nat]
    BY <1>1, <1>2, ElementOfSeq
  <1> QED
    BY <1>3

\* What Drop for RecordingStreamInner has seen, and the sinks that items were logged after.
EndInv ==
    /\ inner = "dropped" => forwarder = "done"
    /\ \A k \in DOMAIN recorded : recorded[k].by \in Users =>
         recorded[k].after <= swaps[recorded[k].by]

LEMMA EndFrame ==
  ASSUME EndInv, inner' # "dropped" \/ inner' = inner, forwarder' = forwarder,
         UNCHANGED <<recorded, swaps>>
  PROVE  EndInv'
  BY DEF EndInv

\* A user that logs has no exchange of the sink on its way.
LEMMA RecordAfter ==
  ASSUME StreamInv, EndInv, NEW t \in Threads, NEW route, todo[t] = <<>>, Record(t, route),
         UNCHANGED <<inner, forwarder, swaps>>
  PROVE  EndInv'
  <1>1. \A j \in DOMAIN cmds : ~Asks(cmds[j], t)
    BY NotAsking DEF Ends
  <1>2. {k \in DOMAIN cmds : cmds[k].op = "SwapSink" /\ cmds[k].by = t} = {}
    BY <1>1 DEF Asks
  <1>3. PICK e : e = [by |-> t, route |-> route, after |-> IF t \in Users THEN swaps[t] + 0 ELSE 0]
    OBVIOUS
  <1>4. recorded' = Append(recorded, e)
    BY <1>2, <1>3, FS_EmptySet DEF Record
  <1>5. swaps \in [Users -> Nat] /\ recorded \in Seq([by : Threads, route : {"row", "msg"}, after : Nat])
    BY DEF StreamInv, TypeInv
  <1>6. e.by = t /\ (t \in Users => e.after = swaps[t] /\ swaps[t] \in Nat)
    BY <1>3, <1>5
  <1>7. recorded \in Seq(ToSet(recorded))
    BY <1>5, OwnSeq
  <1>8. \A i \in DOMAIN recorded' : (i \in DOMAIN recorded /\ recorded'[i] = recorded[i]) \/ recorded'[i] = e
    BY <1>4, <1>7, AppendAny
  <1> QED
    BY <1>6, <1>8 DEF EndInv

LEMMA EndStepInv ==
  ASSUME StreamInv, EndInv, [Next]_vars
  PROVE  EndInv'
  <1>1. ASSUME NEW t \in Threads, StepOf(t) PROVE EndInv'
    <2>1. CASE JoinForwardingThread(t)
      BY <2>1 DEF JoinForwardingThread, EndInv, logged, pipeline
    <2>2. CASE ~JoinForwardingThread(t)
      <3>1. /\ inner' # "dropped" \/ inner' = inner
            /\ UNCHANGED <<recorded, swaps>> /\ forwarder' = forwarder
        BY <1>1, <2>2 DEF StepOf, SendCmd, Take, JoinImporters, FlushTheBatcher, ReleaseHandle,
                          life, logged, pipeline
      <3> QED
        BY <3>1, EndFrame
    <2> QED
      BY <2>1, <2>2
  <1>2. ASSUME NEW u \in Users, RecordRow(u) \/ RecordMsg(u) PROVE EndInv'
    <2>1. u \in Threads /\ todo[u] = <<>> /\ (Record(u, "row") \/ Record(u, "msg"))
          /\ UNCHANGED <<inner, forwarder, swaps>>
      BY <1>2, ThreadTypes DEF RecordRow, RecordMsg, CanCall, calls
    <2> QED
      BY <2>1, RecordAfter
  <1>3. ASSUME NEW u \in Users,
               \/ InspectSink(u) \/ \E kind \in Kinds : SetSink(u, kind)
               \/ \E timeout \in {None, "finite", "max"} : Flush(u, timeout)
               \/ Disconnect(u) \/ FinalizeDeferredSinks(u) \/ DropStream(u)
               \/ \E i \in Importers : LogFile(u, i)
        PROVE  EndInv'
    <2>1. UNCHANGED <<inner, forwarder, recorded, swaps>>
      BY <1>3 DEF InspectSink, Disconnect, FinalizeDeferredSinks, DropStream,
                  SetSink, Flush, LogFile, Call, life, logged, pipeline
    <2> QED
      BY <2>1, EndFrame
  <1>4. ASSUME NEW u \in Users, UserStep(u) \/ Timeout(u) PROVE EndInv'
    <2>1. u \in Threads
      BY ThreadTypes
    <2>2. CASE RegisterImporter(u) \/ AwaitReply(u) \/ Timeout(u)
      <3>1. UNCHANGED <<inner, forwarder, recorded, swaps>>
        BY <2>2 DEF RegisterImporter, AwaitReply, Timeout, life, logged, pipeline
      <3> QED
        BY <3>1, EndFrame
    <2> QED
      BY <1>1, <1>4, <2>1, <2>2 DEF UserStep
  <1>5. ASSUME NEW i \in Importers, ImporterStep(i) PROVE EndInv'
    <2>1. i \in Threads
      BY ThreadTypes
    <2>2. CASE JoinItself(i) \/ EndOfFile(i) \/ (Upgrade(i) /\ inner # "alive")
      <3>1. /\ inner' # "dropped" \/ inner' = inner
            /\ UNCHANGED <<forwarder, recorded, swaps>>
        BY <2>2 DEF JoinItself, EndOfFile, Upgrade, life, logged, pipeline
      <3> QED
        BY <3>1, EndFrame
    <2>3. CASE Upgrade(i) /\ inner = "alive"
      <3>1. todo[i] = <<>> /\ Record(i, "msg") /\ UNCHANGED <<inner, forwarder, swaps>>
        BY <2>3 DEF Upgrade, pipeline
      <3> QED
        BY <3>1, <2>1, RecordAfter
    <2> QED
      BY <1>1, <1>5, <2>1, <2>2, <2>3 DEF ImporterStep
  <1>6. CASE Batch \/ UNCHANGED vars
    <2>1. UNCHANGED <<inner, forwarder, recorded, swaps>>
      BY <1>6 DEF Batch, calls, logged, vars
    <2> QED
      BY <2>1, EndFrame
  <1>7. CASE ForwardingThread
    <2>1. /\ forwarder \in {"drain", "select"} /\ inner' = inner /\ recorded' = recorded
          /\ \/ swaps' = swaps
             \/ \E u \in Users : swaps' = [swaps EXCEPT ![u] = @ + 1]
      <3>1. CASE ForwardChunk \/ Drained \/ CmdsDisconnected
        BY <3>1 DEF ForwardChunk, Drained, CmdsDisconnected, calls, logged
      <3>2. CASE HandleCmd
        <4>1. cmds \in Seq(ToSet(cmds)) /\ \A i \in DOMAIN cmds : CmdOK(cmds[i])
          BY DEF StreamInv, TypeInv
        <4>2. cmds # <<>> /\ Head(cmds) = cmds[1] /\ 1 \in DOMAIN cmds
          BY <4>1, <3>2 DEF HandleCmd
        <4>3. Head(cmds).op = "SwapSink" => Head(cmds).by \in Users
          BY <4>1, <4>2 DEF CmdOK
        <4> QED
          BY <3>2, <4>3 DEF HandleCmd, calls
      <3> QED
        BY <1>7, <3>1, <3>2 DEF ForwardingThread
    <2>2. inner' # "dropped"
      BY <2>1 DEF EndInv
    <2>3. swaps \in [Users -> Nat]
      BY DEF StreamInv, TypeInv
    <2>4. \A u \in Users : swaps[u] <= swaps'[u] /\ swaps[u] \in Nat /\ swaps'[u] \in Nat
      BY <2>1, <2>3
    <2>5. \A k \in DOMAIN recorded : recorded[k].after \in Nat
      BY ItemFacts
    <2> QED
      BY <2>1, <2>2, <2>4, <2>5 DEF EndInv
  <1> QED
    BY <1>2, <1>3, <1>4, <1>5, <1>6, <1>7 DEF Next

LEMMA StreamEnd ==
  ASSUME "files" \notin Kinds
  PROVE  Spec => [](StreamInv /\ EndInv)
  <1>1. Spec => []StreamInv
    BY StreamInductive
  <1>2. Init => EndInv
    BY DEF Init, EndInv
  <1>3. StreamInv /\ EndInv /\ [Next]_vars => EndInv'
    BY EndStepInv
  <1> QED
    BY <1>1, <1>2, <1>3, PTL DEF Spec

\* Once Drop for RecordingStreamInner is over, everything that any thread logged is in a
\* sink: the Shutdown that ends forwarding_thread has all of it ahead.
THEOREM StreamDropFlushes ==
  ASSUME "files" \notin Kinds
  PROVE  Spec => []DropFlushes
  <1>1. Spec => [](StreamInv /\ EndInv)
    BY StreamEnd
  <1>2. StreamInv /\ EndInv => DropFlushes
    BY DEF StreamInv, EndInv, AheadInv, DropFlushes
  <1> QED
    BY <1>1, <1>2, PTL

\* A thread logs only when forwarding_thread has handled all its SwapSink commands, so
\* that what it logs after its set_sink cannot land in the sink before.
THEOREM StreamLandsInNewSink ==
  ASSUME "files" \notin Kinds
  PROVE  Spec => []LandsInNewSink
  <1>1. Spec => [](StreamInv /\ EndInv)
    BY StreamEnd
  <1>2. StreamInv /\ EndInv => LandsInNewSink
    <2> SUFFICES ASSUME StreamInv, EndInv, NEW u \in Users, NEW k \in Own(u)
                 PROVE  swaps[u] >= recorded[k].after
      BY DEF LandsInNewSink
    <2>1. k \in DOMAIN recorded /\ recorded[k].by = u
      BY DEF Own
    <2>2. recorded[k].after <= swaps[u]
      BY <2>1 DEF EndInv
    <2>3. swaps \in [Users -> Nat]
      BY DEF StreamInv, TypeInv
    <2>4. swaps[u] \in Nat /\ recorded[k].after \in Nat
      BY <2>1, <2>3, ItemFacts
    <2> QED
      BY <2>2, <2>4
  <1> QED
    BY <1>1, <1>2, PTL

-----------------------------------------------------------------------------
(* The registry of open operations *)

Consistent == RegistryTypeOK /\ IndexesAgree /\ LookupExact /\ NoLeak

LEMMA InitConsistent == RegistryInit => Consistent
  BY SomeAssumption DEF RegistryInit, Consistent, RegistryTypeOK, IndexesAgree, LookupExact, NoLeak

\* register_operation
LEMMA RegisterConsistent ==
    ASSUME Consistent, NEW s \in Sources, NEW o \in Operations, RegisterOperation(s, o)
    PROVE  Consistent'
<1>1. RegistryTypeOK'
  BY DEF Consistent, RegistryTypeOK, RegisterOperation
<1>2. \A r \in Recordings : <<o, r>> \notin subscriptions
  BY DEF Consistent, IndexesAgree, RegisterOperation
<1>3. IndexesAgree'
  BY <1>2 DEF Consistent, RegistryTypeOK, IndexesAgree, RegisterOperation
<1>4. LookupExact'
  BY DEF Consistent, LookupExact, RegisterOperation
<1>5. NoLeak'
  <2>1. /\ operations' = operations \cup {o} /\ sources' = sources \cup {s}
        /\ opSource' = [opSource EXCEPT ![o] = s] /\ o \notin operations
        /\ UNCHANGED <<recordings, removed, subscribers, recSource>>
    BY DEF RegisterOperation
  <2>2. opSource'[o] = s /\ \A p \in operations : opSource'[p] = opSource[p]
    BY <2>1 DEF Consistent, RegistryTypeOK
  <2>3. ASSUME NEW x \in Sources
        PROVE  x \in sources' <=> \/ \E p \in operations' : opSource'[p] = x
                                  \/ \E q \in recordings' : recSource'[q] = x
    <3>1. (\E p \in operations' : opSource'[p] = x)
            <=> x = s \/ \E p \in operations : opSource[p] = x
      BY <2>1, <2>2
    <3> QED
      BY <2>1, <3>1 DEF Consistent, NoLeak
  <2> QED
    BY <2>1, <2>3 DEF Consistent, NoLeak
<1> QED
  BY <1>1, <1>3, <1>4, <1>5 DEF Consistent

\* publish_recording
LEMMA PublishConsistent ==
    ASSUME Consistent, NEW o \in Operations, NEW r \in Recordings, NEW t \in Stores,
           PublishRecording(o, r, t)
    PROVE  Consistent'
<1>1. RegistryTypeOK'
  BY DEF Consistent, RegistryTypeOK, PublishRecording
<1>2. /\ r \notin removed
      /\ \A p \in Operations : <<p, r>> \notin subscriptions /\ <<r, p>> \notin subscribers
  BY DEF Consistent, RegistryTypeOK, IndexesAgree, NoLeak, PublishRecording
<1>3. IndexesAgree'
  BY <1>2 DEF Consistent, RegistryTypeOK, IndexesAgree, PublishRecording
<1>4. LookupExact'
  <2>1. /\ storeReverse' = storeReverse \cup {<<t, r>>}
        /\ recordings' = recordings \cup {r}
        /\ removed' = removed
        /\ recStore' = [recStore EXCEPT ![r] = t]
        /\ r \notin recordings
        /\ \A q \in Recordings : <<t, q>> \notin storeReverse
    BY DEF PublishRecording
  <2>2. recStore'[r] = t /\ \A q \in recordings : recStore'[q] = recStore[q]
    BY <2>1 DEF Consistent, RegistryTypeOK
  <2>3. \A q \in recordings \ removed : recStore[q] # t
    BY <2>1 DEF Consistent, RegistryTypeOK, LookupExact
  <2>4. ASSUME NEW p \in Stores, NEW q \in Recordings
        PROVE  <<p, q>> \in storeReverse'
                 <=> q \in recordings' \ removed' /\ recStore'[q] = p
    <3>1. CASE q = r
      BY <3>1, <2>1, <2>2, <1>2 DEF Consistent, LookupExact
    <3>2. CASE q # r
      BY <3>2, <2>1, <2>2 DEF Consistent, LookupExact
    <3> QED
      BY <3>1, <3>2
  <2>5. \A p, q \in recordings' \ removed' : recStore'[p] = recStore'[q] => p = q
    BY <2>1, <2>2, <2>3 DEF Consistent, LookupExact
  <2> QED
    BY <2>4, <2>5 DEF LookupExact
<1>5. NoLeak'
  <2>1. /\ recordings' = recordings \cup {r} /\ subscribers' = subscribers \cup {<<r, o>>}
        /\ recSource' = [recSource EXCEPT ![r] = opSource[o]]
        /\ r \notin recordings /\ o \in operations
        /\ UNCHANGED <<sources, operations, opSource, removed>>
    BY DEF PublishRecording
  <2>2. recSource'[r] = opSource[o] /\ \A q \in recordings : recSource'[q] = recSource[q]
    BY <2>1 DEF Consistent, RegistryTypeOK
  <2>3. \A q \in removed' : q \in recordings' /\ \E p \in Operations : <<q, p>> \in subscribers'
    BY <2>1 DEF Consistent, NoLeak
  <2>4. ASSUME NEW s \in Sources
        PROVE  s \in sources' <=> \/ \E p \in operations' : opSource'[p] = s
                                  \/ \E q \in recordings' : recSource'[q] = s
    <3>1. (\E q \in recordings' : recSource'[q] = s)
            <=> opSource[o] = s \/ \E q \in recordings : recSource[q] = s
      BY <2>1, <2>2
    <3> QED
      BY <2>1, <3>1 DEF Consistent, NoLeak
  <2> QED
    BY <2>3, <2>4 DEF NoLeak
<1> QED
  BY <1>1, <1>3, <1>4, <1>5 DEF Consistent

\* attach_recording
LEMMA AttachConsistent ==
    ASSUME Consistent, NEW o \in Operations, NEW r \in Recordings, AttachRecording(o, r)
    PROVE  Consistent'
<1>1. RegistryTypeOK'
  BY DEF Consistent, RegistryTypeOK, AttachRecording
<1>2. IndexesAgree'
  BY DEF Consistent, RegistryTypeOK, IndexesAgree, AttachRecording
<1>3. LookupExact'
  BY DEF Consistent, LookupExact, AttachRecording
<1>4. NoLeak'
  BY DEF Consistent, RegistryTypeOK, NoLeak, AttachRecording
<1> QED
  BY <1>1, <1>2, <1>3, <1>4 DEF Consistent

\* remove_recording: the entry goes, or stays as a tombstone
LEMMA RemoveConsistent ==
    ASSUME Consistent, NEW r \in Recordings, RemoveRecording(r)
    PROVE  Consistent'
<1>1. RegistryTypeOK'
  BY DEF Consistent, RegistryTypeOK, RemoveRecording, WithoutEmpty
<1>2. CASE Subscribers(r) = {}
  <2>1. /\ recordings' = recordings \ {r}
        /\ sourceRecs' = sourceRecs \ {<<recSource[r], r>>}
        /\ sources' = WithoutEmpty(recSource[r], sourceOps, sourceRecs')
        /\ UNCHANGED <<removed, sourceOps, operations, opSource, subscriptions, recSource,
                       recStore, subscribers>>
        /\ storeReverse' = storeReverse \ {<<recStore[r], r>>}
        /\ r \in recordings \ removed
    BY <1>2 DEF RemoveRecording
  <2>2. \A o \in Operations : <<r, o>> \notin subscribers /\ <<o, r>> \notin subscriptions
    BY <1>2 DEF Subscribers, Consistent, IndexesAgree
  <2>3. IndexesAgree'
    BY <2>1, <2>2 DEF Consistent, RegistryTypeOK, IndexesAgree
  <2>4. LookupExact'
    BY <2>1 DEF Consistent, RegistryTypeOK, LookupExact
  <2>5. NoLeak'
    <3>1. \A q \in removed' : q \in recordings' /\ \E o \in Operations : <<q, o>> \in subscribers'
      BY <2>1 DEF Consistent, NoLeak
    <3>2. ASSUME NEW s \in Sources
          PROVE  s \in sources' <=> \/ \E o \in operations' : opSource'[o] = s
                                    \/ \E q \in recordings' : recSource'[q] = s
      <4>1. CASE s = recSource[r]
        <5>1. (\E o \in Operations : <<s, o>> \in sourceOps)
                <=> (\E o \in operations' : opSource'[o] = s)
          BY <2>1 DEF Consistent, RegistryTypeOK, IndexesAgree
        <5>2. (\E q \in Recordings : <<s, q>> \in sourceRecs')
                <=> (\E q \in recordings' : recSource'[q] = s)
          BY <2>1, <2>3, <1>1 DEF IndexesAgree, RegistryTypeOK
        <5>3. s \in sources
          BY <4>1, <2>1 DEF Consistent, NoLeak
        <5> QED
          BY <4>1, <5>1, <5>2, <5>3, <2>1 DEF WithoutEmpty
      <4>2. CASE s # recSource[r]
        <5>1. s \in sources' <=> s \in sources
          BY <4>2, <2>1 DEF WithoutEmpty
        <5> QED
          BY <5>1, <4>2, <2>1 DEF Consistent, NoLeak
      <4> QED
        BY <4>1, <4>2
    <3> QED
      BY <3>1, <3>2 DEF NoLeak
  <2> QED
    BY <1>1, <2>3, <2>4, <2>5 DEF Consistent
<1>3. CASE Subscribers(r) # {}
  <2>1. /\ removed' = removed \cup {r}
        /\ storeReverse' = storeReverse \ {<<recStore[r], r>>}
        /\ UNCHANGED <<recordings, sourceRecs, sources, sourceOps, operations, opSource,
                       subscriptions, recSource, recStore, subscribers>>
        /\ r \in recordings
    BY <1>3 DEF RemoveRecording
  <2>2. IndexesAgree'
    BY <2>1 DEF Consistent, IndexesAgree
  <2>3. LookupExact'
    BY <2>1 DEF Consistent, RegistryTypeOK, LookupExact
  <2>4. NoLeak'
    BY <2>1, <1>3 DEF Consistent, RegistryTypeOK, NoLeak, Subscribers
  <2> QED
    BY <1>1, <2>2, <2>3, <2>4 DEF Consistent
<1> QED
  BY <1>2, <1>3

\* dispose_operation: the tombstones that only this operation kept go with it
LEMMA DisposeConsistent ==
    ASSUME Consistent, NEW o \in Operations, DisposeOperation(o)
    PROVE  Consistent'
<1> DEFINE gone == {r \in Subscriptions(o) \cap recordings \cap removed :
                      Subscribers(r) \ {o} = {}}
<1>1. /\ o \in operations
      /\ operations' = operations \ {o}
      /\ sourceOps' = sourceOps \ {<<opSource[o], o>>}
      /\ subscriptions' = subscriptions \ ({o} \X Recordings)
      /\ subscribers' = subscribers \ ((Subscriptions(o) \X {o}) \cup (gone \X Operations))
      /\ recordings' = recordings \ gone
      /\ removed' = removed \ gone
      /\ sourceRecs' = sourceRecs \ {<<recSource[r], r>> : r \in gone}
      /\ sources' = WithoutEmpty(opSource[o], sourceOps', sourceRecs')
      /\ UNCHANGED <<opSource, recSource, recStore, storeReverse>>
  BY DEF DisposeOperation
<1>2. \A r \in gone :
        /\ r \in Recordings /\ r \in recordings /\ r \in removed
        /\ <<o, r>> \in subscriptions /\ opSource[o] = recSource[r]
        /\ \A p \in Operations : <<p, r>> \in subscriptions => p = o
  BY DEF Subscriptions, Subscribers, Consistent, IndexesAgree
<1> HIDE DEF gone
<1>3. RegistryTypeOK'
  BY <1>1 DEF Consistent, RegistryTypeOK, WithoutEmpty
<1>4. IndexesAgree'
  <2>1. \A p \in Operations, r \in Recordings :
          <<p, r>> \in subscriptions' <=> <<p, r>> \in subscriptions /\ p # o
    BY <1>1
  <2>2. \A p \in Operations, r \in Recordings :
          <<r, p>> \in subscribers' <=> <<r, p>> \in subscribers /\ p # o
    BY <1>1, <1>2 DEF Consistent, IndexesAgree, Subscriptions
  <2>3. \A p \in Operations, r \in Recordings : <<p, r>> \in subscriptions' => r \notin gone
    BY <2>1, <1>2
  <2>4. ASSUME NEW s \in Sources, NEW r \in Recordings
        PROVE  <<s, r>> \in sourceRecs' <=> <<s, r>> \in sourceRecs /\ r \notin gone
    <3>1. <<s, r>> \in {<<recSource[q], q>> : q \in gone} <=> r \in gone /\ s = recSource[r]
      OBVIOUS
    <3>2. <<s, r>> \in sourceRecs => s = recSource[r]
      BY DEF Consistent, IndexesAgree
    <3> QED
      BY <3>1, <3>2, <1>1
  <2>5. \A s \in Sources, p \in Operations :
          <<s, p>> \in sourceOps' <=> p \in operations' /\ opSource'[p] = s
    BY <1>1 DEF Consistent, RegistryTypeOK, IndexesAgree
  <2>6. \A s \in Sources, r \in Recordings :
          <<s, r>> \in sourceRecs' <=> r \in recordings' /\ recSource'[r] = s
    BY <1>1, <2>4 DEF Consistent, IndexesAgree
  <2>7. \A p \in Operations, r \in Recordings :
          <<r, p>> \in subscribers' <=> <<p, r>> \in subscriptions'
    BY <2>1, <2>2 DEF Consistent, IndexesAgree
  <2>8. \A p \in Operations, r \in Recordings : <<p, r>> \in subscriptions' =>
          p \in operations' /\ r \in recordings' /\ opSource'[p] = recSource'[r]
    BY <1>1, <2>1, <2>3 DEF Consistent, IndexesAgree
  <2> QED
    BY <2>5, <2>6, <2>7, <2>8 DEF IndexesAgree
<1>5. LookupExact'
  <2>1. recordings' \ removed' = recordings \ removed
    BY <1>1, <1>2
  <2> QED
    BY <2>1, <1>1 DEF Consistent, LookupExact
<1>6. NoLeak'
  <2>1. ASSUME NEW r \in removed'
        PROVE  r \in recordings' /\ \E p \in Operations : <<r, p>> \in subscribers'
    <3>1. r \in removed /\ r \in recordings /\ r \notin gone /\ r \in Recordings
      BY <1>1 DEF Consistent, RegistryTypeOK, NoLeak
    <3>2. PICK p \in Operations : <<r, p>> \in subscribers
      BY <3>1 DEF Consistent, NoLeak
    <3>3. CASE <<o, r>> \in subscriptions
      <4>1. r \in Subscriptions(o) \cap recordings \cap removed
        BY <3>1, <3>3 DEF Subscriptions
      <4>2. PICK q \in Subscribers(r) : q # o
        BY <3>1, <4>1 DEF gone
      <4>3. <<r, q>> \in subscribers /\ q \in Operations
        BY <4>2 DEF Subscribers
      <4>4. <<r, q>> \in subscribers'
        BY <4>2, <4>3, <3>1, <1>1
      <4> QED
        BY <4>3, <4>4, <3>1, <1>1
    <3>4. CASE <<o, r>> \notin subscriptions
      <4>1. r \notin Subscriptions(o)
        BY <3>4 DEF Subscriptions
      <4>2. <<r, p>> \in subscribers'
        BY <4>1, <3>1, <3>2, <1>1
      <4> QED
        BY <4>2, <3>1, <1>1
    <3> QED
      BY <3>3, <3>4
  <2>2. ASSUME NEW s \in Sources
        PROVE  s \in sources' <=> \/ \E p \in operations' : opSource'[p] = s
                                  \/ \E q \in recordings' : recSource'[q] = s
    <3>1. CASE s = opSource[o]
      <4>1. (\E p \in Operations : <<s, p>> \in sourceOps')
              <=> (\E p \in operations' : opSource'[p] = s)
        BY <1>3, <1>4 DEF IndexesAgree, RegistryTypeOK
      <4>2. (\E q \in Recordings : <<s, q>> \in sourceRecs')
              <=> (\E q \in recordings' : recSource'[q] = s)
        BY <1>3, <1>4 DEF IndexesAgree, RegistryTypeOK
      <4>3. s \in sources
        BY <3>1, <1>1 DEF Consistent, NoLeak
      <4> QED
        BY <3>1, <4>1, <4>2, <4>3, <1>1 DEF WithoutEmpty
    <3>2. CASE s # opSource[o]
      <4>1. s \in sources' <=> s \in sources
        BY <3>2, <1>1 DEF WithoutEmpty
      <4>2. (\E p \in operations' : opSource'[p] = s) <=> (\E p \in operations : opSource[p] = s)
        BY <3>2, <1>1
      <4>3. (\E q \in recordings' : recSource'[q] = s)
              <=> (\E q \in recordings : recSource[q] = s)
        BY <3>2, <1>1, <1>2
      <4> QED
        BY <4>1, <4>2, <4>3 DEF Consistent, NoLeak
    <3> QED
      BY <3>1, <3>2
  <2> QED
    BY <2>1, <2>2 DEF NoLeak
<1> QED
  BY <1>3, <1>4, <1>5, <1>6 DEF Consistent

\* Every step of the registry keeps its maps consistent.
LEMMA NextConsistent == Consistent /\ [RegistryNext]_registryVars => Consistent'
<1> SUFFICES ASSUME Consistent, [RegistryNext]_registryVars PROVE Consistent'
  OBVIOUS
<1>1. CASE UNCHANGED registryVars
  BY <1>1 DEF Consistent, RegistryTypeOK, IndexesAgree, LookupExact, NoLeak, registryVars
<1>2. CASE RegistryNext
  BY <1>2, RegisterConsistent, PublishConsistent, AttachConsistent, RemoveConsistent,
     DisposeConsistent DEF RegistryNext
<1> QED
  BY <1>1, <1>2

LEMMA AlwaysConsistent == RegistrySpec => []Consistent
  BY InitConsistent, NextConsistent, PTL DEF RegistrySpec

\* In every behaviour of the registry the two directions of each relation agree and
\* point only at entries that exist, so the expect in publish_recording cannot fail.
THEOREM IndexesAlwaysAgree == RegistrySpec => []IndexesAgree
<1>1. Consistent => IndexesAgree
  BY DEF Consistent
<1> QED
  BY <1>1, AlwaysConsistent, PTL

\* lookup_recording_by_store finds exactly the active recordings, each by its own store.
THEOREM LookupAlwaysExact == RegistrySpec => []LookupExact
<1>1. Consistent => LookupExact
  BY DEF Consistent
<1> QED
  BY <1>1, AlwaysConsistent, PTL

\* remove_recording and dispose_operation leave no tombstone without a subscriber and
\* no source without an operation or a recording.
THEOREM NothingLeaks == RegistrySpec => []NoLeak
<1>1. Consistent => NoLeak
  BY DEF Consistent
<1> QED
  BY <1>1, AlwaysConsistent, PTL
=============================================================================
