------------------------- MODULE KnowledgeAgentProofs -------------------------
(***************************************************************************)
(* Proofs about KnowledgeAgent, for any chunks, files, labels, offers, call *)
(* lists, limits and number of requests and cuts.                          *)
(*                                                                         *)
(* What holds of the graph's state holds of its checkpoint and of all that *)
(* is still to be saved, which are earlier ones (StateSound): the messages *)
(* form a conversation, and a chunk shown in the message that is i-th from *)
(* the end is found in one of the last i executions of the history         *)
(* (Citable), so that trimming the former shorter than the latter keeps    *)
(* both.  The iterations never count more than the model calls since the   *)
(* user's message, and the calls that they leave (Left) stay within the    *)
(* allowance, of which a question that is open again takes a new part: it  *)
(* was asked after one call at least (Budget).                             *)
(* Last, StepsLeft falls with every step of a turn, which bounds the turn. *)
(***************************************************************************)
EXTENDS KnowledgeAgent, FiniteSetTheorems, WellFoundedInduction, SequenceTheorems, TLAPS

\* A message no further from the end than some execution that found its chunks.
Citable(msgs, history) ==
    \A i \in 1..Len(msgs) : \A c \in msgs[i].chunks :
        \E j \in 1..Len(history) :
            /\ history[j].tool = "search" /\ c \in history[j].got
            /\ Len(history) + i <= Len(msgs) + j

\* Searches find chunks and lists name files.
Proper(executions) ==
    \A j \in 1..Len(executions) :
        /\ executions[j].tool = "search" => executions[j].got \subseteq Chunks
        /\ executions[j].tool = "list" => executions[j].got \subseteq AssetNames

Before == {"none", "build_state"}
Calling == {"llm_decision", "execute_tool", "update_messages"}

StateSound(s) ==
    /\ s \in StateType
    /\ WellFormed(s.msgs) /\ Citable(s.msgs, s.history)
    /\ Proper(s.history) /\ Proper(s.pending)
    /\ s.node \notin Before => s.msgs # <<>>
    /\ s.node = "update_messages" => Len(s.pending) = Len(s.response.calls)
    /\ s.node = "request_clarification" =>
           s.iterations >= 1 /\ (s.response.kind = "calls" => s.iterations < MaxIterations)
    /\ Waiting(s) => s.node = "request_clarification" /\ s.response.question \notin {"garbled", "blank"}
    /\ s.limit => s.node \in Before \/ (s.node = "end" /\ s.iterations >= MaxIterations)

\* The iterations left before the limit.
Left(s) == IF s.iterations < MaxIterations THEN MaxIterations - s.iterations ELSE 0

Budget ==
    /\ turn.busy /\ run.node = "build_state" => calls = 0
    /\ turn.busy /\ run.node # "build_state" =>
           run.iterations <= calls /\ calls + Left(run) <= Allowance
    /\ ~turn.busy /\ Waiting(ck) => calls + Left(ck) <= Allowance
    /\ \A s \in saves \cup {ck} : Waiting(s) => s.iterations <= calls
    /\ calls <= Allowance
    /\ run.node \in Calling => calls < Allowance

TurnSound ==
    /\ turn \in [busy : BOOLEAN, reply : Options \cup {"other", NoReply}, raised : BOOLEAN]
    /\ shown \in (SUBSET Options) \cup {NoQuestion} /\ lost \in BOOLEAN
    /\ calls \in 0..CountLimit /\ extra \in 0..CountLimit
    /\ turns \in 0..MaxTurns /\ cuts \in 0..MaxCuts /\ reopened \in 0..cuts
    /\ turn.busy => run.node # "none"
    /\ ~turn.busy => turn = NoTurn /\ run = Fresh

IInv ==
    /\ TurnSound /\ Budget /\ ShownQuestionIsOpen
    /\ StateSound(run) /\ \A s \in saves \cup {ck} : StateSound(s)

-----------------------------------------------------------------------------
(* Numbers and sequences.                                                  *)

LEMMA Numbers ==
  /\ MaxIterations \in Nat /\ MaxIterations >= 1 /\ MaxMemory \in Nat /\ MaxMemory >= 5
  /\ MaxTurns \in Nat /\ MaxCuts \in Nat /\ CountLimit \in Nat /\ CountLimit >= MaxIterations
<1>1. /\ MaxIterations \in Nat \ {0} /\ MaxMemory \in Nat /\ MaxMemory >= 5
      /\ MaxTurns \in Nat /\ MaxCuts \in Nat
  BY Zenon, KnowledgeAssumption
<1>2. MaxIterations * (MaxCuts + 1) \in Nat /\ MaxIterations * (MaxCuts + 1) >= MaxIterations
  BY <1>1
<1>. DEFINE most == MaxIterations * (MaxCuts + 1)
<1>3. CountLimit = most + MaxTurns
  BY DEF CountLimit
<1>. HIDE DEF most
<1>4. most \in Nat /\ most >= MaxIterations
  BY <1>2 DEF most
<1>. QED
  BY <1>1, <1>3, <1>4

LEMMA Least ==
  ASSUME NEW S \in SUBSET Nat, S # {}
  PROVE  \E x \in S : \A y \in S : x <= y
<1>1. PICK n \in S : TRUE
  OBVIOUS
<1>. DEFINE T == {0..x : x \in {x \in S : x <= n}}
            R == StrictSubsetOrdering(0..n)
<1>2. IsFiniteSet(0..n)
  BY FS_Interval
<1>3. IsWellFoundedOn(R, SUBSET (0..n))
  BY <1>2, FS_StrictSubsetOrderingWellFounded, FS_FiniteSubsetsOfFinite
<1>4. T \subseteq SUBSET (0..n) /\ T # {}
  BY <1>1
<1>. HIDE DEF R
<1>5. PICK t \in T : \A s \in T : ~(<<s, t>> \in R)
  BY <1>3, <1>4, WFMin
<1>6. PICK x \in S : x <= n /\ t = 0..x
  BY <1>5
<1>7. ASSUME NEW y \in S, y < x
      PROVE  FALSE
  <2>1. 0..y \in T
    BY <1>6, <1>7
  <2>2. 0..y \subseteq 0..x /\ x \notin 0..y /\ x \in 0..x
    BY <1>6, <1>7
  <2>3. <<0..y, 0..x>> \in R
    BY <1>4, <1>6, <2>1, <2>2 DEF R, StrictSubsetOrdering
  <2>. QED
    BY <1>5, <1>6, <2>1, <2>3
<1>. QED
  BY <1>7

LEMMA Greatest ==
  ASSUME NEW n \in Nat, NEW S \in SUBSET (1..n), S # {}
  PROVE  \E x \in S : \A y \in S : x >= y
<1>. DEFINE M == {n - x : x \in S}
<1>1. M \in SUBSET Nat /\ M # {}
  <2>1. \A x \in S : n - x \in Nat
    OBVIOUS
  <2>2. PICK x \in S : TRUE
    OBVIOUS
  <2>3. n - x \in M
    BY <2>2
  <2>. QED
    BY <2>1, <2>3
<1>2. PICK m \in M : \A k \in M : m <= k
  BY <1>1, Least
<1>3. PICK x \in S : m = n - x
  BY <1>2
<1>. QED
  BY <1>2, <1>3

LEMMA MinFacts ==
  ASSUME NEW S \in SUBSET Nat, S # {}
  PROVE  Min(S) \in S /\ \A y \in S : Min(S) <= y
  BY Least DEF Min

LEMMA MaxFacts ==
  ASSUME NEW n \in Nat, NEW S \in SUBSET (1..n), S # {}
  PROVE  Max(S) \in S /\ \A y \in S : Max(S) >= y
  BY Greatest DEF Max

LEMMA MinOfTwo ==
  ASSUME NEW a \in Nat, NEW b \in Nat
  PROVE  Min({a, b}) = IF a <= b THEN a ELSE b
<1>1. Min({a, b}) \in {a, b} /\ \A y \in {a, b} : Min({a, b}) <= y
  BY MinFacts
<1>. QED
  BY <1>1

LEMMA MaxOfTwo ==
  ASSUME NEW a \in Int, NEW b \in Int
  PROVE  Max({a, b}) = IF a >= b THEN a ELSE b
<1>1. \E x \in {a, b} : \A y \in {a, b} : x >= y
  OBVIOUS
<1>2. Max({a, b}) \in {a, b} /\ \A y \in {a, b} : Max({a, b}) >= y
  BY <1>1 DEF Max
<1>. QED
  BY <1>2

\* Counting is exact below the limit.
LEMMA CountFacts ==
  ASSUME NEW n \in 0..CountLimit
  PROVE  /\ Count(n) \in 0..CountLimit
         /\ Count(n) = IF n < CountLimit THEN n + 1 ELSE CountLimit
<1>1. Count(n) = IF n + 1 <= CountLimit THEN n + 1 ELSE CountLimit
  BY Numbers, MinOfTwo DEF Count
<1>. QED
  BY <1>1, Numbers

\* t is the end of s.
Suffix(t, s) ==
    /\ Len(t) <= Len(s)
    /\ \A i \in 1..Len(t) : t[i] = s[Len(s) - Len(t) + i]

LEMMA SubSeqToEnd ==
  ASSUME NEW S, NEW s \in Seq(S), NEW k \in Nat, k >= 1, k <= Len(s) + 1
  PROVE  /\ SubSeq(s, k, Len(s)) \in Seq(S) /\ Suffix(SubSeq(s, k, Len(s)), s)
         /\ Len(SubSeq(s, k, Len(s))) = Len(s) - k + 1
<1>. DEFINE t == SubSeq(s, k, Len(s))
<1>1. Len(s) \in Nat /\ \A i \in k..Len(s) : s[i] \in S
  OBVIOUS
<1>2. /\ t \in Seq(S) /\ Len(t) = Len(s) - k + 1
      /\ \A i \in 1..(Len(s) - k + 1) : t[i] = s[k + i - 1]
  <2>1. /\ t \in Seq(S) /\ Len(t) = IF k <= Len(s) THEN Len(s) - k + 1 ELSE 0
        /\ \A i \in 1..(Len(s) - k + 1) : t[i] = s[k + i - 1]
    BY <1>1, SubSeqProperties
  <2>. QED
    BY <1>1, <2>1
<1>. HIDE DEF t
<1>3. Suffix(t, s)
  <2>1. ASSUME NEW i \in 1..Len(t)
        PROVE  t[i] = s[Len(s) - Len(t) + i]
    <3>1. Len(s) - Len(t) + i = k + i - 1
      BY <1>1, <1>2
    <3>. QED
      BY <1>1, <1>2, <3>1
  <2>. QED
    BY <1>1, <1>2, <2>1 DEF Suffix
<1>. QED
  BY <1>2, <1>3 DEF t

LEMMA LastOfFacts ==
  ASSUME NEW S, NEW s \in Seq(S), NEW n \in Nat
  PROVE  /\ LastOf(s, n) \in Seq(S) /\ Suffix(LastOf(s, n), s)
         /\ Len(LastOf(s, n)) = IF n <= Len(s) THEN n ELSE Len(s)
<1>. DEFINE k == Max({1, Len(s) - n + 1})
<1>1. k = IF 1 >= Len(s) - n + 1 THEN 1 ELSE Len(s) - n + 1
  BY MaxOfTwo
<1>2. k \in Nat /\ k >= 1 /\ k <= Len(s) + 1
  BY <1>1
<1>3. LastOf(s, n) = SubSeq(s, k, Len(s))
  BY DEF LastOf
<1>. HIDE DEF k
<1>4. /\ SubSeq(s, k, Len(s)) \in Seq(S) /\ Suffix(SubSeq(s, k, Len(s)), s)
      /\ Len(SubSeq(s, k, Len(s))) = Len(s) - k + 1
  BY <1>2, SubSeqToEnd
<1>5. Len(s) - k + 1 = IF n <= Len(s) THEN n ELSE Len(s)
  <2>1. Len(s) \in Nat
    OBVIOUS
  <2>2. CASE n <= Len(s)
    BY <1>1, <1>2, <2>1, <2>2
  <2>3. CASE n > Len(s)
    <3>1. 1 >= Len(s) - n + 1
      BY <2>1, <2>3
    <3>2. k = 1
      BY <1>1, <3>1
    <3>3. ~(n <= Len(s))
      BY <2>1, <2>3
    <3>4. Len(s) - k + 1 = Len(s)
      BY <2>1, <3>2
    <3>. QED
      BY <3>3, <3>4
  <2>. QED
    BY <2>1, <2>2, <2>3
<1>. QED
  BY <1>3, <1>4, <1>5

LEMMA FromUserFacts ==
  ASSUME NEW s \in Seq(MessageType)
  PROVE  /\ FromUser(s) \in Seq(MessageType) /\ Suffix(FromUser(s), s)
         /\ FromUser(s) # <<>> => FromUser(s)[1].kind = "user"
<1>. DEFINE starts == {i \in DOMAIN s : s[i].kind = "user"}
            k == Min(starts)
<1>1. CASE starts = {}
  BY <1>1 DEF FromUser, Suffix
<1>2. CASE starts # {}
  <2>1. k \in starts
    <3>1. starts \in SUBSET Nat
      OBVIOUS
    <3>. HIDE DEF starts
    <3>. QED
      BY <1>2, <3>1, MinFacts
  <2>2. FromUser(s) = SubSeq(s, k, Len(s))
    BY <1>2 DEF FromUser
  <2>3. k \in 1..Len(s) /\ s[k].kind = "user"
    BY <2>1
  <2>. HIDE DEF k
  <2>4. /\ FromUser(s) \in Seq(MessageType) /\ Suffix(FromUser(s), s)
        /\ Len(FromUser(s)) = Len(s) - k + 1
    BY <2>2, <2>3, SubSeqToEnd
  <2>5. FromUser(s)[1] = s[k]
    BY <2>3, <2>4 DEF Suffix
  <2>. QED
    BY <2>3, <2>4, <2>5
<1>. QED
  BY <1>1, <1>2

\* What is retained is the end of the messages, within the memory's limit,
\* and starts with the user.
LEMMA RetainedFacts ==
  ASSUME NEW msgs \in Seq(MessageType)
  PROVE  /\ Retained(msgs) \in Seq(MessageType) /\ Suffix(Retained(msgs), msgs)
         /\ Len(Retained(msgs)) <= MaxMemory - 3
         /\ Retained(msgs) # <<>> => Retained(msgs)[1].kind = "user"
<1>. DEFINE n == MaxMemory - 3
            t == LastOf(msgs, n)
            u == FromUser(t)
<1>1. n \in Nat
  BY Numbers
<1>2. t \in Seq(MessageType) /\ Suffix(t, msgs) /\ Len(t) <= n
  BY <1>1, LastOfFacts
<1>. HIDE DEF t
<1>3. /\ u \in Seq(MessageType) /\ Suffix(u, t)
      /\ u # <<>> => u[1].kind = "user"
  BY <1>2, FromUserFacts
<1>4. Retained(msgs) = u
  BY DEF Retained, t
<1>. HIDE DEF u, n
<1>5. Len(u) \in Nat /\ Len(t) \in Nat /\ Len(msgs) \in Nat
  BY <1>2, <1>3
<1>6. Len(u) <= Len(t) /\ Len(t) <= Len(msgs) /\ Len(u) <= n
  BY <1>1, <1>2, <1>3, <1>5 DEF Suffix
<1>7. ASSUME NEW i \in 1..Len(u)
      PROVE  u[i] = msgs[Len(msgs) - Len(u) + i]
  <2>1. u[i] = t[Len(t) - Len(u) + i] /\ Len(t) - Len(u) + i \in 1..Len(t)
    BY <1>3, <1>5, <1>6 DEF Suffix
  <2>2. Len(msgs) - Len(t) + (Len(t) - Len(u) + i) = Len(msgs) - Len(u) + i
    BY <1>5
  <2>. QED
    BY <1>2, <2>1, <2>2 DEF Suffix
<1>. QED
  BY <1>3, <1>4, <1>5, <1>6, <1>7 DEF Suffix, n

-----------------------------------------------------------------------------
(* Conversations.                                                          *)

\* The end of a conversation that starts with the user is one.
LEMMA SuffixWellFormed ==
  ASSUME NEW s \in Seq(MessageType), NEW t \in Seq(MessageType), WellFormed(s), Suffix(t, s),
         t # <<>> => t[1].kind = "user"
  PROVE  WellFormed(t)
<1>. DEFINE d == Len(s) - Len(t)
<1>1. /\ Len(s) \in Nat /\ Len(t) \in Nat /\ d \in Nat
      /\ DOMAIN s = 1..Len(s) /\ DOMAIN t = 1..Len(t)
      /\ Len(t) + d = Len(s)
  BY DEF Suffix
<1>2. \A i \in 1..Len(t) : t[i] = s[d + i]
  BY DEF Suffix
<1>. HIDE DEF d
<1>3. \A i \in 1..Len(s) : s[i].count \in Nat
  <2>1. \A i \in 1..Len(s) : s[i] \in MessageType
    BY ElementOfSeq
  <2>. QED
    BY <2>1 DEF MessageType
<1>4. ASSUME NEW i \in 1..Len(t), t[i].kind = "call", NEW j \in 1..t[i].count
      PROVE  i + j \in 1..Len(t) /\ t[i + j].kind = "result"
  <2>1. d + i \in 1..Len(s) /\ s[d + i].kind = "call" /\ j \in 1..s[d + i].count
    BY <1>1, <1>2, <1>4
  <2>2. (d + i) + j \in 1..Len(s) /\ s[(d + i) + j].kind = "result"
    BY <1>1, <2>1 DEF WellFormed
  <2>3. j \in Nat /\ j >= 1
    BY <1>3, <2>1
  <2>4. i + j \in 1..Len(t) /\ d + (i + j) = (d + i) + j
    BY <1>1, <2>2, <2>3
  <2>. QED
    BY <1>2, <2>2, <2>4
<1>5. ASSUME NEW i \in 1..Len(t), t[i].kind = "result"
      PROVE  \E k \in 1..(i - 1) : t[k].kind = "call" /\ i <= k + t[k].count
  <2>1. d + i \in 1..Len(s) /\ s[d + i].kind = "result"
    BY <1>1, <1>2, <1>5
  <2>2. PICK k \in 1..(d + i - 1) : s[k].kind = "call" /\ d + i <= k + s[k].count
    BY <1>1, <2>1 DEF WellFormed
  <2>3. k \in 1..Len(s) /\ s[k].count \in Nat
    BY <1>1, <1>3, <2>1, <2>2
  <2>4. k > d
    <3>1. SUFFICES ASSUME k <= d PROVE FALSE
      BY <1>1, <2>3
    <3>2. /\ d + 1 \in 1..Len(s) /\ 1 \in 1..Len(t)
          /\ d + 1 - k \in 1..s[k].count /\ k + (d + 1 - k) = d + 1
      BY <1>1, <2>1, <2>2, <2>3, <3>1
    <3>3. s[k + (d + 1 - k)].kind = "result"
      BY <1>1, <2>2, <2>3, <3>2 DEF WellFormed
    <3>4. t[1].kind = "user" /\ t[1] = s[d + 1]
      BY <1>2, <3>2
    <3>. QED
      BY <3>2, <3>3, <3>4
  <2>5. k - d \in 1..(i - 1) /\ d + (k - d) = k /\ k - d \in 1..Len(t)
    BY <1>1, <2>1, <2>2, <2>3, <2>4
  <2>6. t[k - d] = s[k]
    BY <1>2, <2>5
  <2>7. i <= (k - d) + s[k].count
    BY <1>1, <2>1, <2>2, <2>3
  <2>. QED
    BY <2>2, <2>5, <2>6, <2>7
<1>. QED
  BY <1>1, <1>4, <1>5 DEF WellFormed

\* A conversation goes on with a message of the user or an answer.
LEMMA AppendWellFormed ==
  ASSUME NEW s \in Seq(MessageType), WellFormed(s), NEW m \in MessageType,
         m.kind = "user" \/ (m.kind = "answer" /\ s # <<>>)
  PROVE  /\ Append(s, m) \in Seq(MessageType) /\ WellFormed(Append(s, m))
         /\ Append(s, m) # <<>>
<1>. DEFINE t == Append(s, m)
<1>1. /\ t \in Seq(MessageType) /\ t # <<>> /\ Len(t) = Len(s) + 1 /\ Len(s) \in Nat
      /\ DOMAIN t = 1..Len(t) /\ DOMAIN s = 1..Len(s)
      /\ \A i \in 1..Len(s) : t[i] = s[i]
      /\ t[Len(s) + 1] = m
  BY AppendProperties
<1>. HIDE DEF t
<1>2. t[1].kind = "user"
  <2>1. CASE s = <<>>
    BY <1>1, <2>1
  <2>2. CASE s # <<>>
    <3>1. 1 \in 1..Len(s) /\ s[1].kind = "user"
      BY <1>1, <2>2 DEF WellFormed
    <3>. QED
      BY <1>1, <3>1
  <2>. QED
    BY <2>1, <2>2
<1>3. \A i \in 1..Len(t) : t[i].kind \in {"call", "result"} => i \in 1..Len(s)
  BY <1>1
<1>4. ASSUME NEW i \in 1..Len(t), t[i].kind = "call", NEW j \in 1..t[i].count
      PROVE  i + j \in 1..Len(t) /\ t[i + j].kind = "result"
  <2>1. i \in 1..Len(s) /\ t[i] = s[i]
    BY <1>1, <1>3, <1>4
  <2>2. i + j \in 1..Len(s) /\ s[i + j].kind = "result"
    BY <1>1, <1>4, <2>1 DEF WellFormed
  <2>. QED
    BY <1>1, <2>2
<1>5. ASSUME NEW i \in 1..Len(t), t[i].kind = "result"
      PROVE  \E k \in 1..(i - 1) : t[k].kind = "call" /\ i <= k + t[k].count
  <2>1. i \in 1..Len(s) /\ t[i] = s[i]
    BY <1>1, <1>3, <1>5
  <2>2. PICK k \in 1..(i - 1) : s[k].kind = "call" /\ i <= k + s[k].count
    BY <1>1, <1>5, <2>1 DEF WellFormed
  <2>3. t[k] = s[k]
    BY <1>1, <2>1
  <2>. QED
    BY <2>2, <2>3
<1>. QED
  BY <1>1, <1>2, <1>4, <1>5 DEF WellFormed, t

\* A conversation goes on with calls and a result for each of them.
Batch(s, call, rs) == s \o <<call>> \o rs

LEMMA BatchWellFormed ==
  ASSUME NEW s \in Seq(MessageType), WellFormed(s), s # <<>>,
         NEW call \in MessageType, call.kind = "call",
         NEW rs \in Seq(MessageType), \A i \in 1..Len(rs) : rs[i].kind = "result",
         call.count = Len(rs)
  PROVE  /\ Batch(s, call, rs) \in Seq(MessageType) /\ Batch(s, call, rs) # <<>>
         /\ Len(Batch(s, call, rs)) = Len(s) + 1 + Len(rs)
         /\ \A i \in 1..Len(s) : Batch(s, call, rs)[i] = s[i]
         /\ Batch(s, call, rs)[Len(s) + 1] = call
         /\ \A i \in 1..Len(rs) : Batch(s, call, rs)[Len(s) + 1 + i] = rs[i]
         /\ WellFormed(Batch(s, call, rs))
<1>. DEFINE h == s \o <<call>>
            t == h \o rs
            n == Len(s)
<1>1. n \in Nat /\ n >= 1 /\ Len(rs) \in Nat
  OBVIOUS
<1>2. /\ h \in Seq(MessageType) /\ Len(h) = n + 1
      /\ \A i \in 1..n : h[i] = s[i]
      /\ h[n + 1] = call
  <2>1. <<call>> \in Seq(MessageType) /\ Len(<<call>>) = 1 /\ <<call>>[1] = call
    OBVIOUS
  <2>2. /\ h \in Seq(MessageType) /\ Len(h) = n + 1
        /\ \A i \in 1..(n + 1) : h[i] = IF i <= n THEN s[i] ELSE <<call>>[i - n]
    BY <2>1, ConcatProperties
  <2>. HIDE DEF h
  <2>3. \A i \in 1..n : h[i] = s[i]
    BY <1>1, <2>2
  <2>4. h[n + 1] = <<call>>[1]
    BY <1>1, <2>2
  <2>. QED
    BY <2>1, <2>2, <2>3, <2>4
<1>. HIDE DEF h
<1>3. /\ t \in Seq(MessageType) /\ Len(t) = n + 1 + Len(rs)
      /\ \A i \in 1..(n + 1) : t[i] = h[i]
      /\ \A i \in 1..Len(rs) : t[n + 1 + i] = rs[i]
  <2>1. /\ t \in Seq(MessageType) /\ Len(t) = n + 1 + Len(rs)
        /\ \A i \in 1..(n + 1 + Len(rs)) : t[i] = IF i <= n + 1 THEN h[i] ELSE rs[i - (n + 1)]
    <3>1. /\ t \in Seq(MessageType) /\ Len(t) = Len(h) + Len(rs)
          /\ \A i \in 1..(Len(h) + Len(rs)) : t[i] = IF i <= Len(h) THEN h[i] ELSE rs[i - Len(h)]
      BY <1>2, ConcatProperties
    <3>2. Len(h) = n + 1
      BY <1>2
    <3>. HIDE DEF t, n
    <3>. QED
      BY <3>1, <3>2
  <2>. HIDE DEF t, n
  <2>2. \A i \in 1..Len(rs) : t[n + 1 + i] = rs[i]
    BY <1>1, <2>1
  <2>3. \A i \in 1..(n + 1) : t[i] = h[i]
    BY <1>1, <2>1
  <2>. QED
    BY <2>1, <2>2, <2>3
<1>. HIDE DEF t
<1>4. /\ \A i \in 1..n : t[i] = s[i]
      /\ t[n + 1] = call
  BY <1>1, <1>2, <1>3
<1>5. DOMAIN t = 1..Len(t) /\ DOMAIN s = 1..n /\ t # <<>>
  BY <1>1, <1>3
<1>. HIDE DEF n
<1>6. t[1].kind = "user"
  <2>1. 1 \in 1..n /\ s[1].kind = "user"
    BY <1>1 DEF WellFormed
  <2>. QED
    BY <1>4, <2>1
<1>7. ASSUME NEW i \in 1..Len(t), t[i].kind = "call", NEW j \in 1..t[i].count
      PROVE  i + j \in 1..Len(t) /\ t[i + j].kind = "result"
  <2>1. CASE i \in 1..n
    <3>1. i + j \in 1..n /\ s[i + j].kind = "result"
      BY <1>4, <1>5, <1>7, <2>1 DEF WellFormed
    <3>. QED
      BY <1>1, <1>3, <1>4, <3>1
  <2>2. CASE i = n + 1
    <3>1. j \in 1..Len(rs)
      BY <1>4, <1>7, <2>2
    <3>2. i + j = n + 1 + j /\ i + j \in 1..Len(t)
      BY <1>1, <1>3, <2>2, <3>1
    <3>. QED
      BY <1>3, <3>1, <3>2
  <2>3. CASE i > n + 1
    <3>1. i - (n + 1) \in 1..Len(rs) /\ n + 1 + (i - (n + 1)) = i
      BY <1>1, <1>3, <2>3
    <3>2. t[i] = rs[i - (n + 1)]
      BY <1>3, <3>1
    <3>. QED
      BY <1>7, <3>1, <3>2
  <2>. QED
    BY <1>1, <1>3, <2>1, <2>2, <2>3
<1>8. ASSUME NEW i \in 1..Len(t), t[i].kind = "result"
      PROVE  \E k \in 1..(i - 1) : t[k].kind = "call" /\ i <= k + t[k].count
  <2>1. CASE i \in 1..n
    <3>1. PICK k \in 1..(i - 1) : s[k].kind = "call" /\ i <= k + s[k].count
      BY <1>4, <1>5, <1>8, <2>1 DEF WellFormed
    <3>2. t[k] = s[k]
      BY <1>1, <1>4, <2>1
    <3>. QED
      BY <3>1, <3>2
  <2>2. CASE i = n + 1
    BY <1>4, <1>8, <2>2
  <2>3. CASE i > n + 1
    <3>1. n + 1 \in 1..(i - 1) /\ i <= n + 1 + Len(rs)
      BY <1>1, <1>3, <2>3
    <3>. QED
      BY <1>4, <3>1
  <2>. QED
    BY <1>1, <1>3, <2>1, <2>2, <2>3
<1>9. WellFormed(t)
  BY <1>5, <1>6, <1>7, <1>8 DEF WellFormed
<1>. QED
  BY <1>3, <1>4, <1>5, <1>9 DEF t, h, n, Batch

-----------------------------------------------------------------------------
(* What is shown can be cited.                                             *)

\* A message without chunks shows nothing new.
LEMMA AppendCitable ==
  ASSUME NEW s \in Seq(MessageType), NEW h \in Seq(ExecutionType), Citable(s, h),
         NEW m \in MessageType, m.chunks = {}
  PROVE  Citable(Append(s, m), h)
<1>. DEFINE t == Append(s, m)
<1>1. /\ Len(t) = Len(s) + 1 /\ Len(s) \in Nat /\ Len(h) \in Nat
      /\ \A i \in 1..Len(s) : t[i] = s[i]
      /\ t[Len(s) + 1] = m
  BY AppendProperties
<1>. HIDE DEF t
<1>2. ASSUME NEW i \in 1..Len(t), NEW c \in t[i].chunks
      PROVE  \E j \in 1..Len(h) : /\ h[j].tool = "search" /\ c \in h[j].got
                                  /\ Len(h) + i <= Len(t) + j
  <2>1. i \in 1..Len(s) /\ t[i] = s[i]
    BY <1>1, <1>2
  <2>2. PICK j \in 1..Len(h) : /\ h[j].tool = "search" /\ c \in h[j].got
                               /\ Len(h) + i <= Len(s) + j
    BY <1>2, <2>1 DEF Citable
  <2>. QED
    BY <1>1, <2>1, <2>2
<1>. QED
  BY <1>2 DEF Citable, t

\* Trimming keeps what can be cited: the history is kept longer.
LEMMA TrimCitable ==
  ASSUME NEW s \in Seq(MessageType), NEW h \in Seq(ExecutionType), Citable(s, h)
  PROVE  KeptHistory(h) \in Seq(ExecutionType) /\ Citable(Retained(s), KeptHistory(h))
<1>. DEFINE t == Retained(s)
            k == KeptHistory(h)
<1>1. /\ t \in Seq(MessageType) /\ Suffix(t, s) /\ Len(t) <= MaxMemory - 3
  BY RetainedFacts
<1>2. /\ k \in Seq(ExecutionType) /\ Suffix(k, h)
      /\ Len(k) = IF MaxMemory <= Len(h) THEN MaxMemory ELSE Len(h)
  BY Numbers, LastOfFacts DEF KeptHistory
<1>. HIDE DEF t, k
<1>3. /\ Len(t) \in Nat /\ Len(s) \in Nat /\ Len(k) \in Nat /\ Len(h) \in Nat
      /\ Len(t) <= Len(s) /\ Len(k) <= Len(h)
  BY <1>1, <1>2 DEF Suffix
<1>4. ASSUME NEW i \in 1..Len(t), NEW c \in t[i].chunks
      PROVE  \E j \in 1..Len(k) : /\ k[j].tool = "search" /\ c \in k[j].got
                                  /\ Len(k) + i <= Len(t) + j
  <2>. DEFINE d == Len(s) - Len(t) + i
  <2>1. d \in 1..Len(s) /\ t[i] = s[d]
    BY <1>1, <1>3 DEF Suffix
  <2>2. PICK j \in 1..Len(h) : /\ h[j].tool = "search" /\ c \in h[j].got
                               /\ Len(h) + d <= Len(s) + j
    BY <1>4, <2>1 DEF Citable
  <2>. DEFINE e == j - (Len(h) - Len(k))
  <2>3. Len(h) + i <= Len(t) + j
    BY <1>3, <2>2
  <2>4. e >= 1
    BY <1>1, <1>2, <1>3, <2>2, <2>3, Numbers
  <2>5. e \in 1..Len(k) /\ Len(h) - Len(k) + e = j /\ Len(k) + i <= Len(t) + e
    BY <1>3, <2>2, <2>3, <2>4
  <2>6. k[e] = h[j]
    BY <1>2, <2>5 DEF Suffix
  <2>. QED
    BY <2>2, <2>5, <2>6
<1>. QED
  BY <1>2, <1>4 DEF Citable, t, k

\* A call and its results show what their executions found.
LEMMA BatchCitable ==
  ASSUME NEW s \in Seq(MessageType), NEW h \in Seq(ExecutionType), Citable(s, h),
         NEW t \in Seq(MessageType), NEW n \in Nat, Len(t) = Len(s) + 1 + n,
         \A i \in 1..Len(s) : t[i] = s[i],
         t[Len(s) + 1].chunks = {},
         NEW p \in Seq(ExecutionType), Len(p) <= n,
         \A i \in 1..n : \A c \in t[Len(s) + 1 + i].chunks :
             i \in 1..Len(p) /\ Len(p) = n /\ p[i].tool = "search" /\ c \in p[i].got
  PROVE  h \o p \in Seq(ExecutionType) /\ Citable(t, h \o p)
<1>. DEFINE k == h \o p
<1>1. /\ k \in Seq(ExecutionType) /\ Len(k) = Len(h) + Len(p)
      /\ \A i \in 1..(Len(h) + Len(p)) : k[i] = IF i <= Len(h) THEN h[i] ELSE p[i - Len(h)]
  BY ConcatProperties
<1>. HIDE DEF k
<1>2. Len(h) \in Nat /\ Len(p) \in Nat /\ Len(s) \in Nat
  OBVIOUS
<1>3. ASSUME NEW i \in 1..Len(t), NEW c \in t[i].chunks
      PROVE  \E j \in 1..Len(k) : /\ k[j].tool = "search" /\ c \in k[j].got
                                  /\ Len(k) + i <= Len(t) + j
  <2>1. CASE i <= Len(s)
    <3>1. i \in 1..Len(s) /\ t[i] = s[i]
      BY <1>2, <2>1
    <3>2. PICK j \in 1..Len(h) : /\ h[j].tool = "search" /\ c \in h[j].got
                                 /\ Len(h) + i <= Len(s) + j
      BY <1>3, <3>1 DEF Citable
    <3>3. j \in 1..Len(k) /\ k[j] = h[j] /\ Len(k) + i <= Len(t) + j
      BY <1>1, <1>2, <3>2
    <3>. QED
      BY <3>2, <3>3
  <2>2. CASE i = Len(s) + 1
    BY <1>3, <2>2
  <2>3. CASE i > Len(s) + 1
    <3>. DEFINE e == i - (Len(s) + 1)
    <3>1. e \in 1..n /\ Len(s) + 1 + e = i
      BY <1>2, <2>3
    <3>2. e \in 1..Len(p) /\ Len(p) = n /\ p[e].tool = "search" /\ c \in p[e].got
      BY <1>3, <3>1
    <3>. DEFINE j == Len(h) + e
    <3>3. j \in 1..(Len(h) + Len(p)) /\ ~(j <= Len(h)) /\ j - Len(h) = e
      BY <1>2, <3>1, <3>2
    <3>4. k[j] = p[e]
      BY <1>1, <3>3
    <3>5. Len(k) + i <= Len(t) + j
      BY <1>1, <1>2, <3>1, <3>2
    <3>. QED
      BY <1>1, <3>2, <3>3, <3>4, <3>5
  <2>. QED
    BY <1>2, <2>1, <2>2, <2>3
<1>. QED
  BY <1>1, <1>3 DEF Citable, k

-----------------------------------------------------------------------------
(* Names, options and responses.                                           *)

LEMMA ProperKept ==
  ASSUME NEW h \in Seq(ExecutionType), Proper(h)
  PROVE  Proper(KeptHistory(h))
<1>. DEFINE k == KeptHistory(h)
<1>1. k \in Seq(ExecutionType) /\ Suffix(k, h)
  BY Numbers, LastOfFacts DEF KeptHistory
<1>. HIDE DEF k
<1>2. \A j \in 1..Len(k) : Len(h) - Len(k) + j \in 1..Len(h) /\ k[j] = h[Len(h) - Len(k) + j]
  BY <1>1 DEF Suffix
<1>3. Proper(k)
  BY <1>2 DEF Proper
<1>. QED
  BY <1>3 DEF k

LEMMA ProperMore ==
  ASSUME NEW h \in Seq(ExecutionType), NEW p \in Seq(ExecutionType), Proper(h), Proper(p)
  PROVE  h \o p \in Seq(ExecutionType) /\ Proper(h \o p)
<1>. DEFINE k == h \o p
<1>1. /\ k \in Seq(ExecutionType) /\ Len(k) = Len(h) + Len(p)
      /\ \A i \in 1..(Len(h) + Len(p)) : k[i] = IF i <= Len(h) THEN h[i] ELSE p[i - Len(h)]
  BY ConcatProperties
<1>. HIDE DEF k
<1>2. Len(h) \in Nat /\ Len(p) \in Nat
  OBVIOUS
<1>3. ASSUME NEW j \in 1..Len(k)
      PROVE  (j \in 1..Len(h) /\ k[j] = h[j]) \/ (j - Len(h) \in 1..Len(p) /\ k[j] = p[j - Len(h)])
  BY <1>1, <1>2
<1>4. Proper(k)
  BY <1>3 DEF Proper
<1>. QED
  BY <1>1, <1>4 DEF k

LEMMA ListedFacts ==
  ASSUME NEW h \in Seq(ExecutionType), Proper(h)
  PROVE  ListedNames(h) \subseteq AssetNames
<1>. DEFINE lists == {i \in DOMAIN h : h[i].tool = "list"}
<1>1. CASE lists = {}
  BY <1>1 DEF ListedNames
<1>2. CASE lists # {}
  <2>1. lists \in SUBSET (1..Len(h)) /\ Len(h) \in Nat
    OBVIOUS
  <2>2. Max(lists) \in lists
    <3>. HIDE DEF lists
    <3>. QED
      BY <1>2, <2>1, MaxFacts
  <2>3. \A i \in lists : h[i].got \subseteq AssetNames
    BY DEF Proper
  <2>4. ListedNames(h) = h[Max(lists)].got
    BY <1>2 DEF ListedNames
  <2>. HIDE DEF lists
  <2>. QED
    BY <2>2, <2>3, <2>4
<1>. QED
  BY <1>1, <1>2

LEMMA ResponseFacts ==
  ASSUME NEW r \in Responses \cup {NoResponse}
  PROVE  /\ r.calls \in Seq(Tools) /\ r.offers \subseteq Options
         /\ r.kind # "calls" => r.question = "none"
<1>1. CallLists \subseteq Seq(Tools)
  BY Zenon, KnowledgeAssumption DEF Tools
<1>2. Offers \subseteq SUBSET Options
  BY Zenon, KnowledgeAssumption
<1>3. \A c \in CallLists : c \in Seq(Tools)
  BY <1>1
<1>4. <<>> \in Seq(Tools)
  OBVIOUS
<1>5. CASE r = NoResponse
  BY <1>4, <1>5 DEF NoResponse
<1>6. CASE r \in {[NoResponse EXCEPT !.kind = "answer", !.cites = c] : c \in SUBSET Chunks}
  BY <1>4, <1>6 DEF NoResponse
<1>7. CASE r \in {[NoResponse EXCEPT !.kind = "choice"]}
  BY <1>4, <1>7 DEF NoResponse
<1>8. CASE r \in {[NoResponse EXCEPT !.kind = "structured", !.offers = o] : o \in Offers}
  <2>1. PICK o \in Offers : r = [NoResponse EXCEPT !.kind = "structured", !.offers = o]
    BY <1>8
  <2>2. o \subseteq Options
    BY <1>2
  <2>. QED
    BY <1>4, <2>1, <2>2 DEF NoResponse
<1>9. CASE r \in {[NoResponse EXCEPT !.kind = "calls", !.calls = c]
                    : c \in {c \in CallLists : "clarify" \notin Range(c)}}
  BY <1>3, <1>9 DEF NoResponse
<1>10. CASE r \in {[NoResponse EXCEPT !.kind = "calls", !.calls = x[1], !.question = x[2]]
                     : x \in {c \in CallLists : "clarify" \in Range(c)} \X {"blank", "garbled"}}
  <2>1. PICK c \in CallLists, q \in {"blank", "garbled"} :
           r = [NoResponse EXCEPT !.kind = "calls", !.calls = c, !.question = q]
    BY <1>10
  <2>. QED
    BY <1>3, <2>1 DEF NoResponse
<1>11. CASE r \in {[NoResponse EXCEPT !.kind = "calls", !.calls = x[1], !.question = "clear", !.offers = x[2]]
                     : x \in {c \in CallLists : "clarify" \in Range(c)} \X Offers}
  <2>1. PICK c \in CallLists, o \in Offers :
           r = [NoResponse EXCEPT !.kind = "calls", !.calls = c, !.question = "clear", !.offers = o]
    BY <1>11
  <2>2. o \subseteq Options
    BY <1>2
  <2>. QED
    BY <1>3, <2>1, <2>2 DEF NoResponse
<1>. QED
  BY <1>5, <1>6, <1>7, <1>8, <1>9, <1>10, <1>11, Zenon DEF Responses

-----------------------------------------------------------------------------
(* The states that the nodes leave.                                        *)

LEMMA Names ==
  "no question" \notin Options /\ "no reply" \notin Options
  BY Zenon, KnowledgeAssumption

LEMMA FreshSound ==
  /\ StateSound(Fresh) /\ Fresh.node = "none" /\ Fresh.asked = NoQuestion /\ ~Waiting(Fresh)
<1>1. Fresh \in StateType
  <2>1. 0 \in 0..CountLimit
    BY Numbers
  <2>2. "none" \in Nodes
    BY DEF Nodes
  <2>3. NoResponse \in Responses \cup {NoResponse} /\ NoQuestion \in (SUBSET Options) \cup {NoQuestion}
    OBVIOUS
  <2>4. <<>> \in Seq(MessageType) /\ <<>> \in Seq(ExecutionType)
    OBVIOUS
  <2>. QED
    BY <2>1, <2>2, <2>3, <2>4 DEF Fresh, StateType
<1>2. /\ Fresh.node = "none" /\ Fresh.msgs = <<>> /\ Fresh.history = <<>> /\ Fresh.pending = <<>>
      /\ Fresh.asked = NoQuestion /\ Fresh.limit = FALSE
  BY DEF Fresh
<1>3. WellFormed(<<>>)
  BY DEF WellFormed
<1>4. Citable(<<>>, <<>>) /\ Proper(<<>>)
  BY DEF Citable, Proper
<1>. QED
  BY <1>1, <1>2, <1>3, <1>4 DEF StateSound, Waiting, Before

LEMMA MessageFacts ==
  ASSUME NEW kind \in Texts, NEW n \in Nat, NEW chunks \in SUBSET Chunks
  PROVE  /\ Message(kind, n, chunks) \in MessageType /\ Message(kind, n, chunks).kind = kind
         /\ Message(kind, n, chunks).count = n /\ Message(kind, n, chunks).chunks = chunks
  BY DEF Message, MessageType

LEMMA BuildStateSound ==
  ASSUME NEW s, StateSound(s), s.node = "build_state",
         NEW t, t = [s EXCEPT !.node = "llm_decision",
                          !.msgs = Append(Retained(s.msgs), Message("user", 0, {})),
                          !.history = KeptHistory(s.history),
                          !.response = NoResponse, !.pending = <<>>, !.options = {},
                          !.used = {}, !.iterations = 0, !.error = FALSE,
                          !.success = FALSE, !.limit = FALSE]
  PROVE  StateSound(t) /\ t.node = "llm_decision" /\ t.iterations = 0
<1>. DEFINE msgs == Append(Retained(s.msgs), Message("user", 0, {}))
            history == KeptHistory(s.history)
<1>1. s \in StateType /\ s.msgs \in Seq(MessageType) /\ s.history \in Seq(ExecutionType)
  BY DEF StateSound, StateType
<1>2. WellFormed(s.msgs) /\ Citable(s.msgs, s.history) /\ Proper(s.history) /\ ~Waiting(s)
  BY DEF StateSound
<1>3. /\ Message("user", 0, {}) \in MessageType
      /\ Message("user", 0, {}).kind = "user" /\ Message("user", 0, {}).chunks = {}
  BY MessageFacts DEF Texts
<1>4. Retained(s.msgs) \in Seq(MessageType) /\ WellFormed(Retained(s.msgs))
  BY <1>1, <1>2, RetainedFacts, SuffixWellFormed
<1>5. msgs \in Seq(MessageType) /\ WellFormed(msgs) /\ msgs # <<>>
  BY <1>3, <1>4, AppendWellFormed
<1>6. history \in Seq(ExecutionType) /\ Citable(msgs, history) /\ Proper(history)
  BY <1>1, <1>2, <1>3, <1>4, TrimCitable, AppendCitable, ProperKept
<1>. HIDE DEF msgs, history
<1>7. /\ t \in StateType /\ t.node = "llm_decision" /\ t.msgs = msgs /\ t.history = history
      /\ t.pending = <<>> /\ t.iterations = 0 /\ t.limit = FALSE /\ t.asked = s.asked
  <2>1. 0 \in 0..CountLimit
    BY Numbers
  <2>2. "llm_decision" \in Nodes
    BY DEF Nodes
  <2>3. t = [s EXCEPT !.node = "llm_decision", !.msgs = msgs, !.history = history,
                      !.response = NoResponse, !.pending = <<>>, !.options = {},
                      !.used = {}, !.iterations = 0, !.error = FALSE,
                      !.success = FALSE, !.limit = FALSE]
    BY DEF msgs, history
  <2>4. NoResponse \in Responses \cup {NoResponse} /\ <<>> \in Seq(ExecutionType)
    OBVIOUS
  <2>5. t \in StateType
    <3>. DEFINE a == [s EXCEPT !.node = "llm_decision", !.msgs = msgs, !.history = history,
                               !.response = NoResponse, !.pending = <<>>]
    <3>1. a \in StateType
      BY <1>1, <1>5, <1>6, <2>2, <2>4 DEF StateType
    <3>2. t = [a EXCEPT !.options = {}, !.used = {}, !.iterations = 0, !.error = FALSE,
                        !.success = FALSE, !.limit = FALSE]
      BY <2>3
    <3>. HIDE DEF a
    <3>3. {} \in SUBSET Options /\ {} \in SUBSET Chunks
      OBVIOUS
    <3>. QED
      BY <2>1, <3>1, <3>2, <3>3 DEF StateType
  <2>. QED
    BY <1>1, <2>3, <2>5 DEF StateType
<1>8. Proper(<<>>)
  BY DEF Proper
<1>. QED
  BY <1>2, <1>5, <1>6, <1>7, <1>8 DEF StateSound, Waiting

LEMMA DecisionSound ==
  ASSUME NEW s, StateSound(s), s.node = "llm_decision",
         NEW failed \in BOOLEAN, NEW response \in Responses,
         NEW u, u = [s EXCEPT !.iterations = Count(s.iterations),
                              !.response = IF failed THEN NoResponse ELSE response,
                              !.success = s.success /\ ~failed,
                              !.error = failed],
         NEW t, t = [u EXCEPT !.node = RouteAfterLLM(u)]
  PROVE  /\ StateSound(t) /\ t.iterations = Count(s.iterations)
         /\ t.node \in {"failure", "final_answer", "request_clarification", "execute_tool"}
         /\ t.node = "execute_tool" => t.iterations < MaxIterations
<1>. DEFINE given == IF failed THEN NoResponse ELSE response
            success == s.success /\ ~failed
            n == Count(s.iterations)
            node == RouteAfterLLM(u)
<1>1. s \in StateType /\ s.iterations \in 0..CountLimit
  BY DEF StateSound, StateType
<1>2. n \in 0..CountLimit
  BY <1>1, CountFacts
<1>3. success \in BOOLEAN /\ given \in Responses \cup {NoResponse}
  OBVIOUS
<1>. HIDE DEF given, success, n
<1>4. /\ u \in StateType /\ u.iterations = n /\ u.response = given /\ u.error = failed
      /\ u.msgs = s.msgs /\ u.history = s.history /\ u.pending = s.pending
      /\ u.limit = s.limit /\ u.asked = s.asked
  BY <1>1, <1>2, <1>3 DEF StateType, given, success, n
<1>5. node \in {"failure", "final_answer", "request_clarification", "execute_tool"}
  BY DEF RouteAfterLLM
<1>6. ~u.error /\ u.response.kind = "calls" /\ node \in {"request_clarification", "execute_tool"}
         => ~(u.iterations >= MaxIterations)
  BY DEF RouteAfterLLM
<1>7. node = "execute_tool" => ~u.error /\ u.response.kind = "calls"
  BY DEF RouteAfterLLM
<1>8. u.error => node = "failure"
  BY DEF RouteAfterLLM
<1>. HIDE DEF node
<1>9. /\ t \in StateType /\ t.node = node /\ t.iterations = n /\ t.response = given
      /\ t.msgs = s.msgs /\ t.history = s.history /\ t.pending = s.pending
      /\ t.limit = s.limit /\ t.asked = s.asked
  <2>1. node \in Nodes
    BY <1>5 DEF Nodes
  <2>2. t = [u EXCEPT !.node = node]
    BY DEF node
  <2>3. t \in StateType
    BY <1>4, <2>1, <2>2 DEF StateType
  <2>. QED
    BY <1>4, <2>2, <2>3 DEF StateType
<1>10. node \in {"request_clarification", "execute_tool"} /\ t.response.kind = "calls"
          => t.iterations < MaxIterations
  <2>1. node \in {"request_clarification", "execute_tool"} /\ t.response.kind = "calls"
           => ~(u.iterations >= MaxIterations)
    BY <1>4, <1>6, <1>8, <1>9
  <2>2. u.iterations \in 0..CountLimit /\ t.iterations = u.iterations
    BY <1>2, <1>4, <1>9
  <2>. QED
    BY <2>1, <2>2, Numbers
<1>11. node = "execute_tool" => t.response.kind = "calls"
  BY <1>4, <1>7, <1>9
<1>12. ~Waiting(s) /\ s.limit = FALSE
  BY <1>1 DEF StateSound, Before, StateType
<1>13. t.iterations >= 1
  <2>1. n >= 1
    BY <1>1, CountFacts, Numbers DEF n
  <2>. QED
    BY <1>9, <2>1
<1>14. StateSound(t)
  BY <1>5, <1>9, <1>10, <1>12, <1>13 DEF StateSound, Waiting, Before
<1>. QED
  BY <1>5, <1>9, <1>10, <1>11, <1>14 DEF n

LEMMA ExecutionSound ==
  ASSUME NEW s, StateSound(s), s.node = "execute_tool",
         NEW got \in [DOMAIN s.response.calls ->
                         UNION {Outcomes(x) : x \in Range(s.response.calls)}],
         \A i \in DOMAIN s.response.calls : got[i] \in Outcomes(s.response.calls[i]),
         NEW t, t = [s EXCEPT !.node = "update_messages",
                        !.pending = [i \in DOMAIN s.response.calls |->
                                        Execution(s.response.calls[i], got[i])]]
  PROVE  StateSound(t) /\ t.iterations = s.iterations /\ t.node = "update_messages"
<1>. DEFINE wanted == s.response.calls
            p == [i \in DOMAIN wanted |-> Execution(wanted[i], got[i])]
<1>1. s \in StateType /\ s.response \in Responses \cup {NoResponse}
  BY DEF StateSound, StateType
<1>2. wanted \in Seq(Tools)
  BY <1>1, ResponseFacts
<1>. HIDE DEF wanted
<1>3. /\ DOMAIN wanted = 1..Len(wanted) /\ Len(wanted) \in Nat
      /\ \A i \in 1..Len(wanted) : wanted[i] \in Tools
  BY <1>2
<1>4. ASSUME NEW x \in Tools, NEW g \in Outcomes(x)
      PROVE  /\ Execution(x, g) \in ExecutionType /\ Execution(x, g).tool = x
             /\ Execution(x, g).got = g
             /\ x = "search" => g \subseteq Chunks
             /\ x = "list" => g \subseteq AssetNames
  BY DEF Outcomes, Execution, ExecutionType
<1>5. \A i \in 1..Len(wanted) : got[i] \in Outcomes(wanted[i])
  BY <1>3 DEF wanted
<1>6. /\ \A i \in 1..Len(wanted) : p[i] = Execution(wanted[i], got[i]) /\ p[i] \in ExecutionType
      /\ DOMAIN p = 1..Len(wanted)
  BY <1>3, <1>4, <1>5
<1>7. p \in Seq(ExecutionType) /\ Len(p) = Len(wanted)
  BY <1>3, <1>6
<1>8. Proper(p)
  BY <1>3, <1>4, <1>5, <1>6, <1>7 DEF Proper
<1>. HIDE DEF p
<1>9. /\ t \in StateType /\ t.node = "update_messages" /\ t.pending = p
      /\ t.msgs = s.msgs /\ t.history = s.history /\ t.response = s.response
      /\ t.limit = s.limit /\ t.asked = s.asked /\ t.iterations = s.iterations
  BY <1>1, <1>7 DEF StateType, Nodes, p, wanted
<1>10. ~Waiting(s) /\ s.limit = FALSE
  BY <1>1 DEF StateSound, Before, StateType
<1>11. StateSound(t)
  BY <1>7, <1>8, <1>9, <1>10 DEF StateSound, Waiting, Before, wanted
<1>. QED
  BY <1>9, <1>11

LEMMA UpdateSound ==
  ASSUME NEW s, StateSound(s), s.node = "update_messages",
         NEW t, t = [s EXCEPT !.node = "llm_decision",
                          !.msgs = s.msgs \o <<Message("call", Len(s.response.calls), {})>>
                              \o [i \in DOMAIN s.pending |-> Message("result", 0, ChunksOf(s.pending[i]))],
                          !.history = s.history \o s.pending,
                          !.pending = <<>>, !.response = NoResponse]
  PROVE  StateSound(t) /\ t.iterations = s.iterations /\ t.node = "llm_decision"
<1>. DEFINE p == s.pending
            n == Len(p)
            call == Message("call", Len(s.response.calls), {})
            rs == [i \in DOMAIN p |-> Message("result", 0, ChunksOf(p[i]))]
            msgs == Batch(s.msgs, call, rs)
            history == s.history \o p
<1>1. /\ s \in StateType /\ s.msgs \in Seq(MessageType) /\ s.history \in Seq(ExecutionType)
      /\ p \in Seq(ExecutionType) /\ s.limit \in BOOLEAN
  BY DEF StateSound, StateType
<1>2. /\ WellFormed(s.msgs) /\ Citable(s.msgs, s.history) /\ Proper(s.history) /\ Proper(p)
      /\ s.msgs # <<>> /\ Len(s.response.calls) = n /\ ~Waiting(s) /\ ~s.limit
  BY DEF StateSound, Before
<1>3. n \in Nat /\ DOMAIN p = 1..n
  BY <1>1
<1>4. call \in MessageType /\ call.kind = "call" /\ call.count = n /\ call.chunks = {}
  BY <1>2, <1>3, MessageFacts DEF Texts
<1>5. ASSUME NEW i \in 1..n
      PROVE  /\ ChunksOf(p[i]) \in SUBSET Chunks
             /\ p[i].tool = "search" => ChunksOf(p[i]) = p[i].got
             /\ p[i].tool # "search" => ChunksOf(p[i]) = {}
  BY <1>2 DEF ChunksOf, Proper
<1>6. ASSUME NEW i \in 1..n
      PROVE  rs[i] \in MessageType /\ rs[i].kind = "result" /\ rs[i].chunks = ChunksOf(p[i])
  <2>1. rs[i] = Message("result", 0, ChunksOf(p[i]))
    BY <1>3
  <2>2. "result" \in Texts /\ 0 \in Nat
    BY DEF Texts
  <2>. HIDE DEF rs, p
  <2>3. ChunksOf(p[i]) \in SUBSET Chunks
    BY <1>5
  <2>. HIDE DEF n
  <2>. QED
    BY <2>1, <2>2, <2>3, MessageFacts
<1>7. rs \in Seq(MessageType) /\ Len(rs) = n
  <2>1. rs = [i \in 1..n |-> rs[i]]
    BY <1>3
  <2>. HIDE DEF rs, n
  <2>2. rs \in [1..n -> MessageType]
    BY <1>6, <2>1
  <2>. QED
    BY <1>3, <2>2
<1>. HIDE DEF call, rs, n, p
<1>8. /\ msgs \in Seq(MessageType) /\ msgs # <<>> /\ Len(msgs) = Len(s.msgs) + 1 + n
      /\ \A i \in 1..Len(s.msgs) : msgs[i] = s.msgs[i]
      /\ msgs[Len(s.msgs) + 1] = call
      /\ \A i \in 1..n : msgs[Len(s.msgs) + 1 + i] = rs[i]
      /\ WellFormed(msgs)
  <2>1. Len(rs) = n /\ call.count = Len(rs) /\ \A i \in 1..Len(rs) : rs[i].kind = "result"
    BY <1>1, <1>2, <1>3, <1>4, <1>6, <1>7
  <2>2. s.msgs \in Seq(MessageType) /\ WellFormed(s.msgs) /\ s.msgs # <<>> /\ rs \in Seq(MessageType)
        /\ call \in MessageType /\ call.kind = "call"
    BY <1>1, <1>2, <1>3, <1>4, <1>6, <1>7
  <2>3. /\ msgs \in Seq(MessageType) /\ msgs # <<>>
        /\ Len(msgs) = Len(s.msgs) + 1 + Len(rs)
        /\ \A i \in 1..Len(s.msgs) : msgs[i] = s.msgs[i]
        /\ msgs[Len(s.msgs) + 1] = call
        /\ \A i \in 1..Len(rs) : msgs[Len(s.msgs) + 1 + i] = rs[i]
        /\ WellFormed(msgs)
    BY <2>1, <2>2, BatchWellFormed
  <2>. HIDE DEF msgs
  <2>. QED
    BY <2>1, <2>3
<1>. HIDE DEF msgs
<1>9. \A i \in 1..n : \A c \in msgs[Len(s.msgs) + 1 + i].chunks :
          i \in 1..Len(p) /\ Len(p) = n /\ p[i].tool = "search" /\ c \in p[i].got
  BY <1>5, <1>6, <1>8 DEF n
<1>10. history \in Seq(ExecutionType) /\ Citable(msgs, history)
  <2>1. Len(p) <= n /\ msgs[Len(s.msgs) + 1].chunks = {}
    BY <1>3, <1>4, <1>8 DEF n
  <2>. QED
    BY <1>1, <1>2, <1>3, <1>8, <1>9, <2>1, BatchCitable
<1>11. Proper(history) /\ Proper(<<>>)
  <2>1. Proper(<<>>)
    BY DEF Proper
  <2>. QED
    BY <1>1, <1>2, <2>1, ProperMore
<1>. HIDE DEF history
<1>12. /\ t \in StateType /\ t.node = "llm_decision" /\ t.msgs = msgs /\ t.history = history
       /\ t.pending = <<>> /\ t.iterations = s.iterations /\ t.limit = s.limit /\ t.asked = s.asked
  <2>1. t = [s EXCEPT !.node = "llm_decision", !.msgs = msgs, !.history = history,
                      !.pending = <<>>, !.response = NoResponse]
    BY DEF msgs, history, rs, call, p, Batch
  <2>2. "llm_decision" \in Nodes /\ NoResponse \in Responses \cup {NoResponse}
        /\ <<>> \in Seq(ExecutionType)
    BY DEF Nodes
  <2>3. t \in StateType
    BY <1>1, <1>8, <1>10, <2>1, <2>2 DEF StateType
  <2>. QED
    BY <1>1, <2>1, <2>3 DEF StateType
<1>13. StateSound(t)
  BY <1>2, <1>8, <1>10, <1>11, <1>12 DEF StateSound, Waiting
<1>. QED
  BY <1>12, <1>13

LEMMA OptionsFacts ==
  ASSUME StateSound(run)
  PROVE  CurrentOptions \in SUBSET Options
<1>1. /\ run.response \in Responses \cup {NoResponse} /\ run.options \in SUBSET Options
      /\ run.history \in Seq(ExecutionType) /\ Proper(run.history)
  BY DEF StateSound, StateType
<1>2. run.response.offers \subseteq Options
  BY <1>1, ResponseFacts
<1>3. ListedNames(run.history) \subseteq Options
  BY <1>1, ListedFacts DEF Options
<1>. QED
  BY <1>1, <1>2, <1>3 DEF CurrentOptions, StableOptions

LEMMA SkipSound ==
  ASSUME NEW s, StateSound(s), s.node = "request_clarification", s.response.question = "blank",
         NEW t, t = [s EXCEPT !.node = "llm_decision", !.success = FALSE, !.error = TRUE]
  PROVE  /\ StateSound(t) /\ t.iterations = s.iterations /\ t.node = "llm_decision"
         /\ s.iterations < MaxIterations
<1>1. /\ s \in StateType /\ ~Waiting(s) /\ s.limit = FALSE
      /\ s.response \in Responses \cup {NoResponse}
  BY DEF StateSound, StateType, Before
<1>2. s.iterations < MaxIterations
  BY <1>1, ResponseFacts DEF StateSound
<1>3. /\ t \in StateType /\ t.node = "llm_decision" /\ t.msgs = s.msgs /\ t.history = s.history
      /\ t.pending = s.pending /\ t.iterations = s.iterations /\ t.limit = s.limit
      /\ t.asked = s.asked
  BY <1>1 DEF StateType, Nodes
<1>4. StateSound(t)
  BY <1>1, <1>3 DEF StateSound, Waiting, Before
<1>. QED
  BY <1>2, <1>3, <1>4

LEMMA InterruptSound ==
  ASSUME NEW s, StateSound(s), s.node = "request_clarification",
         s.response.question \notin {"garbled", "blank"},
         NEW options \in SUBSET Options,
         NEW t, t = [s EXCEPT !.asked = options]
  PROVE  StateSound(t) /\ t.iterations = s.iterations /\ t.node = s.node
<1>1. s \in StateType
  BY DEF StateSound
<1>2. /\ t \in StateType /\ t.node = s.node /\ t.msgs = s.msgs /\ t.history = s.history
      /\ t.pending = s.pending /\ t.iterations = s.iterations /\ t.limit = s.limit
      /\ t.response = s.response
  BY <1>1 DEF StateType
<1>3. StateSound(t)
  BY <1>2 DEF StateSound
<1>. QED
  BY <1>2, <1>3

LEMMA ReplyType ==
  ASSUME NEW a \in StateType, NEW options \in SUBSET Options,
         NEW t, t = [a EXCEPT !.options = options, !.error = FALSE, !.asked = NoQuestion]
  PROVE  t \in StateType
  BY DEF StateType

\* A call that is answered, and the notes that answer it.
Answered(n, call, rs) ==
    /\ call \in MessageType /\ call.kind = "call" /\ call.count = n /\ call.chunks = {}
    /\ rs \in Seq(MessageType) /\ Len(rs) = n
    /\ \A i \in 1..n : rs[i].kind = "result" /\ rs[i].chunks = {}

LEMMA DeferredFacts ==
  ASSUME NEW n \in Nat, NEW call, call = Message("call", n, {}),
         NEW rs, rs = [i \in 1..n |-> Message("result", 0, {})]
  PROVE  Answered(n, call, rs)
<1>1. call \in MessageType /\ call.kind = "call" /\ call.count = n /\ call.chunks = {}
  BY MessageFacts DEF Texts
<1>2. ASSUME NEW i \in 1..n
      PROVE  rs[i] \in MessageType /\ rs[i].kind = "result" /\ rs[i].chunks = {}
  <2>1. rs[i] = Message("result", 0, {})
    OBVIOUS
  <2>2. "result" \in Texts /\ 0 \in Nat
    BY DEF Texts
  <2>. QED
    BY <2>1, <2>2, MessageFacts
<1>3. rs \in Seq(MessageType) /\ Len(rs) = n
  <2>1. DOMAIN rs = 1..n
    OBVIOUS
  <2>. QED
    BY <1>2, <2>1, IsASeq
<1>. QED
  BY <1>1, <1>2, <1>3 DEF Answered

Replied(s, call, rs, options) ==
    [s EXCEPT !.node = "llm_decision", !.msgs = Batch(s.msgs, call, rs),
              !.response = NoResponse, !.pending = <<>>,
              !.options = options, !.error = FALSE, !.asked = NoQuestion]

LEMMA ReplySound ==
  ASSUME NEW s, StateSound(s), s.node = "request_clarification",
         NEW options \in SUBSET Options, NEW n \in Nat,
         NEW call, NEW rs, Answered(n, call, rs),
         NEW t, t = Replied(s, call, rs, options)
  PROVE  StateSound(t) /\ t.iterations = s.iterations /\ t.node = "llm_decision"
<1>. DEFINE msgs == Batch(s.msgs, call, rs)
<1>0. /\ call \in MessageType /\ call.kind = "call" /\ call.count = n /\ call.chunks = {}
      /\ rs \in Seq(MessageType) /\ Len(rs) = n
      /\ \A i \in 1..n : rs[i].kind = "result" /\ rs[i].chunks = {}
  BY Zenon DEF Answered
<1>1. /\ s \in StateType /\ s.msgs \in Seq(MessageType) /\ s.history \in Seq(ExecutionType)
      /\ s.limit \in BOOLEAN
  BY DEF StateSound, StateType
<1>2. /\ WellFormed(s.msgs) /\ Citable(s.msgs, s.history) /\ Proper(s.history)
      /\ s.msgs # <<>> /\ ~s.limit
  BY DEF StateSound, Before
<1>6. /\ msgs \in Seq(MessageType) /\ msgs # <<>> /\ Len(msgs) = Len(s.msgs) + 1 + n
      /\ \A i \in 1..Len(s.msgs) : msgs[i] = s.msgs[i]
      /\ msgs[Len(s.msgs) + 1] = call
      /\ \A i \in 1..n : msgs[Len(s.msgs) + 1 + i] = rs[i]
      /\ WellFormed(msgs)
  <2>1. Len(rs) = n /\ call.count = Len(rs) /\ \A i \in 1..Len(rs) : rs[i].kind = "result"
    BY <1>0, <1>1, <1>2
  <2>2. s.msgs \in Seq(MessageType) /\ WellFormed(s.msgs) /\ s.msgs # <<>> /\ rs \in Seq(MessageType)
        /\ call \in MessageType /\ call.kind = "call"
    BY <1>0, <1>1, <1>2
  <2>3. /\ msgs \in Seq(MessageType) /\ msgs # <<>>
        /\ Len(msgs) = Len(s.msgs) + 1 + Len(rs)
        /\ \A i \in 1..Len(s.msgs) : msgs[i] = s.msgs[i]
        /\ msgs[Len(s.msgs) + 1] = call
        /\ \A i \in 1..Len(rs) : msgs[Len(s.msgs) + 1 + i] = rs[i]
        /\ WellFormed(msgs)
    BY <2>1, <2>2, BatchWellFormed
  <2>. HIDE DEF msgs
  <2>. QED
    BY <1>0, <2>1, <2>3
<1>. HIDE DEF msgs
<1>7. Citable(msgs, s.history)
  <2>1. msgs[Len(s.msgs) + 1].chunks = {}
        /\ \A i \in 1..n : msgs[Len(s.msgs) + 1 + i].chunks = {}
    BY <1>0, <1>6
  <2>2. <<>> \in Seq(ExecutionType) /\ Len(<<>>) = 0 /\ Len(<<>>) <= n /\ s.history \o <<>> = s.history
    BY <1>1, ConcatEmptySeq
  <2>3. Citable(msgs, s.history \o <<>>)
    BY <1>0, <1>1, <1>2, <1>6, <2>1, <2>2, BatchCitable
  <2>. QED
    BY <2>2, <2>3
<1>8. Proper(<<>>)
  BY DEF Proper
<1>9. /\ t \in StateType /\ t.node = "llm_decision" /\ t.msgs = msgs /\ t.history = s.history
      /\ t.pending = <<>> /\ t.iterations = s.iterations /\ t.limit = s.limit
      /\ t.asked = NoQuestion
  <2>1. t = [s EXCEPT !.node = "llm_decision", !.msgs = msgs, !.response = NoResponse,
                      !.pending = <<>>, !.options = options, !.error = FALSE, !.asked = NoQuestion]
    BY DEF msgs, Replied
  <2>2. "llm_decision" \in Nodes /\ NoResponse \in Responses \cup {NoResponse}
        /\ <<>> \in Seq(ExecutionType) /\ NoQuestion \in (SUBSET Options) \cup {NoQuestion}
    BY DEF Nodes
  <2>3. t \in StateType
    <3>. DEFINE a == [s EXCEPT !.node = "llm_decision", !.msgs = msgs, !.response = NoResponse,
                               !.pending = <<>>]
    <3>1. a \in StateType
      BY <1>1, <1>6, <2>2 DEF StateType
    <3>2. t = [a EXCEPT !.options = options, !.error = FALSE, !.asked = NoQuestion]
      BY <2>1
    <3>. HIDE DEF a
    <3>. QED
      BY <3>1, <3>2, ReplyType, Zenon
  <2>. QED
    BY <1>1, <2>1, <2>3 DEF StateType
<1>10. StateSound(t)
  BY <1>2, <1>6, <1>7, <1>8, <1>9 DEF StateSound, Waiting
<1>. QED
  BY <1>9, <1>10

LEMMA AnswerSound ==
  ASSUME NEW s, StateSound(s), s.node = "final_answer", NEW used \in SUBSET Chunks,
         NEW t, t = [s EXCEPT !.node = "end",
                          !.msgs = Append(s.msgs, Message("answer", 0, {})),
                          !.used = used, !.success = TRUE, !.error = FALSE]
  PROVE  StateSound(t) /\ t.iterations = s.iterations /\ t.node = "end"
<1>. DEFINE msgs == Append(s.msgs, Message("answer", 0, {}))
<1>1. /\ s \in StateType /\ s.msgs \in Seq(MessageType) /\ s.history \in Seq(ExecutionType)
      /\ s.limit = FALSE /\ ~Waiting(s) /\ s.msgs # <<>>
      /\ WellFormed(s.msgs) /\ Citable(s.msgs, s.history)
  BY DEF StateSound, StateType, Before
<1>2. /\ Message("answer", 0, {}) \in MessageType
      /\ Message("answer", 0, {}).kind = "answer" /\ Message("answer", 0, {}).chunks = {}
  BY MessageFacts DEF Texts
<1>3. msgs \in Seq(MessageType) /\ WellFormed(msgs) /\ msgs # <<>> /\ Citable(msgs, s.history)
  BY <1>1, <1>2, AppendWellFormed, AppendCitable
<1>. HIDE DEF msgs
<1>4. /\ t \in StateType /\ t.node = "end" /\ t.msgs = msgs /\ t.history = s.history
      /\ t.pending = s.pending /\ t.iterations = s.iterations /\ t.limit = s.limit
      /\ t.asked = s.asked
  <2>1. t = [s EXCEPT !.node = "end", !.msgs = msgs, !.used = used, !.success = TRUE, !.error = FALSE]
    BY DEF msgs
  <2>. QED
    BY <1>1, <1>3, <2>1 DEF StateType, Nodes
<1>5. StateSound(t)
  BY <1>1, <1>3, <1>4 DEF StateSound, Waiting, Before
<1>. QED
  BY <1>4, <1>5

LEMMA FailureSound ==
  ASSUME NEW s, StateSound(s), s.node = "failure",
         NEW t, t = [s EXCEPT !.node = "end", !.used = {}, !.success = FALSE, !.error = TRUE,
                              !.limit = (s.iterations >= MaxIterations)]
  PROVE  StateSound(t) /\ t.iterations = s.iterations /\ t.node = "end"
<1>. DEFINE limit == s.iterations >= MaxIterations
<1>1. s \in StateType /\ ~Waiting(s) /\ s.msgs # <<>>
  BY DEF StateSound, Before
<1>2. limit \in BOOLEAN
  OBVIOUS
<1>. HIDE DEF limit
<1>3. t = [s EXCEPT !.node = "end", !.used = {}, !.success = FALSE, !.error = TRUE, !.limit = limit]
  BY DEF limit
<1>4. /\ t \in StateType /\ t.node = "end" /\ t.msgs = s.msgs /\ t.history = s.history
      /\ t.pending = s.pending /\ t.iterations = s.iterations /\ t.limit = limit
      /\ t.asked = s.asked
  BY <1>1, <1>2, <1>3 DEF StateType, Nodes
<1>5. t.limit => t.iterations >= MaxIterations
  BY <1>4 DEF limit
<1>6. StateSound(t)
  BY <1>1, <1>4, <1>5 DEF StateSound, Waiting, Before
<1>. QED
  BY <1>4, <1>6

-----------------------------------------------------------------------------
(* The steps of the nodes.                                                 *)

CoreStep == [Core!Next]_(Core!vars)

\* A turn is idle, or at work on its way.
LEMMA Idle ==
  ASSUME IInv, ~turn.busy
  PROVE  turn = NoTurn /\ run = Fresh /\ turn.reply = NoReply /\ run.node = "none"
  BY FreshSound DEF IInv, TurnSound, NoTurn

LEMMA AskedType ==
  ASSUME NEW s, StateSound(s)
  PROVE  s.asked \in (SUBSET Options) \cup {NoQuestion}
  BY DEF StateSound, StateType

\* What a node leaves is saved in the background; it works within the promise, and
\* may take up the reply.
LEMMA Inside ==
  ASSUME IInv, turn.busy, Saving, StateSound(run'), run'.node # "none",
         turn' \in [busy : BOOLEAN, reply : Options \cup {"other", NoReply}, raised : BOOLEAN],
         turn'.busy = TRUE, turn'.reply \in {turn.reply, NoReply},
         calls' \in 0..CountLimit, extra' \in 0..CountLimit,
         UNCHANGED <<shown, lost, reopened, turns, cuts>>, Budget'
  PROVE  IInv' /\ CoreStep
<1>1. TurnSound'
  BY DEF IInv, TurnSound
<1>2. ck' = ck /\ \A s \in (saves \cup {ck})' : StateSound(s)
  BY DEF IInv, Saving
<1>3. ShownQuestionIsOpen'
  BY DEF ShownQuestionIsOpen
<1>4. Core!Work
  <2>1. ck'.asked \in (SUBSET (Options \cup {"other"})) \cup {NoQuestion}
    BY <1>2, AskedType
  <2>. QED
    BY <2>1 DEF Core!Work
<1>. QED
  BY <1>1, <1>2, <1>3, <1>4 DEF IInv, CoreStep, Core!Next

LEMMA AllowanceFacts ==
  ASSUME IInv
  PROVE  /\ Allowance \in Nat /\ Allowance >= MaxIterations + extra
         /\ calls \in Nat /\ calls <= Allowance
<1>1. reopened \in Nat /\ extra \in Nat /\ calls \in Nat
  BY Numbers DEF IInv, TurnSound
<1>2. (MaxIterations - 1) * reopened \in Nat
  BY <1>1, Numbers
<1>. DEFINE more == (MaxIterations - 1) * reopened
<1>3. Allowance = MaxIterations + more + extra
  BY DEF Allowance
<1>. HIDE DEF more
<1>4. more \in Nat
  BY <1>2 DEF more
<1>5. Allowance \in Nat /\ Allowance >= MaxIterations + extra
  BY <1>1, <1>3, <1>4, Numbers
<1>. QED
  BY <1>1, <1>5 DEF IInv, Budget

LEMMA Shifted ==
  ASSUME NEW base \in Int, NEW a \in Nat, NEW b \in Nat, b >= a, base + a \in Nat
  PROVE  base + b \in Nat /\ base + b = (base + a) + (b - a) /\ base + a <= base + b
  OBVIOUS

\* A reply to a question put in the content adds to the allowance.
LEMMA AllowanceGrows ==
  ASSUME IInv, UNCHANGED reopened, extra' \in Nat, extra' >= extra
  PROVE  /\ Allowance' \in Nat /\ Allowance <= Allowance'
         /\ Allowance' = Allowance + (extra' - extra)
<1>. DEFINE base == MaxIterations + (MaxIterations - 1) * reopened
<1>1. Allowance = base + extra /\ Allowance' = base + extra'
  BY DEF Allowance
<1>2. extra \in Nat /\ Allowance \in Nat
  BY AllowanceFacts DEF IInv, TurnSound
<1>3. base \in Int
  <2>1. reopened \in Nat /\ MaxIterations \in Nat
    BY Numbers DEF IInv, TurnSound
  <2>. QED
    BY <2>1
<1>. HIDE DEF base
<1>4. base + extra \in Nat
  BY <1>1, <1>2
<1>5. /\ base + extra' \in Nat /\ base + extra' = (base + extra) + (extra' - extra)
      /\ base + extra <= base + extra'
  BY <1>2, <1>3, <1>4, Shifted
<1>. QED
  BY <1>1, <1>5, Zenon

LEMMA LeftFacts ==
  ASSUME NEW s, StateSound(s)
  PROVE  /\ Left(s) \in 0..MaxIterations /\ s.iterations \in 0..CountLimit
         /\ s.iterations < MaxIterations => Left(s) = MaxIterations - s.iterations /\ Left(s) >= 1
         /\ s.iterations >= MaxIterations => Left(s) = 0
         /\ s.iterations >= 1 => Left(s) <= MaxIterations - 1
<1>1. s.iterations \in 0..CountLimit
  BY DEF StateSound, StateType
<1>. QED
  BY <1>1, Numbers DEF Left

\* What the iterations say of the calls while the graph goes on.
LEMMA AtWorkBudget ==
  ASSUME IInv, turn.busy, run.node # "build_state"
  PROVE  /\ run.iterations <= calls /\ calls + Left(run) <= Allowance /\ calls <= Allowance
         /\ StateSound(run)
  BY DEF IInv, Budget

\* A node's state is one more to be saved.
LEMMA SavesBudget ==
  ASSUME IInv, Saving, calls' \in Nat, calls' >= calls, run'.iterations <= calls'
  PROVE  \A s \in (saves \cup {ck})' : Waiting(s) => s.iterations <= calls'
<1>1. ASSUME NEW s \in saves \cup {ck}, Waiting(s)
      PROVE  s.iterations <= calls'
  <2>1. s.iterations <= calls /\ s.iterations \in 0..CountLimit
    BY <1>1, LeftFacts DEF IInv, Budget
  <2>. QED
    BY <2>1, AllowanceFacts, Numbers
<1>. QED
  BY <1>1 DEF Saving

\* A node that calls no model.
LEMMA CalmBudget ==
  ASSUME IInv, turn.busy, run.node # "build_state", Saving, turn'.busy = TRUE,
         run'.iterations = run.iterations, run'.node # "build_state",
         UNCHANGED <<calls, reopened>>, extra' \in Nat, extra' >= extra,
         run'.node \in Calling => calls < Allowance'
  PROVE  Budget'
<1>1. /\ run.iterations <= calls /\ calls + Left(run) <= Allowance
      /\ Left(run) \in Nat /\ calls \in Nat /\ Allowance \in Nat
  BY AtWorkBudget, LeftFacts, AllowanceFacts, Numbers
<1>2. Allowance' \in Nat /\ Allowance <= Allowance'
  BY AllowanceGrows
<1>3. Left(run') = Left(run)
  BY DEF Left
<1>4. calls + Left(run') <= Allowance' /\ calls <= Allowance'
  BY <1>1, <1>2, <1>3
<1>5. \A s \in (saves \cup {ck})' : Waiting(s) => s.iterations <= calls'
  BY <1>1, SavesBudget
<1>. QED
  BY <1>1, <1>4, <1>5 DEF Budget

LEMMA Within ==
  ASSUME IInv, turn.busy, run.node \in Calling
  PROVE  calls < Allowance
  BY DEF IInv, Budget

LEMMA CountTypes ==
  ASSUME IInv
  PROVE  calls \in 0..CountLimit /\ extra \in 0..CountLimit /\ extra \in Nat /\ calls \in Nat
  BY DEF IInv, TurnSound

LEMMA TurnKept ==
  ASSUME IInv, turn.busy, UNCHANGED turn
  PROVE  /\ turn' \in [busy : BOOLEAN, reply : Options \cup {"other", NoReply}, raised : BOOLEAN]
         /\ turn'.busy = TRUE /\ turn'.reply \in {turn.reply, NoReply}
  BY DEF IInv, TurnSound

LEMMA BuildStateStep ==
  ASSUME IInv, BuildState
  PROVE  IInv' /\ CoreStep
<1>1. /\ turn.busy /\ run.node = "build_state" /\ Saving
      /\ UNCHANGED <<turn, shown, lost, calls, extra, reopened, turns, cuts>>
  BY DEF BuildState, At, counts
<1>2. StateSound(run') /\ run'.node = "llm_decision" /\ run'.iterations = 0
  BY <1>1, BuildStateSound DEF IInv, BuildState
<1>3. calls' = 0 /\ calls = 0
  BY <1>1 DEF IInv, Budget
<1>4. Budget'
  <2>1. Allowance' = Allowance /\ Allowance \in Nat /\ MaxIterations <= Allowance /\ 0 < Allowance
    <3>1. Allowance' = Allowance
      BY <1>1 DEF Allowance
    <3>. QED
      BY <3>1, AllowanceFacts, CountTypes, Numbers
  <2>2. Left(run') = MaxIterations
    BY <1>2, Numbers DEF Left
  <2>3. \A s \in (saves \cup {ck})' : Waiting(s) => s.iterations <= calls'
    BY <1>1, <1>2, <1>3, SavesBudget
  <2>. QED
    BY <1>1, <1>2, <1>3, <2>1, <2>2, <2>3, Numbers DEF Budget
<1>. QED
  BY <1>1, <1>2, <1>4, CountTypes, TurnKept, Inside

\* The model call that was made, and where its answer leads.
LEMMA DecisionTaken ==
  ASSUME StateSound(run), LLMDecision
  PROVE  /\ StateSound(run') /\ run'.iterations = Count(run.iterations)
         /\ run'.node \in {"failure", "final_answer", "request_clarification", "execute_tool"}
         /\ run'.node = "execute_tool" => run'.iterations < MaxIterations
<1>1. run.node = "llm_decision"
  BY DEF LLMDecision, At
<1>2. PICK failed \in BOOLEAN, response \in Responses :
         LET state == [run EXCEPT !.iterations = Count(run.iterations),
                                  !.response = IF failed THEN NoResponse ELSE response,
                                  !.success = run.success /\ ~failed,
                                  !.error = failed]
         IN  run' = [state EXCEPT !.node = RouteAfterLLM(state)]
  BY DEF LLMDecision
<1>3. PICK u : /\ u = [run EXCEPT !.iterations = Count(run.iterations),
                                  !.response = IF failed THEN NoResponse ELSE response,
                                  !.success = run.success /\ ~failed,
                                  !.error = failed]
               /\ run' = [u EXCEPT !.node = RouteAfterLLM(u)]
  BY <1>2
<1>. QED
  BY <1>1, <1>3, DecisionSound

LEMMA LLMDecisionStep ==
  ASSUME IInv, LLMDecision
  PROVE  IInv' /\ CoreStep
<1>1. /\ turn.busy /\ run.node = "llm_decision" /\ Saving /\ calls' = Count(calls)
      /\ UNCHANGED <<turn, shown, lost, extra, reopened, turns, cuts>>
  BY DEF LLMDecision, At
<1>2. /\ StateSound(run') /\ run'.iterations = Count(run.iterations)
      /\ run'.node \in {"failure", "final_answer", "request_clarification", "execute_tool"}
      /\ run'.node = "execute_tool" => run'.iterations < MaxIterations
  BY DecisionTaken DEF IInv
<1>. DEFINE i == run.iterations
            j == run'.iterations
<1>3. /\ i \in 0..CountLimit /\ i <= calls /\ calls + Left(run) <= Allowance
      /\ calls < Allowance /\ Allowance \in Nat /\ calls \in 0..CountLimit
  BY <1>1, AtWorkBudget, LeftFacts, Within, AllowanceFacts, CountTypes DEF Calling
<1>4. /\ calls' \in 0..CountLimit /\ calls' = IF calls < CountLimit THEN calls + 1 ELSE CountLimit
      /\ j \in 0..CountLimit /\ j = IF i < CountLimit THEN i + 1 ELSE CountLimit
  BY <1>1, <1>2, <1>3, CountFacts
<1>5. /\ Left(run) = IF i < MaxIterations THEN MaxIterations - i ELSE 0
      /\ Left(run') = IF j < MaxIterations THEN MaxIterations - j ELSE 0
  BY DEF Left
<1>6. Allowance' = Allowance
  BY <1>1 DEF Allowance
<1>7. Budget'
  <2>. HIDE DEF i, j
  <2>1. j <= calls' /\ calls' + Left(run') <= Allowance /\ calls' <= Allowance /\ calls' >= calls
        /\ (j < MaxIterations => calls' < Allowance)
    BY <1>3, <1>4, <1>5, Numbers
  <2>2. \A s \in (saves \cup {ck})' : Waiting(s) => s.iterations <= calls'
    BY <1>1, <1>4, <2>1, SavesBudget DEF j
  <2>. QED
    BY <1>1, <1>2, <1>6, <2>1, <2>2 DEF Budget, Calling, j
<1>. QED
  BY <1>1, <1>2, <1>4, <1>7, CountTypes, TurnKept, Inside

\* A node that calls no model and takes up no reply.
LEMMA CalmStep ==
  ASSUME IInv, turn.busy, run.node # "build_state", Saving,
         run'.iterations = run.iterations, run'.node # "build_state",
         UNCHANGED <<turn, calls, extra, reopened>>,
         run'.node \in Calling => calls < Allowance
  PROVE  Budget'
<1>1. Allowance' = Allowance
  BY DEF Allowance
<1>2. turn'.busy = TRUE /\ extra' \in Nat /\ extra' >= extra
  BY TurnKept, CountTypes
<1>. QED
  BY <1>1, <1>2, CalmBudget

LEMMA ExecuteToolStep ==
  ASSUME IInv, ExecuteTool
  PROVE  IInv' /\ CoreStep
<1>1. /\ turn.busy /\ run.node = "execute_tool" /\ Saving
      /\ UNCHANGED <<turn, shown, lost, calls, extra, reopened, turns, cuts>>
  BY DEF ExecuteTool, At, counts
<1>2. StateSound(run') /\ run'.iterations = run.iterations /\ run'.node = "update_messages"
  <2>1. PICK got \in [DOMAIN run.response.calls ->
                         UNION {Outcomes(t) : t \in Range(run.response.calls)}] :
           /\ \A i \in DOMAIN run.response.calls : got[i] \in Outcomes(run.response.calls[i])
           /\ run' = [run EXCEPT !.node = "update_messages",
                        !.pending = [i \in DOMAIN run.response.calls |->
                                        Execution(run.response.calls[i], got[i])]]
    BY DEF ExecuteTool
  <2>2. StateSound(run)
    BY DEF IInv
  <2>. QED
    BY <1>1, <2>1, <2>2, ExecutionSound
<1>3. Budget'
  BY <1>1, <1>2, CalmStep, Within DEF Calling
<1>. QED
  BY <1>1, <1>2, <1>3, CountTypes, TurnKept, Inside

LEMMA UpdateMessagesStep ==
  ASSUME IInv, UpdateMessages
  PROVE  IInv' /\ CoreStep
<1>1. /\ turn.busy /\ run.node = "update_messages" /\ Saving
      /\ UNCHANGED <<turn, shown, lost, calls, extra, reopened, turns, cuts>>
  BY DEF UpdateMessages, At, counts
<1>2. StateSound(run') /\ run'.iterations = run.iterations /\ run'.node = "llm_decision"
  BY <1>1, UpdateSound DEF IInv, UpdateMessages
<1>3. Budget'
  BY <1>1, <1>2, CalmStep, Within DEF Calling
<1>. QED
  BY <1>1, <1>2, <1>3, CountTypes, TurnKept, Inside

\* The node that fails for its arguments leaves all as it is.
LEMMA RaiseGarbledStep ==
  ASSUME IInv, RaiseGarbled
  PROVE  IInv' /\ CoreStep
<1>1. /\ turn.busy /\ turn' = [turn EXCEPT !.raised = TRUE]
      /\ UNCHANGED <<run, ck, saves, shown, lost, calls, extra, reopened, turns, cuts>>
  BY DEF RaiseGarbled, At, counts
<1>2. /\ turn' \in [busy : BOOLEAN, reply : Options \cup {"other", NoReply}, raised : BOOLEAN]
      /\ turn'.busy = turn.busy /\ turn'.reply = turn.reply
  BY <1>1 DEF IInv, TurnSound
<1>3. TurnSound'
  BY <1>1, <1>2 DEF IInv, TurnSound
<1>4. Budget'
  BY <1>1, <1>2 DEF IInv, Budget, Allowance
<1>5. ShownQuestionIsOpen'
  BY <1>1, <1>2 DEF ShownQuestionIsOpen
<1>6. UNCHANGED Core!vars
  BY <1>1, <1>2 DEF Core!vars
<1>. QED
  BY <1>1, <1>3, <1>4, <1>5, <1>6 DEF IInv, CoreStep

LEMMA SkipBlankStep ==
  ASSUME IInv, SkipBlank
  PROVE  IInv' /\ CoreStep
<1>1. /\ turn.busy /\ run.node = "request_clarification" /\ Saving
      /\ UNCHANGED <<turn, shown, lost, calls, extra, reopened, turns, cuts>>
  BY DEF SkipBlank, At, counts
<1>2. /\ StateSound(run') /\ run'.iterations = run.iterations /\ run'.node = "llm_decision"
      /\ run.iterations < MaxIterations
  BY <1>1, SkipSound DEF IInv, SkipBlank
<1>3. calls < Allowance
  <2>1. calls + Left(run) <= Allowance /\ Left(run) \in Nat /\ Left(run) >= 1
    BY <1>1, <1>2, AtWorkBudget, LeftFacts, Numbers
  <2>. QED
    BY <2>1, AllowanceFacts
<1>4. Budget'
  BY <1>1, <1>2, <1>3, CalmStep
<1>. QED
  BY <1>1, <1>2, <1>4, CountTypes, TurnKept, Inside

LEMMA InterruptStep ==
  ASSUME IInv, Interrupt
  PROVE  IInv' /\ CoreStep
<1>1. /\ turn.busy /\ run.node = "request_clarification" /\ Saving
      /\ run.response.question \notin {"garbled", "blank"}
      /\ run' = [run EXCEPT !.asked = CurrentOptions]
      /\ UNCHANGED <<turn, shown, lost, calls, extra, reopened, turns, cuts>>
  BY DEF Interrupt, At, counts, Clear
<1>2. StateSound(run) /\ CurrentOptions \in SUBSET Options
  BY OptionsFacts DEF IInv
<1>3. StateSound(run') /\ run'.iterations = run.iterations /\ run'.node = run.node
  BY <1>1, <1>2, InterruptSound
<1>4. Budget'
  BY <1>1, <1>3, CalmStep DEF Calling
<1>. QED
  BY <1>1, <1>3, <1>4, CountTypes, TurnKept, Inside

LEMMA TakeReplyStep ==
  ASSUME IInv, TakeReply
  PROVE  IInv' /\ CoreStep
<1>. DEFINE n == IF run.response.kind = "calls" THEN Len(run.response.calls) ELSE 1
<1>1. /\ turn.busy /\ run.node = "request_clarification" /\ Saving
      /\ turn' = [turn EXCEPT !.reply = NoReply]
      /\ extra' = IF run.response.kind = "calls" THEN extra ELSE Count(extra)
      /\ UNCHANGED <<shown, lost, calls, reopened, turns, cuts>>
  BY DEF TakeReply, At
<1>2. StateSound(run) /\ CurrentOptions \in SUBSET Options
  BY OptionsFacts DEF IInv
<1>3. n \in Nat
  <2>1. run.response \in Responses \cup {NoResponse}
    BY <1>2 DEF StateSound, StateType
  <2>2. run.response.calls \in Seq(Tools)
    BY <2>1, ResponseFacts
  <2>. QED
    BY <2>2
<1>4. PICK call, rs : /\ call = Message("call", n, {})
                      /\ rs = [i \in 1..n |-> Message("result", 0, {})]
                      /\ run' = [run EXCEPT !.node = "llm_decision", !.msgs = run.msgs \o <<call>> \o rs,
                                           !.response = NoResponse, !.pending = <<>>,
                                           !.options = CurrentOptions, !.error = FALSE,
                                           !.asked = NoQuestion]
  BY DEF TakeReply
<1>. HIDE DEF n
<1>5. StateSound(run') /\ run'.iterations = run.iterations /\ run'.node = "llm_decision"
  <2>1. PICK options \in SUBSET Options : options = CurrentOptions
    BY <1>2
  <2>2. run' = Replied(run, call, rs, options)
    BY <1>4, <2>1 DEF Batch, Replied
  <2>3. Answered(n, call, rs)
    BY <1>3, <1>4, DeferredFacts
  <2>4. StateSound(run) /\ run.node = "request_clarification"
    BY <1>1, <1>2
  <2>. QED
    BY <1>3, <2>2, <2>3, <2>4, ReplySound
<1>6. extra' \in 0..CountLimit /\ extra' \in Nat /\ extra' >= extra
  BY <1>1, CountTypes, CountFacts, Numbers
<1>7. calls < Allowance'
  <2>1. /\ calls + Left(run) <= Allowance /\ calls <= Allowance /\ calls \in 0..CountLimit
        /\ Allowance \in Nat /\ Allowance >= MaxIterations + extra /\ Left(run) \in Nat
    BY <1>1, AtWorkBudget, LeftFacts, AllowanceFacts, CountTypes, Numbers
  <2>2. Allowance' \in Nat /\ Allowance <= Allowance' /\ Allowance' = Allowance + (extra' - extra)
    BY <1>1, <1>6, AllowanceGrows
  <2>3. extra \in 0..CountLimit
    BY CountTypes
  <2>4. CASE run.response.kind = "calls"
    <3>1. Left(run) >= 1
      BY <1>1, <1>2, <2>4, LeftFacts DEF StateSound
    <3>2. calls < Allowance
      BY <2>1, <3>1, CountTypes
    <3>. QED
      BY <2>1, <2>2, <3>2, CountTypes
  <2>5. CASE run.response.kind # "calls"
    <3>1. extra' = IF extra < CountLimit THEN extra + 1 ELSE CountLimit
      BY <1>1, <2>3, <2>5, CountFacts
    <3>2. CASE extra < CountLimit
      <4>1. extra' - extra = 1
        BY <2>3, <3>1, <3>2, Numbers
      <4>2. Allowance' = Allowance + 1
        BY <2>2, <4>1
      <4>. QED
        BY <2>1, <4>2, CountTypes
    <3>3. CASE ~(extra < CountLimit)
      <4>1. extra = CountLimit
        BY <2>3, <3>3, Numbers
      <4>2. calls < Allowance
        BY <2>1, <4>1, Numbers
      <4>. QED
        BY <2>1, <2>2, <4>2, CountTypes
    <3>. QED
      BY <3>2, <3>3
  <2>. QED
    BY <2>4, <2>5
<1>9. /\ turn' \in [busy : BOOLEAN, reply : Options \cup {"other", NoReply}, raised : BOOLEAN]
      /\ turn'.busy = TRUE /\ turn'.reply = NoReply
  BY <1>1 DEF IInv, TurnSound
<1>10. Budget'
  BY <1>1, <1>5, <1>6, <1>7, <1>9, CalmBudget
<1>. QED
  BY <1>1, <1>5, <1>6, <1>9, <1>10, CountTypes, Inside

LEMMA FinalAnswerStep ==
  ASSUME IInv, FinalAnswer
  PROVE  IInv' /\ CoreStep
<1>. DEFINE used == run.response.cites \cap FoundChunks(run.history)
<1>1. /\ turn.busy /\ run.node = "final_answer" /\ Saving
      /\ UNCHANGED <<turn, shown, lost, calls, extra, reopened, turns, cuts>>
      /\ run' = [run EXCEPT !.node = "end", !.msgs = Append(run.msgs, Message("answer", 0, {})),
                            !.used = used, !.success = TRUE, !.error = FALSE]
  BY DEF FinalAnswer, At, counts
<1>2. StateSound(run)
  BY DEF IInv
<1>3. used \in SUBSET Chunks
  <2>1. run.history \in Seq(ExecutionType) /\ Proper(run.history)
    BY <1>2 DEF StateSound, StateType
  <2>2. FoundChunks(run.history) \subseteq Chunks
    BY <2>1 DEF FoundChunks, Proper, Range
  <2>. QED
    BY <2>2
<1>. HIDE DEF used
<1>4. StateSound(run') /\ run'.iterations = run.iterations /\ run'.node = "end"
  BY <1>1, <1>2, <1>3, AnswerSound
<1>5. Budget'
  BY <1>1, <1>4, CalmStep DEF Calling
<1>. QED
  BY <1>1, <1>4, <1>5, CountTypes, TurnKept, Inside

LEMMA FailureStep ==
  ASSUME IInv, Failure
  PROVE  IInv' /\ CoreStep
<1>1. /\ turn.busy /\ run.node = "failure" /\ Saving
      /\ UNCHANGED <<turn, shown, lost, calls, extra, reopened, turns, cuts>>
  BY DEF Failure, At, counts
<1>2. StateSound(run') /\ run'.iterations = run.iterations /\ run'.node = "end"
  BY <1>1, FailureSound DEF IInv, Failure
<1>3. Budget'
  BY <1>1, <1>2, CalmStep DEF Calling
<1>. QED
  BY <1>1, <1>2, <1>3, CountTypes, TurnKept, Inside

-----------------------------------------------------------------------------
(* Requests and the end of a turn.                                         *)

LEMMA StartSound ==
  ASSUME NEW s, StateSound(s), ~Waiting(s), NEW t, t = [s EXCEPT !.node = "build_state"]
  PROVE  StateSound(t) /\ t.node = "build_state"
<1>1. s \in StateType
  BY DEF StateSound
<1>2. /\ t \in StateType /\ t.node = "build_state" /\ t.msgs = s.msgs /\ t.history = s.history
      /\ t.pending = s.pending /\ t.limit = s.limit /\ t.asked = s.asked
  BY <1>1 DEF StateType, Nodes
<1>3. StateSound(t)
  BY <1>1, <1>2 DEF StateSound, Waiting, Before
<1>. QED
  BY <1>2, <1>3

\* A request is counted.
LEMMA Counted ==
  ASSUME IInv, Request
  PROVE  ~turn.busy /\ turns' \in 0..MaxTurns
<1>1. turns \in 0..MaxTurns /\ turns < MaxTurns /\ turns' = turns + 1 /\ ~turn.busy
  BY DEF IInv, TurnSound, Request
<1>. QED
  BY <1>1, Numbers

\* A request that changes nothing but their number.
LEMMA Refused ==
  ASSUME IInv, Request, UNCHANGED <<turn, run, ck, saves, calls, extra, reopened, cuts>>,
         \/ UNCHANGED <<shown, lost>>
         \/ shown' = ck.asked /\ lost' = FALSE
  PROVE  IInv' /\ CoreStep
<1>1. StateSound(ck) /\ StateSound(run) /\ Budget /\ turns' \in 0..MaxTurns
  BY Counted DEF IInv
<1>2. shown' \in (SUBSET Options) \cup {NoQuestion} /\ lost' \in BOOLEAN
  BY <1>1, AskedType DEF IInv, TurnSound
<1>3. TurnSound'
  BY <1>1, <1>2 DEF IInv, TurnSound
<1>4. StateSound(run') /\ (\A s \in (saves \cup {ck})' : StateSound(s)) /\ Budget'
  BY <1>1 DEF IInv, Budget, Allowance
<1>5. ShownQuestionIsOpen'
  BY DEF IInv, ShownQuestionIsOpen
<1>6. UNCHANGED Core!vars
  BY DEF Core!vars
<1>. QED
  BY <1>3, <1>4, <1>5, <1>6 DEF IInv, CoreStep

\* The budget of a request that is taken up.
LEMMA StartBudget ==
  ASSUME IInv, StateSound(run'), ~Waiting(ck), UNCHANGED ck, saves' = {run'},
         run'.node = "build_state", ~Waiting(run'), calls' = 0, extra' = 0, reopened' = 0,
         turn'.busy = TRUE
  PROVE  Budget'
<1>1. Allowance' = MaxIterations + (MaxIterations - 1) * 0 + 0
  BY DEF Allowance
<1>2. Allowance' = MaxIterations
  BY <1>1, Numbers
<1>3. calls' <= Allowance'
  BY <1>2, Numbers
<1>. QED
  BY <1>3 DEF Budget, Calling

LEMMA SendStep ==
  ASSUME IInv, Send
  PROVE  IInv' /\ CoreStep
<1>1. Request /\ UNCHANGED <<ck, lost, cuts>>
  BY DEF Send
<1>2. CASE Waiting(ck)
  <2>1. UNCHANGED <<turn, run, saves, shown, calls, extra, reopened>>
    BY <1>2 DEF Send
  <2>. QED
    BY <1>1, <2>1, Refused
<1>3. CASE ~Waiting(ck)
  <2>1. /\ turn' = [NoTurn EXCEPT !.busy = TRUE] /\ run' = [ck EXCEPT !.node = "build_state"]
        /\ saves' = {run'} /\ shown' = NoQuestion /\ calls' = 0 /\ extra' = 0 /\ reopened' = 0
    BY <1>3 DEF Send
  <2>2. turn' = [busy |-> TRUE, reply |-> NoReply, raised |-> FALSE]
    BY <2>1 DEF NoTurn
  <2>3. StateSound(ck) /\ StateSound(run') /\ run'.node = "build_state"
    BY <1>3, <2>1, StartSound DEF IInv
  <2>4. ck' = ck /\ ~Waiting(run') /\ \A s \in (saves \cup {ck})' : StateSound(s)
    <3>1. ck \in StateType
      BY <2>3 DEF StateSound
    <3>2. run'.asked = ck.asked
      BY <2>1, <3>1 DEF StateType
    <3>. QED
      BY <1>1, <1>3, <2>1, <2>3, <3>2 DEF Waiting
  <2>5. ~turn.busy /\ turns' \in 0..MaxTurns /\ turn.reply = NoReply
    BY <1>1, Counted, Idle
  <2>6. TurnSound'
    <3>1. calls' \in 0..CountLimit /\ extra' \in 0..CountLimit
      BY <2>1, Numbers
    <3>2. cuts' \in 0..MaxCuts /\ lost' \in BOOLEAN /\ reopened' \in 0..(cuts')
      BY <1>1, <2>1, Numbers DEF IInv, TurnSound
    <3>3. /\ turn' \in [busy : BOOLEAN, reply : Options \cup {"other", NoReply}, raised : BOOLEAN]
          /\ turn'.busy
      BY <2>2
    <3>4. shown' \in (SUBSET Options) \cup {NoQuestion}
      BY <2>1
    <3>5. run'.node # "none"
      BY <2>1, <2>3
    <3>. QED
      BY <2>5, <3>1, <3>2, <3>3, <3>4, <3>5, Zenon DEF TurnSound
  <2>7. Budget'
    BY <1>1, <1>3, <2>1, <2>2, <2>3, <2>4, StartBudget
  <2>8. ShownQuestionIsOpen'
    BY <2>2 DEF ShownQuestionIsOpen
  <2>9. Core!Start
    BY <1>1, <1>3, <2>2, <2>5 DEF Core!Start, Waiting
  <2>. QED
    BY <2>3, <2>4, <2>6, <2>7, <2>8, <2>9 DEF IInv, CoreStep, Core!Next
<1>. QED
  BY <1>2, <1>3

LEMMA ReplyStep ==
  ASSUME IInv, NEW text \in Options \cup {"other"}, Reply(text)
  PROVE  IInv' /\ CoreStep
<1>1. Request /\ UNCHANGED <<ck, saves, calls, extra, reopened, cuts>>
  BY DEF Reply
<1>2. CASE ~Waiting(ck) \/ (ck.asked # {} /\ text \notin ck.asked)
  <2>1. /\ UNCHANGED <<turn, run>>
        /\ UNCHANGED <<shown, lost>> \/ (shown' = ck.asked /\ lost' = FALSE)
    BY <1>2 DEF Reply
  <2>. QED
    BY <1>1, <2>1, Refused
<1>3. CASE Waiting(ck) /\ (ck.asked = {} \/ text \in ck.asked)
  <2>1. /\ turn' = [NoTurn EXCEPT !.busy = TRUE, !.reply = text] /\ run' = ck
        /\ shown' = NoQuestion /\ UNCHANGED lost
    BY <1>3 DEF Reply
  <2>2. turn' = [busy |-> TRUE, reply |-> text, raised |-> FALSE]
    BY <2>1 DEF NoTurn
  <2>5. ~turn.busy /\ turns' \in 0..MaxTurns
    BY <1>1, Counted
  <2>3. /\ StateSound(ck) /\ ck.node = "request_clarification"
        /\ ck.iterations <= calls /\ calls + Left(ck) <= Allowance
    <3>1. StateSound(ck) /\ ck.iterations <= calls /\ calls + Left(ck) <= Allowance
      BY <1>3, <2>5 DEF IInv, Budget
    <3>. QED
      BY <1>3, <3>1 DEF StateSound
  <2>4. StateSound(run') /\ \A s \in (saves \cup {ck})' : StateSound(s)
    BY <1>1, <2>1, <2>3 DEF IInv
  <2>6. TurnSound'
    <3>1. calls' \in 0..CountLimit /\ extra' \in 0..CountLimit
      BY <1>1, CountTypes
    <3>2. cuts' \in 0..MaxCuts /\ lost' \in BOOLEAN /\ reopened' \in 0..(cuts')
      BY <1>1, <2>1 DEF IInv, TurnSound
    <3>3. /\ turn' \in [busy : BOOLEAN, reply : Options \cup {"other", NoReply}, raised : BOOLEAN]
          /\ turn'.busy
      BY <2>2
    <3>4. shown' \in (SUBSET Options) \cup {NoQuestion}
      BY <2>1
    <3>5. run'.node # "none"
      BY <2>1, <2>3
    <3>. QED
      BY <2>5, <3>1, <3>2, <3>3, <3>4, <3>5, Zenon DEF TurnSound
  <2>7. Budget'
    <3>1. Allowance' = Allowance /\ calls <= Allowance
      BY <1>1 DEF IInv, Budget, Allowance
    <3>2. \A s \in saves \cup {ck} : Waiting(s) => s.iterations <= calls
      BY DEF IInv, Budget
    <3>. QED
      BY <1>1, <2>1, <2>2, <2>3, <3>1, <3>2 DEF Budget, Calling
  <2>8. ShownQuestionIsOpen'
    BY <2>2 DEF ShownQuestionIsOpen
  <2>9. Core!Resume(text)
    BY <1>1, <1>3, <2>2, <2>5 DEF Core!Resume, Waiting
  <2>. QED
    BY <2>4, <2>6, <2>7, <2>8, <2>9 DEF IInv, CoreStep, Core!Next
<1>. QED
  BY <1>2, <1>3 DEF Reply

LEMMA ClearMemoryStep ==
  ASSUME IInv, ClearMemory
  PROVE  IInv' /\ CoreStep
<1>1. /\ Request /\ ck' = Fresh /\ shown' = NoQuestion /\ lost' = FALSE
      /\ UNCHANGED <<turn, run, saves, calls, extra, reopened, cuts>>
  BY DEF ClearMemory
<1>2. ~turn.busy /\ turns' \in 0..MaxTurns
  BY <1>1, Counted
<1>3. /\ StateSound(run') /\ ~Waiting(ck') /\ ck'.asked = NoQuestion
      /\ \A s \in (saves \cup {ck})' : StateSound(s)
  BY <1>1, FreshSound DEF IInv
<1>4. TurnSound'
  BY <1>1, <1>2 DEF IInv, TurnSound
<1>5. Budget'
  BY <1>1, <1>3 DEF IInv, Budget, Allowance
<1>6. ShownQuestionIsOpen'
  BY <1>1, <1>3 DEF ShownQuestionIsOpen
<1>7. Core!Clear
  BY <1>1, <1>2, <1>3 DEF Core!Clear
<1>. QED
  BY <1>3, <1>4, <1>5, <1>6, <1>7 DEF IInv, CoreStep, Core!Next

\* A turn is over: the checkpoint keeps what was saved.
LEMMA Over ==
  ASSUME IInv, turn.busy, turn' = NoTurn, run' = Fresh, saves' = {}, StateSound(ck'),
         calls' \in 0..CountLimit, UNCHANGED <<extra, turns>>,
         cuts' \in 0..MaxCuts, reopened' \in 0..cuts',
         shown' \in (SUBSET Options) \cup {NoQuestion}, lost' \in BOOLEAN,
         ~lost' => shown' = ck'.asked,
         Waiting(ck') => ck'.iterations <= calls' /\ calls' + Left(ck') <= Allowance',
         calls' <= Allowance'
  PROVE  IInv' /\ CoreStep
<1>1. StateSound(run') /\ run'.node = "none"
  BY FreshSound
<1>2. turn' = [busy |-> FALSE, reply |-> NoReply, raised |-> FALSE]
  BY DEF NoTurn
<1>3. \A s \in (saves \cup {ck})' : StateSound(s)
  OBVIOUS
<1>4. TurnSound'
  BY <1>2 DEF IInv, TurnSound, NoTurn
<1>5. Budget'
  BY <1>1, <1>2 DEF Budget, Calling
<1>6. ShownQuestionIsOpen'
  BY DEF ShownQuestionIsOpen
<1>7. Core!Work
  <2>1. ck'.asked \in (SUBSET (Options \cup {"other"})) \cup {NoQuestion}
    BY AskedType
  <2>. QED
    BY <1>2, <2>1 DEF Core!Work
<1>. QED
  BY <1>1, <1>3, <1>4, <1>5, <1>6, <1>7 DEF IInv, CoreStep, Core!Next

\* The question that a turn ends with keeps what its iterations leave.
LEMMA OpenBudget ==
  ASSUME IInv, turn.busy, Waiting(run)
  PROVE  run.iterations <= calls /\ calls + Left(run) <= Allowance
<1>1. run.node = "request_clarification"
  BY DEF IInv, StateSound
<1>. QED
  BY <1>1, AtWorkBudget

LEMMA RespondStep ==
  ASSUME IInv, Respond
  PROVE  IInv' /\ CoreStep
<1>1. /\ turn.busy /\ turn' = NoTurn /\ run' = Fresh /\ ck' = run /\ saves' = {}
      /\ shown' = run.asked /\ lost' = FALSE /\ UNCHANGED <<calls, extra, reopened, turns, cuts>>
  BY DEF Respond, counts
<1>2. shown' \in (SUBSET Options) \cup {NoQuestion} /\ StateSound(ck')
  BY <1>1, AskedType DEF IInv
<1>3. /\ cuts' \in 0..MaxCuts /\ reopened' \in 0..cuts' /\ calls' \in 0..CountLimit
      /\ shown' = ck'.asked
  BY <1>1 DEF IInv, TurnSound
<1>4. Allowance' = Allowance /\ calls <= Allowance
  BY <1>1, AllowanceFacts DEF Allowance
<1>5. Waiting(ck') => ck'.iterations <= calls' /\ calls' + Left(ck') <= Allowance'
  BY <1>1, <1>4, OpenBudget
<1>. QED
  BY <1>1, <1>2, <1>3, <1>4, <1>5, Over

\* A question open again was asked after one call at least, and adds to the
\* allowance all the calls that may follow it.
LEMMA ReopenedAllowance ==
  ASSUME IInv, UNCHANGED extra, reopened' = reopened + 1
  PROVE  Allowance' \in Nat /\ Allowance' = Allowance + (MaxIterations - 1)
<1>. DEFINE a == MaxIterations - 1
<1>1. reopened \in Nat /\ a \in Nat /\ extra \in Nat
  BY Numbers DEF IInv, TurnSound
<1>2. Allowance = MaxIterations + a * reopened + extra
      /\ Allowance' = MaxIterations + a * (reopened + 1) + extra
  BY DEF Allowance
<1>. HIDE DEF a
<1>3. a * (reopened + 1) = a * reopened + a
  BY <1>1
<1>4. a * reopened \in Int
  BY <1>1
<1>5. Allowance \in Nat
  BY AllowanceFacts
<1>6. Allowance' = Allowance + a
  <2>. DEFINE b == a * reopened
  <2>1. b \in Int /\ Allowance = MaxIterations + b + extra /\ Allowance' = MaxIterations + (b + a) + extra
    BY <1>2, <1>3, <1>4
  <2>. HIDE DEF b
  <2>. QED
    BY <1>1, <2>1, Numbers
<1>. QED
  BY <1>1, <1>5, <1>6 DEF a

LEMMA CutShortStep ==
  ASSUME IInv, CutShort
  PROVE  IInv' /\ CoreStep
<1>1. /\ turn.busy /\ turn' = NoTurn /\ run' = Fresh /\ ck' \in {ck} \cup saves /\ saves' = {}
      /\ calls' \in IF At("llm_decision") THEN {calls, Count(calls)} ELSE {calls}
      /\ reopened' = IF Waiting(ck') /\ ck' # run THEN reopened + 1 ELSE reopened
      /\ lost' = TRUE /\ cuts < MaxCuts /\ cuts' = cuts + 1
      /\ UNCHANGED <<shown, extra, turns>>
  BY DEF CutShort
<1>2. /\ shown' \in (SUBSET Options) \cup {NoQuestion} /\ StateSound(ck')
      /\ Waiting(ck') => ck'.iterations <= calls
  BY <1>1 DEF IInv, TurnSound, Budget
<1>3. /\ cuts \in 0..MaxCuts /\ reopened \in 0..cuts /\ calls \in 0..CountLimit
      /\ Allowance \in Nat /\ calls <= Allowance
  BY AllowanceFacts DEF IInv, TurnSound
<1>4. cuts' \in 0..MaxCuts /\ reopened' \in 0..cuts'
  BY <1>1, <1>3, Numbers
<1>5. calls' \in 0..CountLimit /\ calls' >= calls /\ calls' <= Allowance
  <2>1. CASE At("llm_decision")
    <3>1. calls < Allowance
      BY <1>1, <2>1, Within DEF At, Calling
    <3>2. Count(calls) = IF calls < CountLimit THEN calls + 1 ELSE CountLimit
      BY <1>3, CountFacts
    <3>3. calls' \in {calls, Count(calls)}
      BY <1>1, <2>1
    <3>. QED
      BY <1>3, <3>1, <3>2, <3>3, Numbers
  <2>2. CASE ~At("llm_decision")
    BY <1>1, <1>3, <2>2
  <2>. QED
    BY <2>1, <2>2
<1>6. CASE Waiting(ck') /\ ck' # run
  <2>1. Allowance' \in Nat /\ Allowance' = Allowance + (MaxIterations - 1)
    BY <1>1, <1>6, ReopenedAllowance
  <2>2. ck'.node = "request_clarification" /\ ck'.iterations >= 1
    BY <1>2, <1>6 DEF StateSound
  <2>3. Left(ck') \in Nat /\ Left(ck') <= MaxIterations - 1 /\ ck'.iterations \in Nat
    BY <1>2, <2>2, LeftFacts, Numbers
  <2>4. calls' + Left(ck') <= Allowance' /\ ck'.iterations <= calls' /\ calls' <= Allowance'
    BY <1>2, <1>3, <1>5, <1>6, <2>1, <2>3, Numbers
  <2>. QED
    BY <1>1, <1>2, <1>4, <1>5, <2>4, Over
<1>7. CASE ~(Waiting(ck') /\ ck' # run)
  <2>1. Allowance' = Allowance
    BY <1>1, <1>7 DEF Allowance
  <2>2. Waiting(ck') => ck'.iterations <= calls' /\ calls' + Left(ck') <= Allowance'
    <3>1. SUFFICES ASSUME Waiting(ck')
                   PROVE  ck'.iterations <= calls' /\ calls' + Left(ck') <= Allowance'
      OBVIOUS
    <3>2. ck' = run /\ Waiting(run)
      BY <1>7, <3>1
    <3>3. ~At("llm_decision")
      BY <3>2 DEF IInv, StateSound, At
    <3>. QED
      BY <1>1, <2>1, <3>2, <3>3, OpenBudget
  <2>. QED
    BY <1>1, <1>2, <1>4, <1>5, <2>1, <2>2, Over
<1>. QED
  BY <1>6, <1>7

-----------------------------------------------------------------------------
(* The behaviours.                                                         *)

LEMMA Initially ==
  ASSUME Init
  PROVE  IInv /\ Core!Init
<1>1. /\ turn = NoTurn /\ run = Fresh /\ ck = Fresh /\ saves = {} /\ shown = NoQuestion
      /\ lost = FALSE /\ calls = 0 /\ extra = 0 /\ reopened = 0 /\ turns = 0 /\ cuts = 0
  BY DEF Init
<1>2. turn = [busy |-> FALSE, reply |-> NoReply, raised |-> FALSE]
  BY <1>1 DEF NoTurn
<1>3. /\ StateSound(run) /\ (\A s \in saves \cup {ck} : StateSound(s))
      /\ run.node = "none" /\ ck.asked = NoQuestion
  BY <1>1, FreshSound
<1>4. TurnSound
  <2>1. /\ calls \in 0..CountLimit /\ extra \in 0..CountLimit
        /\ turns \in 0..MaxTurns /\ cuts \in 0..MaxCuts /\ reopened \in 0..cuts
    BY <1>1, Numbers
  <2>2. turn \in [busy : BOOLEAN, reply : Options \cup {"other", NoReply}, raised : BOOLEAN]
    BY <1>2
  <2>3. ~turn.busy
    BY <1>2
  <2>. QED
    BY <1>1, <2>1, <2>2, <2>3 DEF TurnSound
<1>5. Budget
  <2>1. Allowance = MaxIterations + (MaxIterations - 1) * 0 + 0
    BY <1>1 DEF Allowance
  <2>2. calls <= Allowance
    BY <1>1, <2>1, Numbers
  <2>3. ~turn.busy /\ run.node \notin Calling /\ \A s \in saves \cup {ck} : ~Waiting(s)
    BY <1>1, <1>2, <1>3 DEF Waiting, Calling
  <2>. QED
    BY <2>2, <2>3 DEF Budget
<1>6. ShownQuestionIsOpen
  BY <1>1, <1>3 DEF ShownQuestionIsOpen
<1>7. Core!Init
  BY <1>2, <1>3 DEF Core!Init
<1>. QED
  BY <1>3, <1>4, <1>5, <1>6, <1>7 DEF IInv

LEMMA EveryStep ==
  ASSUME IInv, [Next]_vars
  PROVE  IInv' /\ CoreStep
<1>1. CASE Send
  BY <1>1, SendStep
<1>2. CASE ClearMemory
  BY <1>2, ClearMemoryStep
<1>3. CASE \E text \in Options \cup {"other"} : Reply(text)
  BY <1>3, ReplyStep
<1>4. CASE Nodewise
  BY <1>4, BuildStateStep, LLMDecisionStep, ExecuteToolStep, UpdateMessagesStep, RaiseGarbledStep,
     SkipBlankStep, InterruptStep, TakeReplyStep, FinalAnswerStep, FailureStep DEF Nodewise
<1>5. CASE Respond
  BY <1>5, RespondStep
<1>6. CASE CutShort
  BY <1>6, CutShortStep
<1>7. CASE UNCHANGED vars
  <2>1. UNCHANGED <<turn, run, ck, saves, shown, lost, calls, extra, reopened, turns, cuts>>
    BY <1>7 DEF vars
  <2>2. /\ TurnSound' /\ StateSound(run') /\ Budget' /\ ShownQuestionIsOpen'
        /\ \A s \in (saves \cup {ck})' : StateSound(s)
    BY <2>1 DEF IInv, TurnSound, Budget, Allowance, ShownQuestionIsOpen
  <2>3. UNCHANGED Core!vars
    BY <2>1 DEF Core!vars
  <2>. QED
    BY <2>2, <2>3 DEF IInv, CoreStep
<1>. QED
  BY <1>1, <1>2, <1>3, <1>4, <1>5, <1>6, <1>7 DEF Next

LEMMA Invariance == Spec => []IInv
<1>1. Init => IInv
  BY Initially
<1>2. IInv /\ [Next]_vars => IInv'
  BY EveryStep
<1>. QED
  BY <1>1, <1>2, PTL DEF Spec

\* The turn, the graph's state, the checkpoint and the counts keep their
\* types, with any chunks, files, responses, limits and cuts.
THEOREM TypeCorrect == Spec => []TypeOK
<1>1. IInv => TypeOK
  BY DEF IInv, TurnSound, StateSound, TypeOK
<1>. QED
  BY <1>1, Invariance, PTL

\* Every conversation a model is sent starts with the user, answers every tool
\* call and holds no result without its call (nodes/build_state.py,
\* nodes/update_messages.py and nodes/request_clarification.py).
THEOREM ConversationsKept == Spec => []ToolCallsAnswered
<1>1. IInv => ToolCallsAnswered
  BY DEF IInv, StateSound, ToolCallsAnswered
<1>. QED
  BY <1>1, Invariance, PTL

LEMMA CitableFound ==
  ASSUME NEW s, StateSound(s)
  PROVE  ShownChunks(s.msgs) \subseteq FoundChunks(s.history)
<1>1. s.msgs \in Seq(MessageType) /\ s.history \in Seq(ExecutionType) /\ Citable(s.msgs, s.history)
  BY DEF StateSound, StateType
<1>2. SUFFICES ASSUME NEW c \in ShownChunks(s.msgs)
               PROVE  c \in FoundChunks(s.history)
  OBVIOUS
<1>3. PICK i \in 1..Len(s.msgs) : c \in s.msgs[i].chunks
  BY <1>1 DEF ShownChunks, Range
<1>4. PICK j \in 1..Len(s.history) : s.history[j].tool = "search" /\ c \in s.history[j].got
  BY <1>1, <1>3 DEF Citable
<1>5. s.history[j] \in Range(s.history)
  BY <1>1 DEF Range
<1>. QED
  BY <1>4, <1>5 DEF FoundChunks

\* The model is never shown a search result it cannot cite any more, though
\* messages and tool history are trimmed apart (nodes/build_state.py).
THEOREM ResultsCitable == Spec => []VisibleResultsCitable
<1>1. IInv => VisibleResultsCitable
  BY CitableFound DEF IInv, VisibleResultsCitable
<1>. QED
  BY <1>1, Invariance, PTL

\* A turn fails for its iterations only after that many model calls.  One message
\* of the user costs at most max_iterations of them, one more for every reply to
\* a question put in the content, and max_iterations - 1 more for every cut that
\* left open a question whose reply was taken up, calls under way at a cut
\* included (nodes/llm_decision.py, nodes/failure.py and graph.py's routing).
THEOREM IterationsAreBounded == Spec => []IterationsBounded
<1>1. IInv => IterationsBounded
  <2>1. SUFFICES ASSUME IInv PROVE IterationsBounded
    OBVIOUS
  <2>2. calls <= Allowance
    BY <2>1 DEF IInv, Budget
  <2>3. ASSUME run.node = "end", run.limit PROVE calls >= MaxIterations
    <3>1. turn.busy
      BY <2>1, <2>3, Idle
    <3>2. run.iterations >= MaxIterations
      BY <2>1, <2>3 DEF IInv, StateSound, Before
    <3>3. run.iterations <= calls /\ run.iterations \in 0..CountLimit
      BY <2>1, <2>3, <3>1, AtWorkBudget, LeftFacts
    <3>. QED
      BY <2>1, <3>2, <3>3, AllowanceFacts, Numbers
  <2>. QED
    BY <2>2, <2>3 DEF IterationsBounded
<1>. QED
  BY <1>1, Invariance, PTL

\* The question the user was last shown is the one the checkpoint waits with,
\* options included, unless the last turn was cut short (graph.py's answers
\* and resumptions).
THEOREM ShownIsOpen == Spec => []ShownQuestionIsOpen
<1>1. IInv => ShownQuestionIsOpen
  BY DEF IInv
<1>. QED
  BY <1>1, Invariance, PTL

\* The agent, its lagging checkpoint and its cut turns included, implements
\* what KnowledgeCore promises its callers.
THEOREM CoreImplemented == Spec => ImplementsCore
<1>1. Init => Core!Init
  BY Initially
<1>2. IInv /\ [Next]_vars => [Core!Next]_(Core!vars)
  BY EveryStep DEF CoreStep
<1>. QED
  BY <1>1, <1>2, Invariance, PTL DEF Spec, ImplementsCore, Core!Spec

-----------------------------------------------------------------------------
(* A turn ends.                                                            *)

\* The iterations left before the limit, at which one more call may follow a reply.
CallsLeft(s) == IF s.iterations < MaxIterations THEN MaxIterations - s.iterations ELSE 1

\* The turn only has to be answered.
Answerable(t, s) == t.raised \/ s.node = "end" \/ (Waiting(s) /\ t.reply = NoReply)

LongestTurn == 3 * MaxIterations + 1

\* Three steps for every model call that is left, and what follows.
StepsFrom(s) ==
    CASE s.node = "execute_tool" -> 3 * CallsLeft(s) + 2
      [] s.node = "update_messages" -> 3 * CallsLeft(s) + 1
      [] s.node = "llm_decision" -> 3 * CallsLeft(s)
      [] s.node = "request_clarification" ->
            IF s.response.question = "blank" THEN 3 * CallsLeft(s) + 1 ELSE 2
      [] s.node \in {"final_answer", "failure"} -> 2

\* The number of steps that turn t may still take with state s.
StepsLeft(t, s) ==
    IF ~t.busy THEN 0
    ELSE IF Answerable(t, s) THEN 1
    ELSE IF t.reply # NoReply \/ s.node = "build_state" THEN LongestTurn
    ELSE StepsFrom(s)

\* A reply is at work on the question that it answers, tools run after a call.
AtWork ==
    /\ Replying => Waiting(run)
    /\ run.node = "execute_tool" => run.iterations > 0 /\ run.iterations < MaxIterations

LEMMA StepsFromValues ==
  ASSUME NEW s
  PROVE  /\ s.node = "execute_tool" => StepsFrom(s) = 3 * CallsLeft(s) + 2
         /\ s.node = "update_messages" => StepsFrom(s) = 3 * CallsLeft(s) + 1
         /\ s.node = "llm_decision" => StepsFrom(s) = 3 * CallsLeft(s)
         /\ s.node = "request_clarification" /\ s.response.question = "blank" =>
               StepsFrom(s) = 3 * CallsLeft(s) + 1
         /\ s.node = "request_clarification" /\ s.response.question # "blank" => StepsFrom(s) = 2
         /\ s.node \in {"final_answer", "failure"} => StepsFrom(s) = 2
BY DEF StepsFrom

LEMMA CallsLeftFacts ==
  ASSUME NEW s, StateSound(s)
  PROVE  /\ s.iterations \in 0..CountLimit
         /\ CallsLeft(s) \in 1..MaxIterations
         /\ s.iterations < MaxIterations => CallsLeft(s) = MaxIterations - s.iterations
<1>1. s.iterations \in 0..CountLimit
  BY DEF StateSound, StateType
<1>. QED
  BY <1>1, Numbers DEF CallsLeft

\* A sound state that a turn works on has a place in the count.
LEMMA StepsFromBounded ==
  ASSUME NEW s, StateSound(s), s.node \notin {"none", "build_state", "end"},
         s.node = "execute_tool" => s.iterations > 0 /\ s.iterations < MaxIterations
  PROVE  StepsFrom(s) \in 2..LongestTurn
<1>1. /\ s.node \in {"execute_tool", "update_messages", "llm_decision", "request_clarification",
                     "final_answer", "failure"}
  BY DEF StateSound, StateType, Nodes
<1>. DEFINE n == CallsLeft(s)
<1>2. n \in 1..MaxIterations /\ MaxIterations \in Nat
  BY CallsLeftFacts, Numbers
<1>3. StepsFrom(s) \in {3 * n + 1, 3 * n, 2} \/ (s.node = "execute_tool" /\ StepsFrom(s) = 3 * n + 2)
  BY <1>1, StepsFromValues
<1>4. CASE s.node = "execute_tool"
  <2>1. n < MaxIterations
    BY <1>4, CallsLeftFacts, Numbers
  <2>2. StepsFrom(s) = 3 * n + 2
    BY <1>4, StepsFromValues
  <2>. HIDE DEF n
  <2>. QED
    BY <1>2, <2>1, <2>2 DEF LongestTurn
<1>5. CASE s.node # "execute_tool"
  <2>1. StepsFrom(s) \in {3 * n + 1, 3 * n, 2}
    BY <1>3, <1>5
  <2>. HIDE DEF n
  <2>. QED
    BY <1>2, <2>1 DEF LongestTurn
<1>. QED
  BY <1>4, <1>5

\* A turn that is not answered yet, and works on no reply, has its node's count.
LEMMA AtNode ==
  ASSUME NEW t, NEW s, t.busy, ~t.raised, t.reply = NoReply, ~Waiting(s),
         s.node \notin {"build_state", "end"}
  PROVE  StepsLeft(t, s) = StepsFrom(s)
BY DEF StepsLeft, Answerable

\* What the state says of a turn in which a node runs.
LEMMA NodeFacts ==
  ASSUME IInv, AtWork, NEW n, At(n)
  PROVE  /\ turn.busy /\ ~turn.raised /\ run.node = n /\ StateSound(run)
         /\ n # "request_clarification" => ~Waiting(run) /\ turn.reply = NoReply
         /\ n \notin {"none", "end"} /\ turn.reply # NoReply => StepsLeft(turn, run) = LongestTurn
BY DEF IInv, AtWork, At, Replying, StateSound, StepsLeft, Answerable

\* A step that leaves the turn answerable, or over, brings it forward.
LEMMA NearTheEnd ==
  ASSUME IInv, AtWork, turn.busy, StepsLeft(turn', run') = 1
  PROVE  Answerable(turn, run) \/ StepsLeft(turn', run') < StepsLeft(turn, run)
<1>. SUFFICES ASSUME ~Answerable(turn, run) PROVE 1 < StepsLeft(turn, run)
  OBVIOUS
<1>1. StateSound(run) /\ run.node \notin {"none", "end"}
  BY DEF IInv, TurnSound, Answerable
<1>2. LongestTurn > 1
  BY Numbers DEF LongestTurn
<1>3. CASE turn.reply # NoReply \/ run.node = "build_state"
  BY <1>2, <1>3 DEF StepsLeft
<1>4. CASE ~(turn.reply # NoReply \/ run.node = "build_state")
  <2>1. StepsLeft(turn, run) = StepsFrom(run)
    BY <1>4 DEF StepsLeft
  <2>2. StepsFrom(run) \in 2..LongestTurn
    BY <1>1, <1>4, StepsFromBounded DEF AtWork
  <2>. QED
    BY <2>1, <2>2, Numbers DEF LongestTurn
<1>. QED
  BY <1>3, <1>4

LEMMA StepsLeftBounded ==
  ASSUME IInv, AtWork
  PROVE  StepsLeft(turn, run) \in 0..LongestTurn /\ (StepsLeft(turn, run) = 0 <=> ~turn.busy)
<1>1. LongestTurn \in Nat /\ LongestTurn > 1
  BY Numbers DEF LongestTurn
<1>2. CASE ~turn.busy
  BY <1>1, <1>2 DEF StepsLeft
<1>3. CASE turn.busy /\ (Answerable(turn, run) \/ turn.reply # NoReply \/ run.node = "build_state")
  BY <1>1, <1>3 DEF StepsLeft
<1>4. CASE turn.busy /\ ~(Answerable(turn, run) \/ turn.reply # NoReply \/ run.node = "build_state")
  <2>1. StateSound(run) /\ run.node \notin {"none", "build_state", "end"}
    BY <1>4 DEF IInv, TurnSound, Answerable
  <2>2. StepsFrom(run) \in 2..LongestTurn
    BY <2>1, StepsFromBounded DEF AtWork
  <2>3. StepsLeft(turn, run) = StepsFrom(run)
    BY <1>4 DEF StepsLeft
  <2>. QED
    BY <1>1, <1>4, <2>2, <2>3
<1>. QED
  BY <1>2, <1>3, <1>4

LEMMA BuildStateDescends ==
  ASSUME IInv, AtWork, BuildState
  PROVE  AtWork' /\ StepsLeft(turn', run') < StepsLeft(turn, run)
<1>1. At("build_state") /\ UNCHANGED turn
  BY DEF BuildState
<1>2. /\ turn.busy /\ ~turn.raised /\ run.node = "build_state" /\ ~Waiting(run)
      /\ turn.reply = NoReply /\ run \in StateType
  BY <1>1, NodeFacts DEF StateSound
<1>3. /\ run'.node = "llm_decision" /\ run'.iterations = 0 /\ run'.asked = run.asked
  BY <1>2 DEF BuildState, StateType
<1>4. ~Waiting(run')
  BY <1>2, <1>3 DEF Waiting
<1>5. StepsLeft(turn, run) = LongestTurn
  BY <1>2 DEF StepsLeft, Answerable
<1>6. StepsLeft(turn', run') = 3 * CallsLeft(run')
  BY <1>1, <1>2, <1>3, <1>4, AtNode, StepsFromValues
<1>7. CallsLeft(run') = MaxIterations
  BY <1>3, Numbers DEF CallsLeft
<1>8. AtWork'
  BY <1>1, <1>2, <1>3 DEF AtWork, Replying
<1>. QED
  BY <1>5, <1>6, <1>7, <1>8, Numbers DEF LongestTurn

LEMMA LLMDecisionDescends ==
  ASSUME IInv, IInv', AtWork, LLMDecision
  PROVE  AtWork' /\ StepsLeft(turn', run') < StepsLeft(turn, run)
<1>1. At("llm_decision") /\ UNCHANGED turn
  BY DEF LLMDecision
<1>2. /\ turn.busy /\ ~turn.raised /\ run.node = "llm_decision" /\ ~Waiting(run)
      /\ turn.reply = NoReply /\ StateSound(run)
  BY <1>1, NodeFacts
<1>3. PICK failed \in BOOLEAN, response \in Responses :
         \E u : /\ u = [run EXCEPT !.iterations = Count(run.iterations),
                                   !.response = IF failed THEN NoResponse ELSE response,
                                   !.success = run.success /\ ~failed,
                                   !.error = failed]
                /\ run' = [u EXCEPT !.node = RouteAfterLLM(u)]
  BY DEF LLMDecision
<1>4. /\ StateSound(run') /\ run'.iterations = Count(run.iterations)
      /\ run'.node \in {"failure", "final_answer", "request_clarification", "execute_tool"}
      /\ run'.node = "execute_tool" => run'.iterations < MaxIterations
  BY <1>2, DecisionTaken
<1>5. run'.asked = run.asked /\ ~Waiting(run')
  BY <1>2, <1>3 DEF StateSound, StateType, Waiting
<1>6. StepsLeft(turn, run) = 3 * CallsLeft(run)
  BY <1>2, AtNode, StepsFromValues
<1>7. StepsLeft(turn', run') = StepsFrom(run')
  BY <1>1, <1>2, <1>4, <1>5, AtNode
<1>8. run'.node = "request_clarification" /\ run'.response.question = "blank"
         => run'.iterations < MaxIterations
  <2>1. run'.response \in Responses \cup {NoResponse}
    BY <1>4 DEF StateSound, StateType
  <2>. QED
    BY <1>4, <2>1, ResponseFacts DEF StateSound
<1>9. run'.iterations < MaxIterations =>
         /\ run'.iterations = run.iterations + 1
         /\ CallsLeft(run') = CallsLeft(run) - 1
  <2>. DEFINE i == run.iterations
              j == run'.iterations
  <2>1. i \in 0..CountLimit /\ j = IF i < CountLimit THEN i + 1 ELSE CountLimit
    BY <1>2, <1>4, CallsLeftFacts, CountFacts
  <2>2. j < MaxIterations => j = i + 1 /\ i < MaxIterations
    BY <2>1, Numbers
  <2>3. j < MaxIterations => CallsLeft(run') = MaxIterations - j /\ CallsLeft(run) = MaxIterations - i
    BY <2>2 DEF CallsLeft
  <2>4. i \in Nat /\ j \in Nat
    BY <2>1, Numbers
  <2>. HIDE DEF i, j
  <2>5. j < MaxIterations => j = i + 1 /\ CallsLeft(run') = CallsLeft(run) - 1
    BY <2>2, <2>3, <2>4, Numbers
  <2>. QED
    BY <2>5 DEF i, j
<1>10. CallsLeft(run) \in 1..MaxIterations
  BY <1>2, CallsLeftFacts
<1>11. StepsLeft(turn', run') < StepsLeft(turn, run)
  <2>. DEFINE a == CallsLeft(run)
              b == CallsLeft(run')
              now  == StepsLeft(turn, run)
              next == StepsLeft(turn', run')
  <2>1. a \in Nat /\ a >= 1 /\ now = 3 * a
    BY <1>6, <1>10, Numbers
  <2>2. \/ b = a - 1 /\ next \in {3 * b + 2, 3 * b + 1}
        \/ next = 2
    BY <1>4, <1>7, <1>8, <1>9, StepsFromValues
  <2>. HIDE DEF a, b, now, next
  <2>3. next < now
    BY <2>1, <2>2
  <2>. QED
    BY <2>3 DEF next, now
<1>13. AtWork'
  <2>1. run'.node = "execute_tool" => run'.iterations > 0
    BY <1>2, <1>4, <1>9, CallsLeftFacts, Numbers
  <2>. QED
    BY <1>1, <1>2, <1>4, <2>1 DEF AtWork, Replying
<1>. QED
  BY <1>11, <1>13

\* A node that moves on within the iterations it has.
LEMMA MovesOn ==
  ASSUME IInv, AtWork, NEW n, At(n), UNCHANGED turn,
         n \in {"execute_tool", "update_messages", "request_clarification"},
         turn.reply = NoReply, ~Waiting(run), run'.asked = run.asked,
         run'.iterations = run.iterations,
         run'.node \in {"update_messages", "llm_decision"}
  PROVE  /\ AtWork' /\ StepsLeft(turn', run') = StepsFrom(run')
         /\ StepsLeft(turn, run) = StepsFrom(run) /\ CallsLeft(run') = CallsLeft(run)
         /\ CallsLeft(run) \in Nat
<1>1. turn.busy /\ ~turn.raised /\ run.node = n /\ StateSound(run) /\ ~Waiting(run')
  BY NodeFacts DEF Waiting
<1>2. CallsLeft(run') = CallsLeft(run)
  BY DEF CallsLeft
<1>3. AtWork'
  BY DEF AtWork, Replying
<1>. QED
  BY <1>1, <1>2, <1>3, AtNode, CallsLeftFacts, Numbers

LEMMA ExecuteToolDescends ==
  ASSUME IInv, AtWork, ExecuteTool
  PROVE  AtWork' /\ StepsLeft(turn', run') < StepsLeft(turn, run)
<1>1. At("execute_tool") /\ UNCHANGED turn
  BY DEF ExecuteTool
<1>2. /\ run.node = "execute_tool" /\ ~Waiting(run) /\ turn.reply = NoReply /\ run \in StateType
  BY <1>1, NodeFacts DEF StateSound
<1>3. /\ run'.node = "update_messages" /\ run'.iterations = run.iterations
      /\ run'.asked = run.asked
  BY <1>2 DEF ExecuteTool, StateType
<1>4. /\ AtWork' /\ StepsLeft(turn', run') = 3 * CallsLeft(run) + 1
      /\ StepsLeft(turn, run) = 3 * CallsLeft(run) + 2 /\ CallsLeft(run) \in Nat
  BY <1>1, <1>2, <1>3, MovesOn, StepsFromValues
<1>. QED
  BY <1>4

LEMMA UpdateMessagesDescends ==
  ASSUME IInv, AtWork, UpdateMessages
  PROVE  AtWork' /\ StepsLeft(turn', run') < StepsLeft(turn, run)
<1>1. At("update_messages") /\ UNCHANGED turn
  BY DEF UpdateMessages
<1>2. /\ run.node = "update_messages" /\ ~Waiting(run) /\ turn.reply = NoReply /\ run \in StateType
  BY <1>1, NodeFacts DEF StateSound
<1>3. /\ run'.node = "llm_decision" /\ run'.iterations = run.iterations
      /\ run'.asked = run.asked
  BY <1>2 DEF UpdateMessages, StateType
<1>4. /\ AtWork' /\ StepsLeft(turn', run') = 3 * CallsLeft(run)
      /\ StepsLeft(turn, run) = 3 * CallsLeft(run) + 1 /\ CallsLeft(run) \in Nat
  BY <1>1, <1>2, <1>3, MovesOn, StepsFromValues
<1>. QED
  BY <1>4

\* A blank question is asked within the iterations, whose count it leaves.
LEMMA SkipBlankDescends ==
  ASSUME IInv, AtWork, SkipBlank
  PROVE  AtWork' /\ StepsLeft(turn', run') < StepsLeft(turn, run)
<1>1. At("request_clarification") /\ run.response.question = "blank" /\ UNCHANGED turn
  BY DEF SkipBlank
<1>2. /\ run.node = "request_clarification" /\ run \in StateType
      /\ ~Waiting(run) /\ turn.reply = NoReply
  BY <1>1, NodeFacts DEF StateSound, AtWork, Replying
<1>3. /\ run'.node = "llm_decision" /\ run'.iterations = run.iterations
      /\ run'.asked = run.asked
  BY <1>2 DEF SkipBlank, StateType
<1>4. /\ AtWork' /\ StepsLeft(turn', run') = 3 * CallsLeft(run)
      /\ StepsLeft(turn, run) = 3 * CallsLeft(run) + 1 /\ CallsLeft(run) \in Nat
  BY <1>1, <1>2, <1>3, MovesOn, StepsFromValues
<1>. QED
  BY <1>4

LEMMA TakeReplyDescends ==
  ASSUME IInv, IInv', AtWork, TakeReply
  PROVE  AtWork' /\ StepsLeft(turn', run') < StepsLeft(turn, run)
<1>1. /\ At("request_clarification") /\ turn.reply # NoReply
      /\ turn' = [turn EXCEPT !.reply = NoReply]
  BY DEF TakeReply, Replying
<1>2. /\ run.node = "request_clarification" /\ run \in StateType /\ turn.busy /\ ~turn.raised
      /\ StepsLeft(turn, run) = LongestTurn
  BY <1>1, NodeFacts DEF StateSound
<1>3. /\ run'.node = "llm_decision" /\ run'.asked = NoQuestion
  BY <1>2 DEF TakeReply, StateType
<1>4. turn'.busy /\ ~turn'.raised /\ turn'.reply = NoReply
  BY <1>1, <1>2 DEF IInv, TurnSound
<1>5. StepsLeft(turn', run') = 3 * CallsLeft(run')
  BY <1>3, <1>4, AtNode, StepsFromValues DEF Waiting
<1>6. CallsLeft(run') \in 1..MaxIterations
  BY CallsLeftFacts DEF IInv
<1>7. AtWork'
  BY <1>3, <1>4 DEF AtWork, Replying
<1>. QED
  BY <1>2, <1>5, <1>6, <1>7, Numbers DEF LongestTurn

\* The question is put, the node raises, or the turn has its answer or failure.
LEMMA LastNodesDescend ==
  ASSUME IInv, AtWork, RaiseGarbled \/ Interrupt \/ FinalAnswer \/ Failure
  PROVE  AtWork' /\ StepsLeft(turn', run') < StepsLeft(turn, run)
<1>1. CASE RaiseGarbled
  <2>1. /\ At("request_clarification") /\ run.response.question = "garbled"
        /\ turn' = [turn EXCEPT !.raised = TRUE] /\ run' = run
    BY <1>1 DEF RaiseGarbled
  <2>2. /\ run.node = "request_clarification" /\ turn.busy /\ ~turn.raised
        /\ ~Waiting(run) /\ turn.reply = NoReply
    BY <2>1, NodeFacts DEF StateSound, AtWork, Replying
  <2>3. turn'.busy /\ turn'.raised /\ turn'.reply = NoReply
    BY <2>1, <2>2 DEF IInv, TurnSound
  <2>4. StepsLeft(turn', run') = 1
    BY <2>3 DEF StepsLeft, Answerable
  <2>5. ~Answerable(turn, run)
    BY <2>2 DEF Answerable
  <2>6. AtWork'
    BY <2>1, <2>2, <2>3 DEF AtWork, Replying
  <2>. QED
    BY <2>2, <2>4, <2>5, <2>6, NearTheEnd
<1>2. CASE Interrupt
  <2>1. /\ At("request_clarification") /\ ~Replying /\ ~Waiting(run) /\ UNCHANGED turn
        /\ run' = [run EXCEPT !.asked = CurrentOptions]
    BY <1>2 DEF Interrupt
  <2>2. /\ run.node = "request_clarification" /\ turn.busy /\ ~turn.raised /\ turn.reply = NoReply
        /\ run \in StateType
    BY <2>1, NodeFacts DEF StateSound, Replying
  <2>3. run'.node = run.node /\ run'.asked = CurrentOptions
    BY <2>1, <2>2 DEF StateType
  <2>4. CurrentOptions # NoQuestion
    BY OptionsFacts, Names DEF IInv, NoQuestion
  <2>5. StepsLeft(turn', run') = 1
    BY <2>1, <2>2, <2>3, <2>4 DEF StepsLeft, Answerable, Waiting
  <2>6. ~Answerable(turn, run)
    BY <2>1, <2>2 DEF Answerable
  <2>7. AtWork'
    BY <2>1, <2>2, <2>3 DEF AtWork, Replying
  <2>. QED
    BY <2>2, <2>5, <2>6, <2>7, NearTheEnd
<1>3. CASE FinalAnswer \/ Failure
  <2>1. /\ At("final_answer") \/ At("failure")
        /\ UNCHANGED turn
    BY <1>3 DEF FinalAnswer, Failure
  <2>2. /\ run.node \in {"final_answer", "failure"} /\ turn.busy /\ ~turn.raised /\ ~Waiting(run)
        /\ turn.reply = NoReply /\ run \in StateType
    BY <2>1, NodeFacts DEF StateSound
  <2>3. run'.node = "end"
    BY <1>3, <2>2 DEF FinalAnswer, Failure, StateType
  <2>4. StepsLeft(turn', run') = 1 /\ ~Answerable(turn, run)
    BY <2>1, <2>2, <2>3 DEF StepsLeft, Answerable
  <2>5. AtWork'
    BY <2>1, <2>2, <2>3 DEF AtWork, Replying
  <2>. QED
    BY <2>2, <2>4, <2>5, NearTheEnd
<1>. QED
  BY <1>1, <1>2, <1>3

\* An answered turn, or one cut short, is over.
LEMMA OverDescends ==
  ASSUME IInv, AtWork, Respond \/ CutShort
  PROVE  AtWork' /\ StepsLeft(turn', run') < StepsLeft(turn, run)
<1>1. turn.busy /\ turn' = NoTurn /\ run' = Fresh
  BY DEF Respond, CutShort
<1>2. StepsLeft(turn', run') = 0
  BY <1>1 DEF StepsLeft, NoTurn
<1>3. StepsLeft(turn, run) \in 0..LongestTurn /\ StepsLeft(turn, run) # 0
  BY <1>1, StepsLeftBounded
<1>4. AtWork'
  BY <1>1, FreshSound DEF AtWork, Replying, NoTurn
<1>. QED
  BY <1>2, <1>3, <1>4, Numbers DEF LongestTurn

\* A request is taken up between turns.
LEMMA RequestsMeetTheirQuestion ==
  ASSUME IInv, AtWork,
         Send \/ ClearMemory \/ \E text \in Options \cup {"other"} : Reply(text)
  PROVE  AtWork' /\ ~turn.busy
<1>1. ~turn.busy
  BY DEF Send, ClearMemory, Reply, Request
<1>2. CASE UNCHANGED <<turn, run>>
  BY <1>1, <1>2 DEF AtWork, Replying
<1>3. CASE Send /\ ~UNCHANGED <<turn, run>>
  <2>1. turn' = [NoTurn EXCEPT !.busy = TRUE] /\ run' = [ck EXCEPT !.node = "build_state"]
    BY <1>3 DEF Send
  <2>2. turn'.reply = NoReply /\ run'.node = "build_state"
    BY <2>1 DEF NoTurn, IInv, StateSound, StateType
  <2>. QED
    BY <1>1, <2>2 DEF AtWork, Replying
<1>4. CASE ClearMemory
  BY <1>2, <1>4 DEF ClearMemory
<1>5. ASSUME NEW text \in Options \cup {"other"}, Reply(text), ~UNCHANGED <<turn, run>>
      PROVE  AtWork'
  <2>1. Waiting(ck) /\ run' = ck
    BY <1>5 DEF Reply
  <2>2. ck.node = "request_clarification"
    BY <2>1 DEF IInv, StateSound
  <2>. QED
    BY <2>1, <2>2 DEF AtWork, Waiting
<1>. QED
  BY <1>1, <1>2, <1>3, <1>4, <1>5

LEMMA EveryStepDescends ==
  ASSUME IInv, IInv', AtWork, Next
  PROVE  AtWork' /\ (turn.busy => StepsLeft(turn', run') < StepsLeft(turn, run))
BY BuildStateDescends, LLMDecisionDescends, ExecuteToolDescends, UpdateMessagesDescends,
   SkipBlankDescends, TakeReplyDescends, LastNodesDescend, OverDescends, RequestsMeetTheirQuestion
DEF Next, Nodewise

LEMMA AtWorkHolds == Spec => [](IInv /\ AtWork)
<1>1. Init => AtWork
  BY DEF Init, AtWork, Replying, NoTurn, Fresh
<1>2. IInv /\ IInv' /\ AtWork /\ [Next]_vars => AtWork'
  <2>1. CASE UNCHANGED vars
    BY <2>1 DEF vars, AtWork, Replying
  <2>. QED
    BY <2>1, EveryStepDescends
<1>. QED
  BY <1>1, <1>2, Invariance, PTL DEF Spec

\* Every step of a turn, whatever the model answers and wherever it is cut short,
\* leaves fewer steps to take: tools, blank questions and replies cannot keep the
\* graph running (graph.py's routing, nodes/request_clarification.py).
THEOREM TurnsDescend == Spec => [][turn.busy => StepsLeft(turn, run)' < StepsLeft(turn, run)]_vars
<1>1. IInv /\ IInv' /\ AtWork /\ [Next]_vars
         => [turn.busy => StepsLeft(turn, run)' < StepsLeft(turn, run)]_vars
  BY EveryStepDescends
<1>. QED
  BY <1>1, AtWorkHolds, PTL DEF Spec

\* A turn takes at most three steps for every iteration of the limit and one more,
\* its answer included (graph.py's max_iterations).
THEOREM TurnsAreBounded ==
  Spec => [](StepsLeft(turn, run) \in 0..LongestTurn /\ (StepsLeft(turn, run) = 0 <=> ~turn.busy))
<1>. QED
  BY StepsLeftBounded, AtWorkHolds, PTL
==============================================================================
