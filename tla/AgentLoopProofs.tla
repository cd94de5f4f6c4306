-------------------------- MODULE AgentLoopProofs --------------------------
(***************************************************************************)
(* What holds of an Agent and its loop for any number of prompts, turns,   *)
(* tool calls and queued messages, and all the modes: the two copies of    *)
(* the conversation agree, its calls and results are paired, and queued    *)
(* messages are neither lost, repeated nor overtaken.                      *)
(***************************************************************************)
EXTENDS AgentLoop, SequenceFacts, FiniteSetTheorems, TLAPS

(***************************************************************************)
(* Conversations.  AtEnd is the last assistant message of a conversation,  *)
(* Answered the calls with a result since.                                 *)
(***************************************************************************)
AtEnd(s) == AssistantBefore(s, Len(s) + 1)
Answered(s) == AnsweredBetween(s, AtEnd(s), Len(s) + 1)
Settled(s) == Complete(s, Len(s) + 1)

IsResult(m) == m.role = "toolResult"
IsAnswer(m) == m.role = "assistant"

LEMMA AssistantBeforeIs ==
    ASSUME NEW s \in Seq(Message), NEW k \in 1..(Len(s) + 1), NEW a \in 0..(k - 1),
           a # 0 => s[a].role = "assistant",
           \A j \in 1..(k - 1) : s[j].role = "assistant" => j <= a
    PROVE  AssistantBefore(s, k) = a
<1> DEFINE T == {0} \cup {j \in 1..(k - 1) : s[j].role = "assistant"}
<1>1. a \in T /\ T \subseteq Int /\ \A j \in T : a >= j
  OBVIOUS
<1> HIDE DEF T
<1>2. ASSUME NEW b \in T, \A j \in T : b >= j PROVE b = a
  BY <1>1, <1>2
<1>3. Max(T) = a
  BY <1>1, <1>2 DEF Max
<1>4. QED BY <1>3 DEF AssistantBefore, T

LEMMA AssistantBeforeType ==
    ASSUME NEW s \in Seq(Message), NEW k \in 1..(Len(s) + 1)
    PROVE  /\ AssistantBefore(s, k) \in 0..(k - 1)
           /\ AssistantBefore(s, k) # 0 => s[AssistantBefore(s, k)].role = "assistant"
           /\ \A j \in 1..(k - 1) : s[j].role = "assistant" => j <= AssistantBefore(s, k)
<1> DEFINE T == {0} \cup {j \in 1..(k - 1) : s[j].role = "assistant"}
<1>1. T \subseteq Nat /\ T # {} /\ k \in Nat /\ \A j \in T : j <= k
  OBVIOUS
<1> HIDE DEF T
<1>2. PICK a \in T : \A j \in T : j <= a
  BY <1>1, GreatestBelow
<1>3. /\ a \in 0..(k - 1) /\ (a # 0 => s[a].role = "assistant")
      /\ \A j \in 1..(k - 1) : s[j].role = "assistant" => j <= a
  BY <1>2 DEF T
<1>4. AssistantBefore(s, k) = a
  BY <1>3, AssistantBeforeIs
<1>5. QED BY <1>3, <1>4

(* What comes later in a conversation changes nothing before.              *)
LEMMA PrefixKept ==
    ASSUME NEW s \in Seq(Message), NEW t \in Seq(Message), NEW k \in 1..(Len(s) + 1)
    PROVE  /\ AssistantBefore(s \o t, k) = AssistantBefore(s, k)
           /\ \A a \in 0..(k - 1) :
                /\ CallsAt(s \o t, a) = CallsAt(s, a)
                /\ AnsweredBetween(s \o t, a, k) = AnsweredBetween(s, a, k)
           /\ Complete(s \o t, k) <=> Complete(s, k)
<1> DEFINE st == s \o t
           b == AssistantBefore(s, k)
<1>1. /\ st \in Seq(Message) /\ k \in 1..(Len(st) + 1) /\ Len(s) \in Nat
      /\ \A j \in 1..(k - 1) : st[j] = s[j]
  OBVIOUS
<1>2. b \in 0..(k - 1) /\ (b # 0 => s[b].role = "assistant")
      /\ \A j \in 1..(k - 1) : s[j].role = "assistant" => j <= b
  BY AssistantBeforeType
<1> HIDE DEF st, b
<1>3. AssistantBefore(st, k) = b
  <2>1. b # 0 => st[b].role = "assistant"
    BY <1>1, <1>2
  <2>2. \A j \in 1..(k - 1) : st[j].role = "assistant" => j <= b
    BY <1>1, <1>2
  <2>3. QED BY <1>1, <1>2, <2>1, <2>2, AssistantBeforeIs
<1>4. ASSUME NEW a \in 0..(k - 1)
      PROVE  /\ CallsAt(st, a) = CallsAt(s, a)
             /\ AnsweredBetween(st, a, k) = AnsweredBetween(s, a, k)
  <2>1. a # 0 => st[a] = s[a]
    BY <1>1
  <2>2. \A i \in (a + 1)..(k - 1) : st[i] = s[i]
    BY <1>1
  <2>3. QED BY <2>1, <2>2 DEF CallsAt, AnsweredBetween
<1>5. Complete(st, k) <=> Complete(s, k)
  BY <1>2, <1>3, <1>4 DEF Complete, b
<1>6. QED BY <1>3, <1>4, <1>5 DEF st, b

(* Moving a position by n keeps it within the bounds moved by n.           *)
LEMMA Shifted ==
    ASSUME NEW n \in Nat, NEW a \in 0..n, NEW k \in Nat, NEW j \in 1..(k - 1)
    PROVE  n + j \in (a + 1)..(n + k - 1)
  OBVIOUS

(* Users and results do not begin a turn; results answer calls.            *)
LEMMA WithinTurn ==
    ASSUME NEW s \in Seq(Message), NEW t \in Seq(Message),
           \A j \in 1..Len(t) : t[j].role # "assistant",
           NEW k \in 1..(Len(t) + 1)
    PROVE  /\ AssistantBefore(s \o t, Len(s) + k) = AtEnd(s)
           /\ CallsAt(s \o t, AtEnd(s)) = CallsAt(s, AtEnd(s))
           /\ AnsweredBetween(s \o t, AtEnd(s), Len(s) + k) =
                  Answered(s) \cup {t[j].call : j \in {i \in 1..(k - 1) : IsResult(t[i])}}
<1> DEFINE st == s \o t
           n == Len(s)
           a == AtEnd(s)
<1>1. /\ st \in Seq(Message) /\ n \in Nat /\ Len(t) \in Nat /\ Len(st) = n + Len(t)
      /\ \A j \in 1..n : st[j] = s[j]
      /\ \A j \in 1..Len(t) : st[n + j] = t[j]
  OBVIOUS
<1>2. a \in 0..n /\ (a # 0 => s[a].role = "assistant")
      /\ \A j \in 1..n : s[j].role = "assistant" => j <= a
  <2>1. n + 1 \in 1..(Len(s) + 1) /\ (n + 1) - 1 = n
    BY <1>1
  <2>2. QED BY <2>1, AssistantBeforeType DEF AtEnd
<1>3. n + k \in 1..(Len(st) + 1) /\ a \in 0..(n + k - 1)
  BY <1>1, <1>2
<1>4. ASSUME NEW j \in 1..(n + k - 1), st[j].role = "assistant" PROVE j <= a
  <2>1. CASE j <= n
    BY <1>1, <1>2, <1>4, <2>1
  <2>2. CASE j > n
    <3>1. j - n \in 1..Len(t) /\ j = n + (j - n)
      BY <1>1, <2>2
    <3>2. st[j] = t[j - n]
      BY <1>1, <3>1
    <3>3. QED BY <1>4, <3>1, <3>2
  <2>3. QED BY <1>1, <2>1, <2>2
<1>5. a # 0 => st[a] = s[a]
  BY <1>1, <1>2
<1> HIDE DEF st, n
<1>6. AssistantBefore(st, n + k) = a
  <2>1. a # 0 => st[a].role = "assistant"
    BY <1>2, <1>5
  <2>2. a \in 0..((n + k) - 1)
    BY <1>1, <1>3
  <2>3. \A j \in 1..((n + k) - 1) : st[j].role = "assistant" => j <= a
    BY <1>1, <1>4
  <2> HIDE DEF a
  <2>4. QED BY <1>1, <1>3, <2>1, <2>2, <2>3, AssistantBeforeIs
<1>7. CallsAt(st, a) = CallsAt(s, a)
  BY <1>5 DEF CallsAt
<1>8. AnsweredBetween(st, a, n + k) =
          Answered(s) \cup {t[j].call : j \in {i \in 1..(k - 1) : IsResult(t[i])}}
  <2> DEFINE A == AnsweredBetween(st, a, n + k)
             B == {t[j].call : j \in {i \in 1..(k - 1) : IsResult(t[i])}}
  <2>1. Answered(s) = {s[j].call : j \in {i \in (a + 1)..n : s[i].role = "toolResult"}}
    BY <1>1 DEF Answered, AnsweredBetween, n
  <2>2. ASSUME NEW c \in A PROVE c \in Answered(s) \cup B
    <3>1. PICK j \in (a + 1)..(n + k - 1) : st[j].role = "toolResult" /\ c = st[j].call
      BY <1>1, <1>2 DEF AnsweredBetween
    <3>2. CASE j <= n
      <4>1. j \in (a + 1)..n /\ st[j] = s[j]
        BY <1>1, <1>2, <3>2
      <4>2. QED BY <2>1, <3>1, <4>1
    <3>3. CASE j > n
      <4>1. j - n \in 1..(k - 1) /\ j - n \in 1..Len(t) /\ j = n + (j - n)
        BY <1>1, <1>2, <3>3
      <4>2. st[j] = t[j - n]
        BY <1>1, <4>1
      <4>3. QED BY <3>1, <4>1, <4>2 DEF IsResult
    <3>4. QED BY <1>1, <1>2, <3>2, <3>3
  <2>3. ASSUME NEW c \in Answered(s) PROVE c \in A
    <3>1. PICK j \in (a + 1)..n : s[j].role = "toolResult" /\ c = s[j].call
      BY <2>1
    <3>2. j \in (a + 1)..(n + k - 1) /\ st[j] = s[j]
      BY <1>1, <1>2
    <3>3. QED BY <1>1, <1>2, <3>1, <3>2 DEF AnsweredBetween
  <2>4. ASSUME NEW c \in B PROVE c \in A
    <3>1. PICK j \in 1..(k - 1) : IsResult(t[j]) /\ c = t[j].call
      OBVIOUS
    <3>2. j \in 1..Len(t) /\ k \in Nat
      BY <1>1
    <3>3. st[n + j] = t[j]
      BY <1>1, <3>2
    <3>4. n + j \in (a + 1)..(n + k - 1)
      BY <1>1, <1>2, <3>2, Shifted
    <3>5. QED BY <1>1, <1>2, <3>1, <3>3, <3>4, SMTT(30) DEF AnsweredBetween, IsResult
  <2> HIDE DEF A, B
  <2>5. A = Answered(s) \cup B
    BY <2>2, <2>3, <2>4
  <2>6. QED BY <2>5 DEF A, B
<1>9. QED BY <1>6, <1>7, <1>8 DEF st, n

(* A conversation stays paired if what is added is.                        *)
LEMMA PairedExtends ==
    ASSUME NEW s \in Seq(Message), NEW t \in Seq(Message), Paired(s),
           \A k \in 1..Len(t) :
               IF IsResult(t[k])
               THEN LET a == AssistantBefore(s \o t, Len(s) + k)
                    IN  t[k].call \in CallsAt(s \o t, a)
                                          \ AnsweredBetween(s \o t, a, Len(s) + k)
               ELSE Complete(s \o t, Len(s) + k)
    PROVE  Paired(s \o t)
<1> DEFINE st == s \o t
<1>1. /\ st \in Seq(Message) /\ Len(s) \in Nat /\ Len(t) \in Nat
      /\ DOMAIN st = 1..(Len(s) + Len(t)) /\ DOMAIN s = 1..Len(s)
      /\ \A j \in 1..Len(s) : st[j] = s[j]
      /\ \A j \in 1..Len(t) : st[Len(s) + j] = t[j]
  OBVIOUS
<1>2. SUFFICES ASSUME NEW k \in 1..(Len(s) + Len(t))
               PROVE  IF st[k].role = "toolResult"
                      THEN LET a == AssistantBefore(st, k)
                           IN  st[k].call \in CallsAt(st, a) \ AnsweredBetween(st, a, k)
                      ELSE Complete(st, k)
  BY <1>1 DEF Paired
<1>3. CASE k <= Len(s)
  <2> DEFINE a == AssistantBefore(s, k)
  <2>1. k \in 1..Len(s) /\ k \in 1..(Len(s) + 1) /\ k \in DOMAIN s /\ st[k] = s[k]
    BY <1>1, <1>3
  <2>2. a \in 0..(k - 1)
    BY <2>1, AssistantBeforeType
  <2>3. /\ AssistantBefore(st, k) = a /\ CallsAt(st, a) = CallsAt(s, a)
        /\ AnsweredBetween(st, a, k) = AnsweredBetween(s, a, k)
        /\ Complete(st, k) <=> Complete(s, k)
    BY <2>1, <2>2, PrefixKept
  <2>4. IF s[k].role = "toolResult"
        THEN s[k].call \in CallsAt(s, a) \ AnsweredBetween(s, a, k)
        ELSE Complete(s, k)
    BY <2>1 DEF Paired
  <2> HIDE DEF st, a
  <2>5. QED BY <2>1, <2>3, <2>4
<1>4. CASE k > Len(s)
  <2> DEFINE j == k - Len(s)
  <2>1. j \in 1..Len(t) /\ k = Len(s) + j
    BY <1>1, <1>4
  <2> HIDE DEF j
  <2>2. st[k] = t[j]
    BY <1>1, <2>1
  <2> HIDE DEF st
  <2>3. QED BY <2>1, <2>2 DEF IsResult, st
<1>5. QED BY <1>1, <1>3, <1>4

(* Messages of the user come when every call is answered.                  *)
LEMMA AddUsers ==
    ASSUME NEW s \in Seq(Message), Paired(s), Settled(s),
           NEW t \in Seq(Message), \A j \in 1..Len(t) : t[j].role = "user"
    PROVE  Paired(s \o t) /\ Settled(s \o t)
<1>1. Len(t) \in Nat /\ Len(s) \in Nat /\ Len(s \o t) = Len(s) + Len(t)
      /\ \A j \in 1..Len(t) : t[j].role # "assistant" /\ ~IsResult(t[j])
  BY DEF IsResult
<1>2. ASSUME NEW k \in 1..(Len(t) + 1) PROVE Complete(s \o t, Len(s) + k)
  <2>1. {t[j].call : j \in {i \in 1..(k - 1) : IsResult(t[i])}} = {}
    <3>1. \A i \in 1..(k - 1) : i \in 1..Len(t)
      BY <1>1
    <3>2. QED BY <1>1, <3>1
  <2>2. /\ AssistantBefore(s \o t, Len(s) + k) = AtEnd(s)
        /\ CallsAt(s \o t, AtEnd(s)) = CallsAt(s, AtEnd(s))
        /\ AnsweredBetween(s \o t, AtEnd(s), Len(s) + k) = Answered(s)
    <3>1. /\ AssistantBefore(s \o t, Len(s) + k) = AtEnd(s)
          /\ CallsAt(s \o t, AtEnd(s)) = CallsAt(s, AtEnd(s))
          /\ AnsweredBetween(s \o t, AtEnd(s), Len(s) + k) =
                 Answered(s) \cup {t[j].call : j \in {i \in 1..(k - 1) : IsResult(t[i])}}
      BY <1>1, WithinTurn
    <3>2. QED BY <2>1, <3>1
  <2>3. Answered(s) = CallsAt(s, AtEnd(s))
    BY DEF Settled, Complete, AtEnd, Answered
  <2>4. QED BY <2>2, <2>3 DEF Complete
<1>3. Paired(s \o t)
  <2>1. \A k \in 1..Len(t) : k \in 1..(Len(t) + 1)
    BY <1>1
  <2>2. \A k \in 1..Len(t) : ~IsResult(t[k]) /\ Complete(s \o t, Len(s) + k)
    BY <1>1, <1>2, <2>1
  <2>3. QED BY <2>2, PairedExtends
<1>4. Settled(s \o t)
  <2>1. Len(t) + 1 \in 1..(Len(t) + 1) /\ Len(s \o t) + 1 = Len(s) + (Len(t) + 1)
    BY <1>1
  <2>2. QED BY <1>2, <2>1 DEF Settled
<1>5. QED BY <1>3, <1>4

(* Results of different calls that have none.                              *)
LEMMA AddResults ==
    ASSUME NEW s \in Seq(Message), Paired(s),
           NEW t \in Seq(Message), \A j \in 1..Len(t) : IsResult(t[j]),
           \A j \in 1..Len(t) : t[j].call \in CallsAt(s, AtEnd(s)) \ Answered(s),
           \A i, j \in 1..Len(t) : t[i].call = t[j].call => i = j
    PROVE  /\ Paired(s \o t)
           /\ AtEnd(s \o t) = AtEnd(s)
           /\ CallsAt(s \o t, AtEnd(s)) = CallsAt(s, AtEnd(s))
           /\ Answered(s \o t) = Answered(s) \cup {t[j].call : j \in 1..Len(t)}
<1>1. /\ Len(t) \in Nat /\ Len(s) \in Nat /\ Len(s \o t) = Len(s) + Len(t)
      /\ \A j \in 1..Len(t) : t[j].role # "assistant" /\ t[j].role = "toolResult"
  BY DEF IsResult
<1>2. ASSUME NEW k \in 1..(Len(t) + 1)
      PROVE  /\ AssistantBefore(s \o t, Len(s) + k) = AtEnd(s)
             /\ CallsAt(s \o t, AtEnd(s)) = CallsAt(s, AtEnd(s))
             /\ AnsweredBetween(s \o t, AtEnd(s), Len(s) + k) =
                    Answered(s) \cup {t[j].call : j \in 1..(k - 1)}
  <2>1. {i \in 1..(k - 1) : IsResult(t[i])} = 1..(k - 1)
    BY <1>1
  <2>2. /\ AssistantBefore(s \o t, Len(s) + k) = AtEnd(s)
        /\ CallsAt(s \o t, AtEnd(s)) = CallsAt(s, AtEnd(s))
        /\ AnsweredBetween(s \o t, AtEnd(s), Len(s) + k) =
               Answered(s) \cup {t[j].call : j \in {i \in 1..(k - 1) : IsResult(t[i])}}
    BY <1>1, WithinTurn
  <2>3. QED BY <2>1, <2>2
<1>3. Paired(s \o t)
  <2> SUFFICES ASSUME NEW k \in 1..Len(t)
               PROVE  t[k].call \in CallsAt(s \o t, AtEnd(s))
                                        \ AnsweredBetween(s \o t, AtEnd(s), Len(s) + k)
    <3>1. \A k \in 1..Len(t) : k \in 1..(Len(t) + 1)
      BY <1>1
    <3>2. \A k \in 1..Len(t) : AssistantBefore(s \o t, Len(s) + k) = AtEnd(s)
      BY <1>2, <3>1
    <3>3. QED BY <3>2, PairedExtends
  <2>1. k \in 1..(Len(t) + 1) /\ \A j \in 1..(k - 1) : j \in 1..Len(t) /\ j # k
    BY <1>1
  <2>2. t[k].call \notin {t[j].call : j \in 1..(k - 1)}
    BY <2>1
  <2>3. QED BY <1>2, <2>1, <2>2
<1>4. /\ AtEnd(s \o t) = AtEnd(s)
      /\ CallsAt(s \o t, AtEnd(s)) = CallsAt(s, AtEnd(s))
      /\ Answered(s \o t) = Answered(s) \cup {t[j].call : j \in 1..Len(t)}
  <2>1. /\ Len(t) + 1 \in 1..(Len(t) + 1) /\ Len(s \o t) + 1 = Len(s) + (Len(t) + 1)
        /\ (Len(t) + 1) - 1 = Len(t)
    BY <1>1
  <2>2. /\ AssistantBefore(s \o t, Len(s \o t) + 1) = AtEnd(s)
        /\ CallsAt(s \o t, AtEnd(s)) = CallsAt(s, AtEnd(s))
        /\ AnsweredBetween(s \o t, AtEnd(s), Len(s \o t) + 1) =
               Answered(s) \cup {t[j].call : j \in 1..Len(t)}
    BY <1>2, <2>1
  <2>3. AtEnd(s \o t) = AtEnd(s)
    BY <2>2 DEF AtEnd
  <2>4. Answered(s \o t) = AnsweredBetween(s \o t, AtEnd(s), Len(s \o t) + 1)
    BY <2>3 DEF Answered
  <2>5. QED BY <2>2, <2>3, <2>4
<1>5. QED BY <1>3, <1>4

(* An answer of the model comes when every call is answered, and opens the *)
(* calls it is owed results for.                                           *)
LEMMA AddAnswer ==
    ASSUME NEW s \in Seq(Message), Paired(s), Settled(s),
           NEW m \in Message, m.role = "assistant"
    PROVE  /\ Paired(s \o <<m>>)
           /\ AtEnd(s \o <<m>>) = Len(s) + 1
           /\ CallsAt(s \o <<m>>, Len(s) + 1) = Owed(m)
           /\ Answered(s \o <<m>>) = {}
<1> DEFINE t == <<m>>
           st == s \o t
<1>1. /\ t \in Seq(Message) /\ Len(t) = 1 /\ t[1] = m /\ st \in Seq(Message)
      /\ Len(s) \in Nat /\ Len(st) = Len(s) + 1 /\ st[Len(s) + 1] = m
  OBVIOUS
<1> HIDE DEF t, st
<1>2. Paired(st)
  <2>1. Len(s) + 1 \in 1..(Len(s) + 1)
    BY <1>1
  <2>2. Complete(s \o t, Len(s) + 1)
    BY <1>1, <2>1, PrefixKept DEF Settled
  <2>3. \A k \in 1..Len(t) : k = 1 /\ ~IsResult(t[k])
    BY <1>1 DEF IsResult
  <2>4. \A k \in 1..Len(t) : Complete(s \o t, Len(s) + k)
    BY <2>2, <2>3
  <2>5. QED BY <1>1, <2>3, <2>4, PairedExtends DEF st
<1>3. AtEnd(st) = Len(s) + 1
  <2>1. /\ Len(st) + 1 \in 1..(Len(st) + 1) /\ Len(s) + 1 \in 0..((Len(st) + 1) - 1)
        /\ \A j \in 1..((Len(st) + 1) - 1) : j <= Len(s) + 1
    BY <1>1
  <2>2. st[Len(s) + 1].role = "assistant"
    BY <1>1
  <2>3. QED BY <1>1, <2>1, <2>2, AssistantBeforeIs DEF AtEnd
<1>4. CallsAt(st, Len(s) + 1) = Owed(m)
  BY <1>1 DEF CallsAt
<1>5. Answered(st) = {}
  BY <1>1, <1>3 DEF Answered, AnsweredBetween
<1>6. QED BY <1>2, <1>3, <1>4, <1>5 DEF st, t

-----------------------------------------------------------------------------
(* What the steps put into the lists. *)

BatchTypes ==
    /\ total \in 0..MaxCalls
    /\ exclusive \in SUBSET (1..total)
    /\ task \in [1..total -> Batch!Phases]
    /\ produced \in [1..total -> Batch!Outcomes \cup {"none"}]
    /\ result \in [1..total -> Batch!Outcomes \cup {"none", "skipped"}]
    /\ emits \in [1..total -> Nat]
    /\ interrupted \in BOOLEAN /\ steeringCheck \in BOOLEAN /\ returned \in BOOLEAN

QueueTypes ==
    /\ accepted \in Seq(Nat) /\ acceptedFollowUps \in Seq(Nat)
    /\ steeringQueue \in Seq(Nat) /\ followUpQueue \in Seq(Nat)
    /\ taken \in Seq(Nat) /\ steeringMessages \in Seq(Nat)

Origins == {"prompt", "steer", "followUp"}
FromUser(s) == \A k \in 1..Len(s) : s[k].role = "user"

LEMMA DequeuedTypes ==
    ASSUME NEW q \in Seq(Nat), NEW mode
    PROVE  Dequeued(mode, q) \in Seq(Nat) /\ Remaining(mode, q) \in Seq(Nat)
BY DEF Dequeued, Remaining

LEMMA WithoutLastType ==
    ASSUME NEW q \in Seq(Nat)
    PROVE  WithoutLast(q) \in Seq(Nat) /\ Batch!WithoutLast(q) \in Seq(Nat)
BY DEF WithoutLast, Batch!WithoutLast

LEMMA MessagesType ==
    ASSUME NEW from \in Origins, NEW ids \in Seq(Nat)
    PROVE  Messages(from, ids) \in Seq(Message) /\ FromUser(Messages(from, ids))
<1> DEFINE s == Messages(from, ids)
<1>1. DOMAIN ids = 1..Len(ids) /\ Len(ids) \in Nat
  OBVIOUS
<1>2. \A k \in 1..Len(ids) : User(from, ids[k]) \in Message
  BY DEF User, Message, UserMessage, Origins
<1>3. s = [k \in 1..Len(ids) |-> User(from, ids[k])]
  BY <1>1 DEF Messages
<1>4. s \in Seq(Message) /\ Len(s) = Len(ids)
  BY <1>1, <1>2, <1>3
<1>5. \A k \in 1..Len(ids) : s[k].role = "user"
  BY <1>3 DEF User
<1>6. QED BY <1>4, <1>5 DEF FromUser

LEMMA AssistantType ==
    ASSUME NEW n \in CallCounts, NEW stop \in Stops \cup {"aborted", "leaked"}
    PROVE  /\ Assistant(n, stop) \in AssistantMessage /\ Assistant(n, stop) \in Message
           /\ Assistant(n, stop).role = "assistant" /\ Assistant(n, stop).calls = n
           /\ Assistant(n, stop).stop = stop
BY DEF Assistant, Message, AssistantMessage

LEMMA PlaceholdersType ==
    ASSUME NEW n \in CallCounts
    PROVE  /\ Placeholders(n) \in Seq(Message) /\ Len(Placeholders(n)) = n
           /\ \A k \in 1..n : /\ IsResult(Placeholders(n)[k])
                              /\ Placeholders(n)[k].call = k
<1>1. n \in Nat /\ 1..n \subseteq 1..MaxCalls
  BY LoopAssumption DEF CallCounts
<1>2. \A k \in 1..n : ToolResult(k) \in Message
  BY <1>1 DEF ToolResult, Message, ToolResultMessage
<1>3. QED BY <1>1, <1>2 DEF Placeholders, ToolResult, IsResult

Results(order) == [k \in DOMAIN order |-> ToolResult(order[k])]

LEMMA ResultsType ==
    ASSUME total \in 0..MaxCalls, NEW order \in InOrder(NewlyAnswered)
    PROVE  /\ Results(order) \in Seq(Message)
           /\ \A k \in 1..Len(Results(order)) : IsResult(Results(order)[k])
           /\ {Results(order)[k].call : k \in 1..Len(Results(order))} = NewlyAnswered
           /\ \A j, k \in 1..Len(Results(order)) :
                  Results(order)[j].call = Results(order)[k].call => j = k
<1> DEFINE n == Cardinality(NewlyAnswered)
           s == Results(order)
<1>1. total \in Nat /\ 1..total \subseteq 1..MaxCalls /\ NewlyAnswered \subseteq 1..total
  BY LoopAssumption DEF NewlyAnswered
<1>2. n \in Nat
  <2>1. IsFiniteSet(1..total)
    BY <1>1, FS_Interval
  <2>2. QED BY <1>1, <2>1, FS_Subset, FS_CardinalityType
<1>3. /\ order \in [1..n -> NewlyAnswered]
      /\ Range(order) = NewlyAnswered
      /\ \A j, k \in 1..n : j < k => order[j] < order[k]
  BY DEF InOrder
<1> HIDE DEF n
<1>4. \A k \in 1..n : ToolResult(order[k]) \in Message
  BY <1>1, <1>3 DEF ToolResult, Message, ToolResultMessage
<1>5. s = [k \in 1..n |-> ToolResult(order[k])]
  BY <1>3 DEF Results
<1>6. s \in Seq(Message) /\ Len(s) = n
  BY <1>2, <1>4, <1>5
<1>7. \A k \in 1..n : s[k].role = "toolResult" /\ s[k].call = order[k]
  BY <1>5 DEF ToolResult
<1> HIDE DEF s
<1>8. {s[k].call : k \in 1..n} = NewlyAnswered
  <2>1. NewlyAnswered = {order[k] : k \in 1..n}
    BY <1>3 DEF Range
  <2>2. QED BY <1>7, <2>1
<1>9. ASSUME NEW j \in 1..n, NEW k \in 1..n, s[j].call = s[k].call PROVE j = k
  <2>1. order[j] = order[k] /\ order[j] \in NewlyAnswered /\ order[k] \in NewlyAnswered
    BY <1>3, <1>7, <1>9
  <2>2. order[j] \in 1..total
    BY <1>1, <2>1
  <2>3. ~(order[j] < order[k]) /\ ~(order[k] < order[j])
    BY <2>1, <2>2
  <2>4. ~(j < k) /\ ~(k < j)
    BY <1>3, <2>3
  <2>5. QED BY <1>2, <2>4
<1>10. QED BY <1>6, <1>7, <1>8, <1>9 DEF s, IsResult

-----------------------------------------------------------------------------
(* Steps with the same effect on the lists. *)

(* A response that ends, or is aborted.                                    *)
Responds ==
    \/ \E n \in CallCounts, stop \in Stops : FinishResponse(n, stop)
    \/ \E n \in CallCounts : AbortResponse(n)

LEMMA ResponseReceived ==
    ASSUME Responds
    PROVE  /\ pc = "model"
           /\ \E m \in AssistantMessage : m.stop # "leaked" /\ Receive(m)
<1>1. ASSUME NEW n \in CallCounts, NEW stop \in Stops, FinishResponse(n, stop)
      PROVE  pc = "model" /\ \E m \in AssistantMessage : m.stop # "leaked" /\ Receive(m)
  <2>1. stop \in Stops \cup {"aborted", "leaked"}
    OBVIOUS
  <2>2. QED BY <1>1, <2>1, AssistantType DEF FinishResponse, Stops
<1>2. ASSUME NEW n \in CallCounts, AbortResponse(n)
      PROVE  pc = "model" /\ \E m \in AssistantMessage : m.stop # "leaked" /\ Receive(m)
  <2>1. "aborted" \in Stops \cup {"aborted", "leaked"}
    OBVIOUS
  <2>2. QED BY <1>2, <2>1, AssistantType DEF AbortResponse
<1>3. QED BY <1>1, <1>2 DEF Responds

(* The start of a run.                                                     *)
LEMMA RunStarts ==
    ASSUME FlagTypes, QueueTypes, Prompt \/ Continue
    PROVE  /\ pc = "none"
           /\ prompts' \in 0..MaxPrompts /\ followUpQueue' \in Seq(Nat)
           /\ \E new \in Seq(Message), queue \in Seq(Nat), skip \in BOOLEAN :
                  FromUser(new) /\ RunLoop(new, queue, skip)
<1> USE DEF FlagTypes, QueueTypes
<1>1. ASSUME NEW new \in Seq(Message), FromUser(new), NEW queue \in Seq(Nat),
             NEW skip \in BOOLEAN, RunLoop(new, queue, skip)
      PROVE  \E n \in Seq(Message), q \in Seq(Nat), k \in BOOLEAN :
                 FromUser(n) /\ RunLoop(n, q, k)
  BY <1>1
<1>2. CASE Prompt
  <2> DEFINE new == <<User("prompt", prompts + 1)>>
  <2>1. prompts + 1 \in Nat /\ prompts' \in 0..MaxPrompts
    BY <1>2, LoopAssumption DEF Prompt
  <2>2. User("prompt", prompts + 1) \in Message /\ User("prompt", prompts + 1).role = "user"
    BY <2>1 DEF User, Message, UserMessage
  <2>3. new \in Seq(Message) /\ FromUser(new)
    BY <2>2 DEF FromUser
  <2> HIDE DEF new
  <2>4. RunLoop(new, steeringQueue, FALSE) /\ pc = "none" /\ followUpQueue' = followUpQueue
    BY <1>2 DEF Prompt, Running, new
  <2>5. QED BY <1>1, <2>1, <2>3, <2>4
<1>3. CASE Continue
  <2>1. pc = "none" /\ prompts' = prompts
    BY <1>3 DEF Continue, Running
  <2>2. CASE Last(messages).role # "assistant"
    <3>1. <<>> \in Seq(Message) /\ FromUser(<<>>)
      BY DEF FromUser
    <3>2. RunLoop(<<>>, steeringQueue, FALSE) /\ followUpQueue' = followUpQueue
      BY <1>3, <2>2 DEF Continue
    <3>3. QED BY <1>1, <2>1, <3>1, <3>2
  <2>3. CASE /\ RunLoop(Messages("steer", Dequeued(SteeringMode, steeringQueue)),
                        Remaining(SteeringMode, steeringQueue), TRUE)
             /\ followUpQueue' = followUpQueue
    <3>1. /\ Dequeued(SteeringMode, steeringQueue) \in Seq(Nat)
          /\ Remaining(SteeringMode, steeringQueue) \in Seq(Nat)
      BY DequeuedTypes
    <3>2. /\ Messages("steer", Dequeued(SteeringMode, steeringQueue)) \in Seq(Message)
          /\ FromUser(Messages("steer", Dequeued(SteeringMode, steeringQueue)))
      BY <3>1, MessagesType DEF Origins
    <3>3. QED BY <1>1, <2>1, <2>3, <3>1, <3>2
  <2>4. CASE /\ RunLoop(Messages("followUp", Dequeued(FollowUpMode, followUpQueue)),
                        steeringQueue, FALSE)
             /\ followUpQueue' = Remaining(FollowUpMode, followUpQueue)
    <3>1. /\ Dequeued(FollowUpMode, followUpQueue) \in Seq(Nat)
          /\ Remaining(FollowUpMode, followUpQueue) \in Seq(Nat)
      BY DequeuedTypes
    <3>2. /\ Messages("followUp", Dequeued(FollowUpMode, followUpQueue)) \in Seq(Message)
          /\ FromUser(Messages("followUp", Dequeued(FollowUpMode, followUpQueue)))
      BY <3>1, MessagesType DEF Origins
    <3>3. QED BY <1>1, <2>1, <2>4, <3>1, <3>2
  <2>5. QED BY <1>3, <2>2, <2>3, <2>4 DEF Continue
<1>4. QED BY <1>2, <1>3

(* The steps that leave the conversation alone.                            *)
Elsewhere ==
    \/ StartResponse \/ RetryHarmonyLeak \/ Throw
    \/ Abort \/ Steer \/ FollowUp \/ PopLastSteer \/ PopLastFollowUp \/ ClearAllQueues
    \/ UNCHANGED vars

LEMMA StepCases ==
    ASSUME [Next]_vars
    PROVE  \/ Prompt \/ Continue \/ Responds \/ InjectPending \/ StopTurn \/ PassTurn
           \/ RunTools \/ ToolStep \/ FinishTools \/ Yield \/ Consume \/ FinishRun
           \/ Elsewhere
BY DEF Next, Provider, Loop, Caller, Environment, Responds, Elsewhere

-----------------------------------------------------------------------------
(* The types. *)

(* A turn with tools has at least one call, and the batch has as many.     *)
BatchSize == pc = "tools" => total = answer.calls /\ total > 0

Types == FlagTypes /\ ListTypes /\ BatchTypes /\ QueueTypes /\ BatchSize

Booleans ==
    /\ isStreaming \in BOOLEAN /\ aborted \in BOOLEAN /\ partial \in BOOLEAN
    /\ hasMoreToolCalls \in BOOLEAN /\ leftover \in BOOLEAN

LEMMA FlagStep == Types /\ [Next]_vars => FlagTypes'
<1> SUFFICES ASSUME Types, [Next]_vars PROVE FlagTypes'
  OBVIOUS
<1> USE DEF Types, FlagTypes, agentVars, queueVars, retryVars, loopVars
<1>1. CASE Prompt \/ Continue
  <2>1. prompts' \in 0..MaxPrompts /\ \E new, queue, skip : RunLoop(new, queue, skip)
    BY <1>1, RunStarts
  <2>2. PICK new, queue, skip : RunLoop(new, queue, skip)
    BY <2>1
  <2>3. Booleans'
    BY <2>2 DEF RunLoop, Booleans
  <2>4. pc' = "top" /\ harmonyRetries' = 0
    BY <2>2 DEF RunLoop
  <2>5. QED BY <2>1, <2>3, <2>4 DEF Booleans
<1>2. CASE Responds
  <2>1. PICK m \in AssistantMessage : Receive(m)
    BY <1>2, ResponseReceived
  <2>2. Booleans'
    BY <2>1 DEF Receive, Booleans
  <2>3. pc' = "turn" /\ harmonyRetries' = 0 /\ prompts' = prompts
    BY <2>1 DEF Receive
  <2>4. QED BY <2>2, <2>3 DEF Booleans
<1>3. CASE InjectPending \/ StopTurn \/ PassTurn \/ Yield
  BY <1>3 DEF InjectPending, StopTurn, PassTurn, EndTurn, Yield
<1>4. CASE RunTools \/ ToolStep \/ FinishTools
  BY <1>4 DEF RunTools, ToolStep, FinishTools, EndTurn
<1>5. CASE Consume
  BY <1>5 DEF Consume
<1>6. CASE FinishRun
  <2>1. Booleans'
    BY <1>6 DEF FinishRun, Booleans
  <2>2. pc' = "none" /\ harmonyRetries' = 0 /\ prompts' = prompts
    BY <1>6 DEF FinishRun
  <2>3. QED BY <2>1, <2>2 DEF Booleans
<1>9. CASE StartResponse
  BY <1>9 DEF StartResponse
<1>10. CASE RetryHarmonyLeak
  <2>1. Booleans'
    BY <1>10 DEF RetryHarmonyLeak, PopLeaked, Booleans
  <2>2. /\ pc' \in {"top", "yield"} /\ prompts' = prompts
        /\ harmonyRetries < 2 /\ harmonyRetries' = harmonyRetries + 1
    BY <1>10 DEF RetryHarmonyLeak, PopLeaked
  <2>3. QED BY <2>1, <2>2 DEF Booleans
<1>11. CASE Throw
  BY <1>11 DEF Throw
<1>7. CASE Abort
  <2>1. aborted' = TRUE /\ UNCHANGED <<isStreaming, prompts, pc, retryVars>>
    BY <1>7 DEF Abort
  <2>2. QED BY <2>1
<1>12. CASE Steer \/ FollowUp \/ PopLastSteer \/ PopLastFollowUp \/ ClearAllQueues
           \/ UNCHANGED vars
  <2>1. UNCHANGED <<isStreaming, aborted, prompts, pc, retryVars>>
    BY <1>12 DEF Steer, FollowUp, PopLastSteer, PopLastFollowUp, ClearAllQueues, vars
  <2>2. QED BY <2>1
<1>8. QED
  BY <1>1, <1>2, <1>3, <1>4, <1>5, <1>6, <1>7, <1>9, <1>10, <1>11, <1>12, StepCases
      DEF Elsewhere

BatchAction ==
    \/ \E i \in 1..total : \/ Batch!Start(i) \/ Batch!Execute(i)
                           \/ Batch!Produce(i, "ok") \/ Batch!Finish(i, "ok")
    \/ Batch!ResolveCheck
    \/ Batch!Return

LEMMA BatchActionTypes ==
    ASSUME BatchTypes, QueueTypes, BatchAction
    PROVE  BatchTypes' /\ total' = total
<1> USE DEF BatchTypes, QueueTypes, Batch!Phases, Batch!Outcomes, Batch!Calls
<1>1. ASSUME NEW i \in 1..total, Batch!Start(i) PROVE BatchTypes' /\ total' = total
  BY <1>1 DEF Batch!Start
<1>2. ASSUME NEW i \in 1..total, Batch!Execute(i) PROVE BatchTypes' /\ total' = total
  BY <1>2 DEF Batch!Execute
<1>3. ASSUME NEW i \in 1..total, Batch!Produce(i, "ok") PROVE BatchTypes' /\ total' = total
  BY <1>3 DEF Batch!Produce
<1>4. ASSUME NEW i \in 1..total, Batch!Finish(i, "ok") PROVE BatchTypes' /\ total' = total
  <2>1. /\ result' = [result EXCEPT ![i] = Batch!Emitted("ok")]
        /\ emits' = [emits EXCEPT ![i] = @ + 1]
        /\ UNCHANGED <<total, exclusive, produced, interrupted, returned>>
    BY <1>4 DEF Batch!Finish
  <2>2. \/ task' = [task EXCEPT ![i] = "settled"] /\ steeringCheck' = steeringCheck
        \/ task' = [task EXCEPT ![i] = "checking"] /\ steeringCheck' = TRUE
    BY <1>4 DEF Batch!Finish, Batch!CheckSteering
  <2>3. Batch!Emitted("ok") \in Batch!Outcomes \cup {"none", "skipped"}
    BY DEF Batch!Emitted
  <2>4. result' \in [1..total -> Batch!Outcomes \cup {"none", "skipped"}]
    BY <2>1, <2>3
  <2>5. emits' \in [1..total -> Nat]
    BY <2>1
  <2>6. task' \in [1..total -> Batch!Phases] /\ steeringCheck' \in BOOLEAN
    BY <2>2
  <2>7. QED BY <2>1, <2>4, <2>5, <2>6
<1>5. ASSUME Batch!ResolveCheck PROVE BatchTypes' /\ total' = total
  BY <1>5 DEF Batch!ResolveCheck
<1>6. ASSUME Batch!Return PROVE BatchTypes' /\ total' = total
  BY <1>6 DEF Batch!Return
<1>7. QED BY <1>1, <1>2, <1>3, <1>4, <1>5, <1>6 DEF BatchAction

LEMMA BatchActionQueues ==
    ASSUME QueueTypes, BatchAction
    PROVE  /\ taken' \in Seq(Nat) /\ steeringQueue' \in Seq(Nat)
           /\ steeringMessages' \in Seq(Nat) /\ accepted' = accepted
<1> USE DEF QueueTypes
<1>1. ASSUME NEW i \in 1..total, Batch!Finish(i, "ok")
      PROVE  /\ taken' \in Seq(Nat) /\ steeringQueue' \in Seq(Nat)
             /\ steeringMessages' \in Seq(Nat) /\ accepted' = accepted
  <2>1. steeringMessages' = steeringMessages /\ accepted' = accepted
    BY <1>1 DEF Batch!Finish
  <2>2. \/ UNCHANGED <<taken, steeringQueue>>
        \/ /\ taken' = Dequeued(SteeringMode, steeringQueue)
           /\ steeringQueue' = Remaining(SteeringMode, steeringQueue)
    BY <1>1 DEF Batch!Finish, Batch!CheckSteering, Dequeued, Remaining,
         Batch!Dequeued, Batch!Remaining
  <2>3. QED BY <2>1, <2>2, DequeuedTypes
<1>2. ASSUME NEW i \in 1..total,
             Batch!Start(i) \/ Batch!Execute(i) \/ Batch!Produce(i, "ok")
      PROVE  /\ taken' \in Seq(Nat) /\ steeringQueue' \in Seq(Nat)
             /\ steeringMessages' \in Seq(Nat) /\ accepted' = accepted
  BY <1>2 DEF Batch!Start, Batch!Execute, Batch!Produce
<1>3. CASE Batch!ResolveCheck
  BY <1>3 DEF Batch!ResolveCheck
<1>4. CASE Batch!Return
  BY <1>4 DEF Batch!Return
<1>5. QED BY <1>1, <1>2, <1>3, <1>4 DEF BatchAction

(* The other steps leave the batch as it is.                               *)
LEMMA BatchElsewhere == Elsewhere => UNCHANGED batchVars
<1> USE DEF agentVars, queueVars, retryVars, loopVars, batchVars
<1>1. CASE StartResponse \/ RetryHarmonyLeak \/ Throw
  BY <1>1 DEF StartResponse, RetryHarmonyLeak, PopLeaked, Throw
<1>2. CASE Steer \/ PopLastSteer
  BY <1>2 DEF Steer, PopLastSteer, Batch!Steer, Batch!PopLastSteer, Batch!batchVars
<1>3. CASE Abort \/ FollowUp \/ PopLastFollowUp \/ ClearAllQueues \/ UNCHANGED vars
  BY <1>3 DEF Abort, FollowUp, PopLastFollowUp, ClearAllQueues, vars
<1>4. QED BY <1>1, <1>2, <1>3 DEF Elsewhere

(* Only the steps of the tools change the batch.                           *)
LEMMA BatchChanges ==
    ASSUME Types, [Next]_vars
    PROVE  UNCHANGED batchVars \/ RunTools \/ ToolStep \/ FinishTools
<1> USE DEF Types, agentVars, queueVars, retryVars, loopVars, batchVars
<1>1. CASE Prompt \/ Continue
  BY <1>1, RunStarts DEF RunLoop
<1>2. CASE Responds
  BY <1>2, ResponseReceived DEF Receive
<1>3. CASE InjectPending \/ StopTurn \/ PassTurn \/ Yield
  BY <1>3 DEF InjectPending, StopTurn, PassTurn, Yield
<1>4. CASE Consume \/ FinishRun
  BY <1>4 DEF Consume, FinishRun
<1>5. CASE Elsewhere
  BY <1>5, BatchElsewhere
<1>6. QED BY <1>1, <1>2, <1>3, <1>4, <1>5, StepCases

LEMMA BatchStep == Types /\ [Next]_vars => BatchTypes'
<1> SUFFICES ASSUME Types, [Next]_vars PROVE BatchTypes'
  OBVIOUS
<1> USE DEF Types, agentVars, queueVars, retryVars, loopVars, batchVars
<1>1. CASE RunTools
  <2>1. answer.calls \in 0..MaxCalls
    BY DEF ListTypes, AssistantMessage, CallCounts
  <2>2. QED BY <1>1, <2>1 DEF RunTools, StartBatch, BatchTypes, Batch!Phases
<1>2. CASE ToolStep
  <2>1. BatchAction
    BY <1>2 DEF ToolStep, BatchAction
  <2>2. QED BY <2>1, BatchActionTypes
<1>3. CASE FinishTools
  <2>1. 0 \in 0..MaxCalls /\ \A S : <<>> \in [1..0 -> S]
    BY LoopAssumption
  <2>2. QED BY <1>3, <2>1 DEF FinishTools, ClearBatch, BatchTypes
<1>4. CASE UNCHANGED batchVars
  BY <1>4 DEF BatchTypes
<1>5. UNCHANGED batchVars \/ RunTools \/ ToolStep \/ FinishTools
  BY BatchChanges
<1>6. QED BY <1>1, <1>2, <1>3, <1>4, <1>5

(* What the end of a turn injects comes from a poll or an interrupt.       *)
LEMMA EndTurnTypes ==
    ASSUME QueueTypes, NEW ids \in Seq(Nat), NEW ranTools \in BOOLEAN, EndTurn(ids, ranTools)
    PROVE  /\ pending' \in Seq(Message) /\ FromUser(pending')
           /\ pc' \in {"top", "yield"} /\ steeringQueue' \in Seq(Nat)
<1>1. pc' \in {"top", "yield"}
  BY DEF EndTurn
<1>2. CASE ids # <<>>
  <2>1. pending' = Messages("steer", ids) /\ steeringQueue' = steeringQueue
    BY <1>2 DEF EndTurn
  <2>2. QED BY <1>1, <2>1, MessagesType DEF QueueTypes, Origins
<1>3. CASE ids = <<>>
  <2>1. /\ pending' = Messages("steer", Dequeued(SteeringMode, steeringQueue))
        /\ steeringQueue' = Remaining(SteeringMode, steeringQueue)
    BY <1>3 DEF EndTurn
  <2>2. /\ Dequeued(SteeringMode, steeringQueue) \in Seq(Nat)
        /\ Remaining(SteeringMode, steeringQueue) \in Seq(Nat)
    BY DequeuedTypes DEF QueueTypes
  <2>3. QED BY <1>1, <2>1, <2>2, MessagesType DEF Origins
<1>4. QED BY <1>2, <1>3

LEMMA QueueStep == Types /\ [Next]_vars => QueueTypes'
<1> SUFFICES ASSUME Types, [Next]_vars PROVE QueueTypes'
  OBVIOUS
<1> USE DEF Types, QueueTypes, agentVars, queueVars, retryVars, loopVars, batchVars
<1>1. CASE Prompt \/ Continue
  <2>1. /\ followUpQueue' \in Seq(Nat)
        /\ \E new \in Seq(Message), queue \in Seq(Nat), skip \in BOOLEAN :
               RunLoop(new, queue, skip)
    BY <1>1, RunStarts
  <2>2. PICK new \in Seq(Message), queue \in Seq(Nat), skip \in BOOLEAN :
            RunLoop(new, queue, skip)
    BY <2>1
  <2>3. steeringQueue' = queue \/ steeringQueue' = Remaining(SteeringMode, queue)
    BY <2>2 DEF RunLoop
  <2>4. steeringQueue' \in Seq(Nat)
    BY <2>3, DequeuedTypes
  <2>5. UNCHANGED <<accepted, acceptedFollowUps, taken, steeringMessages>>
    BY <2>2 DEF RunLoop
  <2>6. QED BY <2>1, <2>4, <2>5
<1>2. CASE Responds
  BY <1>2, ResponseReceived DEF Receive
<1>3. CASE InjectPending \/ StopTurn \/ RunTools
  BY <1>3 DEF InjectPending, StopTurn, RunTools, StartBatch
<1>4. CASE PassTurn
  <2>1. <<>> \in Seq(Nat)
    OBVIOUS
  <2>2. EndTurn(<<>>, FALSE)
    BY <1>4, Zenon DEF PassTurn
  <2>3. steeringQueue' \in Seq(Nat)
    BY <2>1, <2>2, EndTurnTypes
  <2>4. QED BY <1>4, <2>3 DEF PassTurn
<1>5. CASE FinishTools
  <2>1. EndTurn(steeringMessages, TRUE)
    BY <1>5 DEF FinishTools
  <2>2. steeringQueue' \in Seq(Nat)
    BY <2>1, EndTurnTypes
  <2>3. QED BY <1>5, <2>2 DEF FinishTools, ClearBatch
<1>6. CASE ToolStep
  <2>1. BatchAction
    BY <1>6 DEF ToolStep, BatchAction
  <2>2. QED BY <1>6, <2>1, BatchActionQueues DEF ToolStep
<1>7. CASE Yield
  BY <1>7, DequeuedTypes DEF Yield
<1>8. CASE Consume \/ FinishRun
  BY <1>8 DEF Consume, FinishRun
<1>9. CASE StartResponse \/ RetryHarmonyLeak \/ Throw
  BY <1>9 DEF StartResponse, RetryHarmonyLeak, PopLeaked, Throw
<1>10. CASE Steer
  <2>1. Len(accepted) + 1 \in Nat
    OBVIOUS
  <2>2. QED BY <1>10, <2>1 DEF Steer, Batch!Steer, Batch!batchVars
<1>11. CASE FollowUp
  <2>1. Len(acceptedFollowUps) + 1 \in Nat
    OBVIOUS
  <2>2. QED BY <1>11, <2>1 DEF FollowUp
<1>12. CASE PopLastSteer
  BY <1>12, WithoutLastType DEF PopLastSteer, Batch!PopLastSteer, Batch!batchVars
<1>13. CASE PopLastFollowUp
  BY <1>13, WithoutLastType DEF PopLastFollowUp
<1>14. CASE ClearAllQueues
  <2>1. /\ SubSeq(accepted, 1, Len(accepted) - Len(steeringQueue)) \in Seq(Nat)
        /\ SubSeq(acceptedFollowUps, 1, Len(acceptedFollowUps) - Len(followUpQueue)) \in Seq(Nat)
    BY SMTT(30)
  <2>2. QED BY <1>14, <2>1 DEF ClearAllQueues
<1>15. CASE Abort \/ UNCHANGED vars
  BY <1>15 DEF Abort, vars
<1>16. QED BY <1>1, <1>2, <1>3, <1>4, <1>5, <1>6, <1>7, <1>8, <1>9, <1>10, <1>11, <1>12,
              <1>13, <1>14, <1>15, StepCases DEF Elsewhere

LEMMA SizeStep == Types /\ [Next]_vars => BatchSize'
<1> SUFFICES ASSUME Types, [Next]_vars PROVE BatchSize'
  OBVIOUS
<1> USE DEF Types, BatchSize, agentVars, queueVars, retryVars, loopVars, batchVars
<1>1. CASE RunTools
  BY <1>1 DEF RunTools, StartBatch
<1>2. CASE ToolStep
  <2>1. BatchAction
    BY <1>2 DEF ToolStep, BatchAction
  <2>2. total' = total /\ answer' = answer /\ pc' = pc
    BY <1>2, <2>1, BatchActionTypes DEF ToolStep
  <2>3. QED BY <2>2
<1>3. pc' # "tools" \/ UNCHANGED <<pc, answer, total>> \/ RunTools \/ ToolStep
  <2>1. CASE Prompt \/ Continue
    BY <2>1, RunStarts DEF RunLoop
  <2>2. CASE Responds
    BY <2>2, ResponseReceived DEF Receive
  <2>3. CASE InjectPending \/ StopTurn \/ PassTurn \/ Yield \/ FinishTools
    BY <2>3 DEF InjectPending, StopTurn, PassTurn, Yield, FinishTools, EndTurn
  <2>4. CASE Consume \/ FinishRun
    BY <2>4 DEF Consume, FinishRun
  <2>5. CASE StartResponse \/ RetryHarmonyLeak \/ Throw
    BY <2>5 DEF StartResponse, RetryHarmonyLeak, PopLeaked, Throw
  <2>6. CASE Steer \/ PopLastSteer
    BY <2>6 DEF Steer, PopLastSteer, Batch!Steer, Batch!PopLastSteer, Batch!batchVars
  <2>7. CASE Abort \/ FollowUp \/ PopLastFollowUp \/ ClearAllQueues \/ UNCHANGED vars
    BY <2>7 DEF Abort, FollowUp, PopLastFollowUp, ClearAllQueues, vars
  <2>8. QED BY <2>1, <2>2, <2>3, <2>4, <2>5, <2>6, <2>7, StepCases DEF Elsewhere
<1>4. QED BY <1>1, <1>2, <1>3

-----------------------------------------------------------------------------
(* The two lists. *)

(* agent_end is the last event; there are results only while tools run, and*)
(* events only while the loop does; what is pending is the user's.         *)
Flow ==
    /\ pc # "ended" => events \in Seq(Message)
    /\ events \in Seq(Message) \/ \E s \in Seq(Message) : events = Append(s, AgentEnd)
    /\ pc # "tools" => batchResults = <<>>
    /\ pc = "none" => events = <<>>
    /\ FromUser(pending)

Mirrored == pc # "none" => Announced = context \o batchResults

(* The step announces t.                                                   *)
Announces(t) == t \in Seq(Message) /\ Announced' = Announced \o t

LEMMA Associative ==
    \A p, q, r \in Seq(Message) : (p \o q) \o r = p \o (q \o r)
BY SMTT(30)

LEMMA MessageAtEnd ==
    \A s \in Seq(Message), m \in Message : Append(s, m) = s \o <<m>>
OBVIOUS

LEMMA AppendType ==
    \A S : \A s \in Seq(S), m \in S : Append(s, m) \in Seq(S)
OBVIOUS

LEMMA EndedOf ==
    ASSUME NEW s \in Seq(Message)
    PROVE  Ended(s) = s /\ Ended(Append(s, AgentEnd)) = s
<1>1. AgentEnd \notin Message
  BY DEF AgentEnd, Message, UserMessage, AssistantMessage, ToolResultMessage
<1>2. s # <<>> => Last(s) \in Message
  BY DEF Last
<1>3. Ended(s) = s
  BY <1>1, <1>2 DEF Ended
<1>4. /\ Append(s, AgentEnd) # <<>> /\ Last(Append(s, AgentEnd)) = AgentEnd
      /\ Front(Append(s, AgentEnd)) = s
  BY DEF Last, Front
<1>5. QED BY <1>3, <1>4 DEF Ended

LEMMA AnnouncedType ==
    ASSUME ListTypes, Flow
    PROVE  /\ Announced \in Seq(Message)
           /\ events \in Seq(Message) => Announced = messages \o events
<1>1. Ended(events) \in Seq(Message) /\ (events \in Seq(Message) => Ended(events) = events)
  BY EndedOf DEF Flow
<1>2. QED BY <1>1 DEF Announced, ListTypes

(* New events, and perhaps the end of the run.                             *)
LEMMA MoreEvents ==
    ASSUME ListTypes, Flow, events \in Seq(Message), NEW t \in Seq(Message),
           messages' = messages,
           events' = events \o t \/ events' = Append(events \o t, AgentEnd)
    PROVE  Announces(t)
<1>1. events \o t \in Seq(Message)
  OBVIOUS
<1>2. Ended(events)' = events \o t
  BY <1>1, EndedOf DEF Ended
<1>3. Announced' = messages \o (events \o t)
  BY <1>2 DEF Announced
<1>4. Announced = messages \o events
  BY AnnouncedType
<1>5. messages \o (events \o t) = (messages \o events) \o t
  <2>1. messages \in Seq(Message)
    BY DEF ListTypes
  <2>2. QED BY <2>1, Associative, Zenon
<1>6. QED BY <1>3, <1>4, <1>5 DEF Announces

LEMMA NoEvents ==
    ASSUME ListTypes, Flow, messages' = messages, events' = events
    PROVE  Announces(<<>>)
<1>1. Announced' = Announced
  BY DEF Announced, Ended
<1>2. QED BY <1>1, AnnouncedType DEF Announces

(* What the Agent consumes has been announced before.                      *)
LEMMA ConsumeAnnounces ==
    ASSUME ListTypes, Flow, Consume
    PROVE  /\ Announces(<<>>)
           /\ messages' \in Seq(Message)
           /\ events \in Seq(Message) => events' \in Seq(Message)
           /\ events' \in Seq(Message) \/ \E s \in Seq(Message) : events' = Append(s, AgentEnd)
<1> USE DEF ListTypes
<1>1. AgentEnd \notin Message
  BY DEF AgentEnd, Message, UserMessage, AssistantMessage, ToolResultMessage
<1>2. events # <<>> /\ events' = Tail(events)
  BY DEF Consume
<1>3. CASE events \in Seq(Message)
  <2>1. Head(events) \in Message /\ Tail(events) \in Seq(Message)
    BY <1>2, <1>3
  <2>2. messages' = Append(messages, Head(events))
    BY <1>1, <2>1 DEF Consume
  <2>3. Announced = messages \o events
    BY <1>3, AnnouncedType
  <2>4. Announced' = Append(messages, Head(events)) \o Tail(events)
    BY <1>2, <2>1, <2>2, EndedOf DEF Announced, Ended
  <2>5. Append(messages, Head(events)) \o Tail(events) = messages \o events
    BY <1>2, <1>3, <2>1, SMTT(30)
  <2>6. (messages \o events) \o <<>> = messages \o events /\ <<>> \in Seq(Message)
    BY <1>3
  <2>7. QED BY <1>2, <2>1, <2>2, <2>3, <2>4, <2>5, <2>6, SMTT(30) DEF Announces
<1>4. CASE events \notin Seq(Message)
  <2>1. PICK s \in Seq(Message) : events = Append(s, AgentEnd)
    BY <1>4 DEF Flow
  <2>2. Announced = messages \o s
    BY <2>1, EndedOf DEF Announced
  <2>3. CASE s = <<>>
    <3>1. Head(events) = AgentEnd /\ Tail(events) = <<>>
      BY <2>1, <2>3
    <3>2. messages' = messages /\ events' = <<>>
      BY <1>2, <3>1 DEF Consume
    <3>3. Announced' = messages \o <<>>
      BY <3>2, EndedOf DEF Announced, Ended
    <3>4. (messages \o <<>>) \o <<>> = messages \o <<>> /\ <<>> \in Seq(Message)
      OBVIOUS
    <3>5. QED BY <1>4, <2>2, <2>3, <3>2, <3>3, <3>4 DEF Announces
  <2>4. CASE s # <<>>
    <3>1. /\ Head(events) = Head(s) /\ Tail(events) = Append(Tail(s), AgentEnd)
          /\ Head(s) \in Message /\ Tail(s) \in Seq(Message)
      BY <2>1, <2>4
    <3>2. messages' = Append(messages, Head(s)) /\ events' = Append(Tail(s), AgentEnd)
      BY <1>1, <1>2, <3>1 DEF Consume
    <3>3. Announced' = Append(messages, Head(s)) \o Tail(s)
      BY <3>1, <3>2, EndedOf DEF Announced, Ended
    <3>4. Append(messages, Head(s)) \o Tail(s) = messages \o s
      BY <2>4, <3>1, SMTT(30)
    <3>5. (messages \o s) \o <<>> = messages \o s /\ <<>> \in Seq(Message)
      OBVIOUS
    <3>6. Announces(<<>>)
      BY <2>2, <3>3, <3>4, <3>5 DEF Announces
    <3>7. messages' \in Seq(Message)
      BY <3>1, <3>2
    <3>8. \E r \in Seq(Message) : events' = Append(r, AgentEnd)
      BY <3>1, <3>2
    <3>9. QED BY <1>4, <3>6, <3>7, <3>8
  <2>5. QED BY <2>3, <2>4
<1>5. QED BY <1>3, <1>4

(* Every step keeps the lists in order; what it announces is named.        *)
Lists == ListTypes /\ Flow /\ Mirrored

(* The events, the context and the results grow together.                  *)
LEMMA MirrorGrows ==
    ASSUME Lists, pc # "none", NEW t \in Seq(Message), Announces(t),
           \/ context' = context \o t /\ batchResults = <<>> /\ batchResults' = <<>>
           \/ context' = context /\ batchResults' = batchResults \o t
    PROVE  Mirrored'
<1>1. Announced = context \o batchResults
  BY DEF Lists, Mirrored
<1>2. context \in Seq(Message) /\ batchResults \in Seq(Message)
  BY DEF Lists, ListTypes
<1>3. CASE context' = context \o t /\ batchResults = <<>> /\ batchResults' = <<>>
  <2>1. context \o <<>> = context /\ (context \o t) \o <<>> = context \o t
    BY <1>2
  <2>2. QED BY <1>1, <1>3, <2>1 DEF Announces, Mirrored
<1>4. CASE context' = context /\ batchResults' = batchResults \o t
  <2>1. (context \o batchResults) \o t = context \o (batchResults \o t)
    BY <1>2, Associative, Zenon
  <2>2. QED BY <1>1, <1>4, <2>1 DEF Announces, Mirrored
<1>5. QED BY <1>3, <1>4

LEMMA StartLists ==
    ASSUME Types, Lists, pc = "none", NEW new \in Seq(Message), FromUser(new),
           NEW queue \in Seq(Nat), NEW skip \in BOOLEAN, RunLoop(new, queue, skip)
    PROVE  Lists' /\ Announces(new) /\ pc' = "top"
<1> USE DEF Lists, ListTypes
<1>1. /\ context' = messages \o new /\ events' = new /\ pc' = "top"
      /\ messages' = messages /\ answer' = answer /\ batchResults' = batchResults
  BY DEF RunLoop
<1>2. events = <<>> /\ batchResults = <<>>
  BY DEF Flow
<1>3. Announces(new)
  <2>1. events' = events \o new
    BY <1>1, <1>2
  <2>2. events \in Seq(Message)
    BY <1>2
  <2>3. QED BY <1>1, <2>1, <2>2, MoreEvents
<1>4. pending' \in Seq(Message) /\ FromUser(pending')
  <2>1. pending' = <<>> \/ pending' = Messages("steer", Dequeued(SteeringMode, queue))
    BY DEF RunLoop
  <2>2. Dequeued(SteeringMode, queue) \in Seq(Nat)
    BY DequeuedTypes
  <2>3. FromUser(<<>>) /\ <<>> \in Seq(Message)
    BY DEF FromUser
  <2>4. QED BY <2>1, <2>2, <2>3, MessagesType DEF Origins
<1>5. ListTypes'
  <2>1. messages \o new \in Seq(Message) /\ new \in Seq(Message \cup {AgentEnd})
    OBVIOUS
  <2>2. QED BY <1>1, <1>4, <2>1
<1>6. Flow'
  BY <1>1, <1>2, <1>4 DEF Flow, FromUser
<1>7. Mirrored'
  <2>1. Announced = messages
    <3>1. <<>> \in Seq(Message) /\ messages \o <<>> = messages
      OBVIOUS
    <3>2. QED BY <1>2, <3>1, EndedOf DEF Announced
  <2>2. context' \o batchResults' = messages \o new
    BY <1>1, <1>2
  <2>3. QED BY <1>3, <2>1, <2>2 DEF Mirrored, Announces
<1>8. QED BY <1>1, <1>3, <1>5, <1>6, <1>7

LEMMA InjectLists ==
    ASSUME Types, Lists, InjectPending
    PROVE  Lists' /\ Announces(pending) /\ pc' = "model"
<1> USE DEF Lists, ListTypes
<1>1. /\ context' = context \o pending /\ events' = events \o pending /\ pending' = <<>>
      /\ pc = "top" /\ pc' = "model"
      /\ UNCHANGED <<messages, answer, batchResults>>
  BY DEF InjectPending
<1>2. events \in Seq(Message) /\ batchResults = <<>>
  BY <1>1 DEF Flow
<1>3. Announces(pending)
  BY <1>1, <1>2, MoreEvents
<1>4. ListTypes'
  BY <1>1
<1>5. Flow'
  BY <1>1, <1>2 DEF Flow, FromUser
<1>6. Mirrored'
  BY <1>1, <1>2, <1>3, MirrorGrows
<1>7. QED BY <1>1, <1>3, <1>4, <1>5, <1>6

LEMMA ReceiveLists ==
    ASSUME Types, Lists, pc = "model", NEW m \in AssistantMessage, Receive(m)
    PROVE  /\ Lists' /\ Announces(<<m>>)
           /\ pc' = "turn" /\ answer' = m /\ context' = Append(context, m)
<1> USE DEF Lists, ListTypes
<1>1. /\ answer' = m /\ context' = Append(context, m) /\ events' = Append(events, m)
      /\ pc' = "turn" /\ UNCHANGED <<messages, pending, batchResults>>
  BY DEF Receive
<1>2. events \in Seq(Message) /\ batchResults = <<>>
  BY DEF Flow
<1>3. m \in Message /\ <<m>> \in Seq(Message)
  BY DEF Message
<1>4. context' = context \o <<m>> /\ events' = events \o <<m>>
  BY <1>1, <1>2, <1>3, MessageAtEnd
<1>5. Announces(<<m>>)
  BY <1>1, <1>2, <1>3, <1>4, MoreEvents
<1>6. ListTypes'
  BY <1>1, <1>2, <1>3
<1>7. Flow'
  <2>1. events' \in Seq(Message)
    BY <1>1, <1>2, <1>3
  <2>2. QED BY <1>1, <1>2, <2>1 DEF Flow, FromUser
<1>8. Mirrored'
  BY <1>1, <1>2, <1>3, <1>4, <1>5, MirrorGrows
<1>9. QED BY <1>1, <1>5, <1>6, <1>7, <1>8

LEMMA StopLists ==
    ASSUME Types, Lists, StopTurn
    PROVE  Lists' /\ Announces(Placeholders(answer.calls)) /\ pc = "turn" /\ pc' = "ended"
<1> USE DEF Lists, ListTypes
<1> DEFINE t == Placeholders(answer.calls)
<1>1. /\ context' = context \o t /\ events' = events \o t \o <<AgentEnd>>
      /\ pc = "turn" /\ pc' = "ended" /\ UNCHANGED <<messages, pending, answer, batchResults>>
  BY DEF StopTurn, retryVars
<1>2. events \in Seq(Message) /\ batchResults = <<>>
  BY <1>1 DEF Flow
<1>3. t \in Seq(Message)
  BY PlaceholdersType DEF AssistantMessage
<1> HIDE DEF t
<1>4. events \o t \in Seq(Message) /\ events' = Append(events \o t, AgentEnd)
  BY <1>1, <1>2, <1>3
<1>5. Announces(t)
  BY <1>1, <1>2, <1>3, <1>4, MoreEvents
<1>6. ListTypes'
  <2>1. context' \in Seq(Message)
    BY <1>1, <1>3
  <2>2. events' \in Seq(Message \cup {AgentEnd})
    BY <1>4
  <2>3. QED BY <1>1, <2>1, <2>2
<1>7. Flow'
  BY <1>1, <1>2, <1>4 DEF Flow, FromUser
<1>8. Mirrored'
  BY <1>1, <1>2, <1>3, <1>5, MirrorGrows
<1>9. QED BY <1>1, <1>5, <1>6, <1>7, <1>8 DEF t

LEMMA PassLists ==
    ASSUME Types, Lists, PassTurn
    PROVE  /\ Lists' /\ Announces(Placeholders(answer.calls))
           /\ pc = "turn" /\ pc' \in {"top", "yield"}
<1> USE DEF Lists, ListTypes
<1> DEFINE t == Placeholders(answer.calls)
<1>1. /\ context' = context \o t /\ events' = events \o t
      /\ pc = "turn" /\ UNCHANGED <<messages, answer, batchResults>>
  BY DEF PassTurn
<1>2. events \in Seq(Message) /\ batchResults = <<>>
  BY <1>1 DEF Flow
<1>3. t \in Seq(Message)
  BY PlaceholdersType DEF AssistantMessage
<1> HIDE DEF t
<1>4. pending' \in Seq(Message) /\ FromUser(pending') /\ pc' \in {"top", "yield"}
  <2>1. <<>> \in Seq(Nat) /\ QueueTypes /\ FALSE \in BOOLEAN
    BY DEF Types
  <2>2. EndTurn(<<>>, FALSE)
    BY Zenon DEF PassTurn
  <2>3. QED BY <2>1, <2>2, EndTurnTypes
<1>5. Announces(t)
  BY <1>1, <1>2, <1>3, MoreEvents
<1>6. ListTypes'
  BY <1>1, <1>2, <1>3, <1>4
<1>7. Flow'
  <2>1. events' \in Seq(Message)
    BY <1>1, <1>2, <1>3
  <2>2. QED BY <1>1, <1>2, <1>4, <2>1 DEF Flow, FromUser
<1>8. Mirrored'
  BY <1>1, <1>2, <1>3, <1>5, MirrorGrows
<1>9. QED BY <1>1, <1>4, <1>5, <1>6, <1>7, <1>8 DEF t

LEMMA RunToolsLists ==
    ASSUME Types, Lists, RunTools
    PROVE  /\ Lists' /\ Announces(<<>>)
           /\ pc = "turn" /\ pc' = "tools" /\ answer' = answer /\ context' = context
<1> USE DEF Lists, ListTypes, agentVars
<1>1. /\ batchResults' = <<>> /\ pc = "turn" /\ pc' = "tools"
      /\ UNCHANGED <<messages, events, context, pending, answer>>
  BY DEF RunTools
<1>2. Announces(<<>>)
  BY <1>1, NoEvents
<1>3. ListTypes'
  BY <1>1
<1>4. Flow'
  BY <1>1 DEF Flow, FromUser
<1>5. Mirrored'
  BY <1>1 DEF Mirrored, Flow, Announced, Ended
<1>6. QED BY <1>1, <1>2, <1>3, <1>4, <1>5

LEMMA ToolLists ==
    ASSUME Types, Lists, ToolStep
    PROVE  /\ Lists'
           /\ \E order \in InOrder(NewlyAnswered) : Announces(Results(order))
           /\ pc = "tools" /\ pc' = "tools" /\ answer' = answer /\ context' = context
<1> USE DEF Lists, ListTypes
<1>1. PICK order \in InOrder(NewlyAnswered) :
          batchResults' = batchResults \o Results(order) /\ events' = events \o Results(order)
  BY DEF ToolStep, Results
<1> DEFINE t == Results(order)
<1>2. t \in Seq(Message)
  BY ResultsType DEF Types, BatchTypes
<1> HIDE DEF t
<1>3. /\ batchResults' = batchResults \o t /\ events' = events \o t
      /\ pc = "tools" /\ pc' = "tools" /\ UNCHANGED <<messages, context, pending, answer>>
  BY <1>1 DEF ToolStep, t
<1>4. events \in Seq(Message)
  BY <1>3 DEF Flow
<1>5. Announces(t)
  BY <1>2, <1>3, <1>4, MoreEvents
<1>6. ListTypes'
  BY <1>2, <1>3, <1>4
<1>7. Flow'
  <2>1. events' \in Seq(Message)
    BY <1>2, <1>3, <1>4
  <2>2. QED BY <1>3, <2>1 DEF Flow, FromUser
<1>8. Mirrored'
  BY <1>2, <1>3, <1>5, MirrorGrows
<1>9. QED BY <1>3, <1>5, <1>6, <1>7, <1>8 DEF t

LEMMA FinishToolsLists ==
    ASSUME Types, Lists, FinishTools
    PROVE  Lists' /\ Announces(<<>>) /\ pc = "tools" /\ returned /\ pc' \in {"top", "yield"}
<1> USE DEF Lists, ListTypes, agentVars
<1>1. /\ context' = context \o batchResults /\ batchResults' = <<>> /\ pc = "tools" /\ returned
      /\ UNCHANGED <<messages, events, answer>>
  BY DEF FinishTools
<1>2. pending' \in Seq(Message) /\ FromUser(pending') /\ pc' \in {"top", "yield"}
  <2>1. steeringMessages \in Seq(Nat) /\ QueueTypes
    BY DEF Types, QueueTypes
  <2>2. EndTurn(steeringMessages, TRUE)
    BY DEF FinishTools
  <2>3. QED BY <2>1, <2>2, EndTurnTypes
<1>3. Announces(<<>>)
  BY <1>1, NoEvents
<1>4. ListTypes'
  BY <1>1, <1>2
<1>5. Flow'
  BY <1>1, <1>2 DEF Flow, FromUser
<1>6. Mirrored'
  <2>1. Announced' = Announced
    BY <1>1 DEF Announced, Ended
  <2>2. Announced = context \o batchResults
    BY <1>1 DEF Mirrored
  <2>3. context' \o batchResults' = context'
    BY <1>1, <1>4
  <2>4. QED BY <1>1, <2>1, <2>2, <2>3 DEF Mirrored
<1>7. QED BY <1>1, <1>2, <1>3, <1>4, <1>5, <1>6

LEMMA YieldLists ==
    ASSUME Types, Lists, Yield
    PROVE  Lists' /\ Announces(<<>>) /\ pc = "yield" /\ pc' \in {"top", "ended"}
<1> USE DEF Lists, ListTypes
<1>1. /\ pc = "yield" /\ UNCHANGED <<messages, context, answer, batchResults>>
      /\ pending' = Messages("followUp", Dequeued(FollowUpMode, followUpQueue))
      /\ \/ pc' = "top" /\ events' = events
         \/ pc' = "ended" /\ events' = Append(events, AgentEnd)
  BY DEF Yield
<1>2. events \in Seq(Message) /\ batchResults = <<>>
  BY <1>1 DEF Flow
<1>3. pending' \in Seq(Message) /\ FromUser(pending')
  <2>1. Dequeued(FollowUpMode, followUpQueue) \in Seq(Nat)
    BY DequeuedTypes DEF Types, QueueTypes
  <2>2. QED BY <1>1, <2>1, MessagesType DEF Origins
<1>4. Announces(<<>>)
  <2>1. events \o <<>> = events /\ <<>> \in Seq(Message)
    BY <1>2
  <2>2. QED BY <1>1, <1>2, <2>1, MoreEvents
<1>5. ListTypes'
  <2>1. events \in Seq(Message \cup {AgentEnd}) /\ AgentEnd \in Message \cup {AgentEnd}
    OBVIOUS
  <2>2. Append(events, AgentEnd) \in Seq(Message \cup {AgentEnd})
    BY <2>1, Zenon, AppendType
  <2>3. events' \in Seq(Message \cup {AgentEnd})
    BY <1>1, <2>1, <2>2
  <2>4. QED BY <1>1, <1>3, <2>3
<1>6. Flow'
  BY <1>1, <1>2, <1>3 DEF Flow
<1>7. Mirrored'
  <2>1. context \o <<>> = context /\ <<>> \in Seq(Message) /\ batchResults \o <<>> = batchResults
    OBVIOUS
  <2>2. QED BY <1>1, <1>2, <1>4, <2>1, MirrorGrows
<1>8. QED BY <1>1, <1>4, <1>5, <1>6, <1>7

LEMMA ConsumeLists ==
    ASSUME Types, Lists, Consume
    PROVE  Lists' /\ Announces(<<>>) /\ pc # "none" /\ pc' = pc
<1> USE DEF Lists, ListTypes
<1>1. UNCHANGED <<pc, context, pending, answer, batchResults>> /\ events # <<>>
  BY DEF Consume, loopVars
<1>2. /\ Announces(<<>>) /\ messages' \in Seq(Message)
      /\ events \in Seq(Message) => events' \in Seq(Message)
      /\ events' \in Seq(Message) \/ \E s \in Seq(Message) : events' = Append(s, AgentEnd)
  BY ConsumeAnnounces
<1>3. pc # "none"
  BY <1>1 DEF Flow
<1>4. ListTypes'
  <2>1. events \in Seq(Message \cup {AgentEnd}) /\ events # <<>> /\ events' = Tail(events)
    BY <1>1 DEF Consume
  <2>2. events' \in Seq(Message \cup {AgentEnd})
    BY <2>1
  <2>3. QED BY <1>1, <1>2, <2>2
<1>5. Flow'
  BY <1>1, <1>2, <1>3 DEF Flow, FromUser
<1>6. Mirrored'
  <2>1. <<>> \in Seq(Message) /\ batchResults \o <<>> = batchResults
    OBVIOUS
  <2>2. QED BY <1>1, <1>2, <1>3, <2>1, MirrorGrows
<1>7. QED BY <1>1, <1>2, <1>3, <1>4, <1>5, <1>6

(* A run that failed, or that leaked last, leaves a message that is owed no*)
(* result.                                                                 *)
LEMMA FinishRunLists ==
    ASSUME Types, Lists, FinishRun
    PROVE  /\ Lists' /\ pc \in {"ended", "failed"} /\ pc' = "none"
           /\ \/ Announces(<<>>)
              \/ \E m \in AssistantMessage : Owed(m) = {} /\ Announces(<<m>>)
<1> USE DEF Lists, ListTypes
<1>1. /\ pc \in {"ended", "failed"} /\ pc' = "none" /\ events = <<>> /\ context' = <<>>
      /\ answer' = Assistant(0, "stop") /\ UNCHANGED <<events, pending, batchResults>>
  BY DEF FinishRun
<1>2. 0 \in CallCounts
  BY LoopAssumption DEF CallCounts
<1>3. \/ messages' = messages
      \/ \E m \in AssistantMessage : Owed(m) = {} /\ messages' = Append(messages, m)
  <2>1. /\ \A n \in CallCounts : Leaked(n) \in AssistantMessage /\ Owed(Leaked(n)) = {}
        /\ \A stop \in {"aborted", "error"} :
               Assistant(0, stop) \in AssistantMessage /\ Owed(Assistant(0, stop)) = {}
    BY <1>2, AssistantType DEF Leaked, Stops, Owed
  <2>2. \/ messages' = messages
        \/ \E n \in CallCounts : messages' = Append(messages, Leaked(n))
        \/ \E stop \in {"aborted", "error"} : messages' = Append(messages, Assistant(0, stop))
    BY DEF FinishRun, LeaveLeaked, CallCounts
  <2>3. QED BY <2>1, <2>2
<1>4. Announced = messages /\ Announced' = messages'
  <2>1. messages' \in Seq(Message)
    <3>1. ASSUME NEW m \in AssistantMessage PROVE Append(messages, m) \in Seq(Message)
      <4>1. m \in Message
        BY DEF Message
      <4>2. QED BY <4>1
    <3>2. QED BY <1>3, <3>1
  <2>2. <<>> \in Seq(Message) /\ messages \o <<>> = messages /\ messages' \o <<>> = messages'
    BY <2>1
  <2>3. QED BY <1>1, <2>2, EndedOf DEF Announced, Ended
<1>5. ASSUME messages' = messages PROVE messages' \in Seq(Message) /\ Announces(<<>>)
  <2>1. messages \o <<>> = messages /\ <<>> \in Seq(Message)
    OBVIOUS
  <2>2. QED BY <1>4, <1>5, <2>1 DEF Announces
<1>6. ASSUME NEW m \in AssistantMessage, messages' = Append(messages, m)
      PROVE  messages' \in Seq(Message) /\ Announces(<<m>>)
  <2>1. m \in Message /\ <<m>> \in Seq(Message)
    BY DEF Message
  <2>2. messages' \in Seq(Message) /\ messages' = messages \o <<m>>
    BY <1>6, <2>1, MessageAtEnd
  <2>3. QED BY <1>4, <2>1, <2>2 DEF Announces
<1>7. ListTypes'
  <2>1. "stop" \in Stops \cup {"aborted", "leaked"}
    BY DEF Stops
  <2>2. answer' \in AssistantMessage
    BY <1>1, <1>2, <2>1, AssistantType
  <2>3. messages' \in Seq(Message)
    BY <1>3, <1>5, <1>6
  <2>4. QED BY <1>1, <2>2, <2>3
<1>8. Flow'
  BY <1>1 DEF Flow, FromUser
<1>9. Mirrored'
  BY <1>1 DEF Mirrored
<1>10. QED BY <1>1, <1>3, <1>5, <1>6, <1>7, <1>8, <1>9

LEMMA ElsewhereLists ==
    ASSUME Types, Lists, Elsewhere
    PROVE  /\ Lists' /\ Announces(<<>>)
           /\ UNCHANGED <<messages, events, context, pending, answer, batchResults>>
           /\ \/ pc' = pc
              \/ pc = "model" /\ pc' \in {"top", "yield", "failed"}
              \/ pc = "yield" /\ pc' = "failed"
<1> USE DEF Lists, ListTypes
<1>1. /\ UNCHANGED <<messages, events, context, pending, answer, batchResults>>
      /\ \/ pc' = pc
         \/ pc = "model" /\ pc' \in {"top", "yield", "failed"}
         \/ pc = "yield" /\ pc' = "failed"
  <2> USE DEF agentVars, loopVars, queueVars
  <2>1. CASE StartResponse \/ RetryHarmonyLeak \/ Throw
    BY <2>1 DEF StartResponse, RetryHarmonyLeak, PopLeaked, Throw
  <2>2. CASE Abort \/ Steer \/ PopLastSteer
    BY <2>2 DEF Abort, Steer, PopLastSteer
  <2>3. CASE FollowUp \/ PopLastFollowUp \/ ClearAllQueues \/ UNCHANGED vars
    BY <2>3 DEF FollowUp, PopLastFollowUp, ClearAllQueues, vars
  <2>4. QED BY <2>1, <2>2, <2>3 DEF Elsewhere
<1>2. Announces(<<>>)
  BY <1>1, NoEvents
<1>3. ListTypes'
  BY <1>1
<1>4. Flow'
  BY <1>1 DEF Flow, FromUser
<1>5. Mirrored'
  BY <1>1 DEF Mirrored, Announced, Ended
<1>6. QED BY <1>1, <1>2, <1>3, <1>4, <1>5

-----------------------------------------------------------------------------
(* The two copies of the conversation. *)

LEMMA InitialLists == Init => Types /\ Lists
<1> SUFFICES ASSUME Init PROVE Types /\ Lists
  OBVIOUS
<1>0. {MaxCalls, MaxPrompts} \subseteq Nat
  BY LoopAssumption
<1> USE DEF Init
<1>1. FlagTypes
  <2>1. Booleans
    BY DEF Booleans
  <2>2. pc = "none" /\ harmonyRetries = 0 /\ prompts \in 0..MaxPrompts
    BY <1>0
  <2>3. QED BY <2>1, <2>2 DEF Booleans, FlagTypes
<1>2. ListTypes
  <2>1. 0 \in CallCounts /\ "stop" \in Stops \cup {"aborted", "leaked"}
    BY <1>0 DEF CallCounts, Stops
  <2>2. QED BY <2>1, AssistantType DEF ListTypes
<1>3. BatchTypes
  <2>1. /\ total = 0 /\ exclusive = {} /\ task = <<>> /\ produced = <<>> /\ result = <<>>
        /\ emits = <<>> /\ interrupted = FALSE /\ steeringCheck = FALSE /\ returned = FALSE
    BY DEF NoBatch
  <2>2. 0 \in 0..MaxCalls /\ \A S : <<>> \in [1..0 -> S]
    BY <1>0
  <2> HIDE DEF Init
  <2>3. QED BY <2>1, <2>2 DEF BatchTypes
<1>4. QueueTypes /\ BatchSize
  BY DEF NoBatch, QueueTypes, BatchSize
<1>5. Flow /\ Mirrored
  BY DEF Flow, Mirrored, FromUser
<1>6. QED BY <1>1, <1>2, <1>3, <1>4, <1>5 DEF Types, Lists

LEMMA ListsStep == Types /\ Lists /\ [Next]_vars => Lists'
<1> SUFFICES ASSUME Types, Lists, [Next]_vars PROVE Lists'
  OBVIOUS
<1>1. CASE Prompt \/ Continue
  <2>1. FlagTypes /\ QueueTypes
    BY DEF Types
  <2>2. /\ pc = "none"
        /\ \E new \in Seq(Message), queue \in Seq(Nat), skip \in BOOLEAN :
               FromUser(new) /\ RunLoop(new, queue, skip)
    BY <1>1, <2>1, RunStarts
  <2>3. QED BY <2>2, StartLists
<1>2. CASE Responds
  BY <1>2, ResponseReceived, ReceiveLists
<1>3. CASE InjectPending \/ StopTurn \/ PassTurn \/ RunTools \/ ToolStep \/ FinishTools
  BY <1>3, InjectLists, StopLists, PassLists, RunToolsLists, ToolLists, FinishToolsLists
<1>4. CASE Yield \/ Consume \/ FinishRun \/ Elsewhere
  BY <1>4, YieldLists, ConsumeLists, FinishRunLists, ElsewhereLists
<1>5. QED BY <1>1, <1>2, <1>3, <1>4, StepCases

LEMMA TypesStep == Types /\ Lists /\ [Next]_vars => Types'
BY FlagStep, BatchStep, QueueStep, SizeStep, ListsStep DEF Types, Lists
LEMMA ListsHold == Spec => [](Types /\ Lists)
<1>1. Types /\ Lists /\ [Next]_vars => (Types /\ Lists)'
  BY TypesStep, ListsStep
<1>2. QED BY <1>1, InitialLists, PTL DEF Spec

(* The messages of the Agent, rebuilt from the events of #runLoop, are the *)
(* context the loop sends the model: neither lacks, repeats or reorders a  *)
(* message of the other, however far the Agent is behind the loop, and     *)
(* however the run ends.                                                   *)
THEOREM ConversationsAgree == Spec => []ConversationMirrored
<1>1. Types /\ Lists => ConversationMirrored
  BY DEF Lists, Flow, Mirrored, ConversationMirrored
<1>2. QED BY <1>1, ListsHold, PTL
-----------------------------------------------------------------------------
(* The calls and their results. *)

(***************************************************************************)
(* A call has emitted its one result once it has one: until the end of its *)
(* hooks it has none, and a batch that has returned has them all.          *)
(***************************************************************************)
BatchAnswers ==
    /\ \A i \in 1..total :
           /\ emits[i] = IF result[i] = "none" THEN 0 ELSE 1
           /\ task[i] = "after" => result[i] = "none"
           /\ task[i] \in {"waiting", "before", "executing"} => result[i] = "none"
           /\ returned => result[i] # "none"
    /\ returned => pc = "tools"

Emitted == {i \in 1..total : emits[i] >= 1}

(* Of the n calls of the last answer, those in done have a result.         *)
Opened(s, n, done) ==
    Paired(s) /\ CallsAt(s, AtEnd(s)) = 1..n /\ Answered(s) = done

(***************************************************************************)
(* The conversation is paired as far as it goes.  Wherever a user or the   *)
(* model may speak next every call is answered; in between the open calls  *)
(* are those of the turn's answer that the batch has not emitted.          *)
(***************************************************************************)
Pairing ==
    /\ pc \notin {"turn", "tools"} => Paired(Announced) /\ Settled(Announced)
    /\ pc = "turn" => Opened(Announced, answer.calls, {})
    /\ pc = "tools" => Opened(Announced, total, Emitted)

LEMMA SettledIs == \A s : Settled(s) <=> Answered(s) = CallsAt(s, AtEnd(s))
BY DEF Settled, Complete, Answered, AtEnd

LEMMA AnnouncesNothing ==
    ASSUME ListTypes, Flow, Announces(<<>>)
    PROVE  Announced' = Announced
<1>1. Announced \in Seq(Message)
  BY AnnouncedType
<1>2. Announced \o <<>> = Announced
  BY <1>1
<1>3. QED BY <1>2 DEF Announces

(* What a step of the batch emits are first results.                       *)
LEMMA BatchActionAnswers ==
    ASSUME BatchTypes, BatchAnswers, BatchAction, ~returned, pc' = "tools"
    PROVE  /\ BatchAnswers' /\ \A i \in 1..total : emits'[i] >= emits[i]
<1> USE DEF BatchTypes, BatchAnswers, Batch!Phases, Batch!Outcomes, Batch!Calls
<1>1. total' = total
  BY DEF BatchAction, Batch!Start, Batch!Execute, Batch!Produce, Batch!Finish,
         Batch!ResolveCheck, Batch!Return
<1>2. ASSUME NEW i \in 1..total,
             Batch!Start(i) \/ Batch!Execute(i) \/ Batch!Produce(i, "ok")
      PROVE  BatchAnswers' /\ \A k \in 1..total : emits'[k] >= emits[k]
  BY <1>2 DEF Batch!Start, Batch!Execute, Batch!Produce
<1>3. ASSUME NEW i \in 1..total, Batch!Finish(i, "ok")
      PROVE  BatchAnswers' /\ \A k \in 1..total : emits'[k] >= emits[k]
  <2>1. /\ result' = [result EXCEPT ![i] = Batch!Emitted("ok")] /\ task[i] = "after"
        /\ emits' = [emits EXCEPT ![i] = @ + 1] /\ returned' = returned
    BY <1>3 DEF Batch!Finish
  <2>2. \/ task' = [task EXCEPT ![i] = "settled"]
        \/ task' = [task EXCEPT ![i] = "checking"]
    BY <1>3 DEF Batch!Finish, Batch!CheckSteering
  <2>3. Batch!Emitted("ok") # "none"
    BY DEF Batch!Emitted
  <2>4. result'[i] # "none" /\ emits[i] = 0 /\ emits'[i] = 1
        /\ task'[i] \in {"settled", "checking"}
    BY <2>1, <2>2, <2>3
  <2>5. \A k \in 1..total : k # i => result'[k] = result[k] /\ emits'[k] = emits[k]
                                         /\ task'[k] = task[k]
    BY <2>1, <2>2
  <2>6. QED BY <1>1, <2>1, <2>4, <2>5
<1>4. CASE Batch!ResolveCheck
  BY <1>4 DEF Batch!ResolveCheck
<1>5. CASE Batch!Return
  BY <1>5 DEF Batch!Return
<1>6. QED BY <1>2, <1>3, <1>4, <1>5 DEF BatchAction

LEMMA AnswersStep == Types /\ Lists /\ BatchAnswers /\ [Next]_vars => BatchAnswers'
<1> SUFFICES ASSUME Types, Lists, BatchAnswers, [Next]_vars PROVE BatchAnswers'
  OBVIOUS
<1>1. CASE RunTools
  <2>1. returned = FALSE
    BY <1>1 DEF RunTools, BatchAnswers, Types, BatchTypes
  <2>2. /\ total' = answer.calls /\ returned' = FALSE
        /\ task' = [i \in 1..answer.calls |-> "waiting"]
        /\ result' = [i \in 1..answer.calls |-> "none"]
        /\ emits' = [i \in 1..answer.calls |-> 0]
    BY <1>1, <2>1 DEF RunTools, StartBatch
  <2>3. QED BY <2>2 DEF BatchAnswers
<1>2. CASE ToolStep
  <2>1. BatchAction /\ ~returned /\ pc' = "tools" /\ BatchTypes
    BY <1>2 DEF ToolStep, BatchAction, Types
  <2>2. QED BY <2>1, BatchActionAnswers
<1>3. CASE FinishTools
  BY <1>3 DEF FinishTools, ClearBatch, BatchAnswers
<1>4. CASE UNCHANGED batchVars /\ ~(RunTools \/ ToolStep \/ FinishTools)
  <2>1. pc = "tools" => pc' = "tools"
    <3>1. CASE Prompt \/ Continue
      BY <3>1, RunStarts DEF Types
    <3>2. CASE Responds
      BY <3>2, ResponseReceived
    <3>3. CASE InjectPending \/ StopTurn \/ PassTurn \/ Yield
      BY <3>3 DEF InjectPending, StopTurn, PassTurn, Yield
    <3>4. CASE Consume \/ FinishRun \/ Elsewhere
      BY <3>4, ConsumeLists, FinishRunLists, ElsewhereLists
    <3>5. QED BY <1>4, <3>1, <3>2, <3>3, <3>4, StepCases
  <2>2. QED BY <1>4, <2>1 DEF BatchAnswers, batchVars
<1>5. QED BY <1>1, <1>2, <1>3, <1>4, BatchChanges

(* A placeholder for each call of a turn that runs none settles it.        *)
LEMMA PlaceholdersSettle ==
    ASSUME Types, Lists, Pairing, pc = "turn", Announces(Placeholders(answer.calls))
    PROVE  Paired(Announced') /\ Settled(Announced')
<1> DEFINE s == Announced
           t == Placeholders(answer.calls)
<1>1. s \in Seq(Message)
  BY AnnouncedType DEF Lists
<1>2. answer.calls \in CallCounts /\ answer.calls \in Nat
  BY LoopAssumption DEF Types, ListTypes, AssistantMessage, CallCounts
<1>3. /\ t \in Seq(Message) /\ Len(t) = answer.calls
      /\ \A k \in 1..answer.calls : IsResult(t[k]) /\ t[k].call = k
  BY <1>2, PlaceholdersType
<1>4. Paired(s) /\ CallsAt(s, AtEnd(s)) = 1..answer.calls /\ Answered(s) = {}
  BY DEF Pairing, Opened
<1> HIDE DEF s, t
<1>5. /\ Paired(s \o t) /\ AtEnd(s \o t) = AtEnd(s)
      /\ CallsAt(s \o t, AtEnd(s)) = CallsAt(s, AtEnd(s))
      /\ Answered(s \o t) = Answered(s) \cup {t[j].call : j \in 1..Len(t)}
  BY <1>1, <1>3, <1>4, AddResults, SMTT(30)
<1>6. {t[j].call : j \in 1..Len(t)} = 1..answer.calls
  BY <1>3
<1>7. Settled(s \o t)
  BY <1>4, <1>5, <1>6, SettledIs
<1>8. Announced' = s \o t
  BY DEF Announces, s, t
<1>9. QED BY <1>5, <1>7, <1>8

(* A step of the batch answers calls that are open.                        *)
LEMMA ToolPairing ==
    ASSUME Types, Lists, BatchAnswers, Pairing, ToolStep
    PROVE  Opened(Announced', total', Emitted')
<1>1. BatchAction /\ ~returned /\ pc = "tools" /\ pc' = "tools"
  BY DEF ToolStep, BatchAction
<1>2. total' = total /\ BatchTypes'
  BY <1>1, BatchActionTypes DEF Types
<1>3. BatchAnswers' /\ \A i \in 1..total : emits'[i] >= emits[i]
  BY <1>1, BatchActionAnswers DEF Types
<1>4. \A i \in 1..total : emits[i] \in {0, 1} /\ emits'[i] \in {0, 1}
  BY <1>2, <1>3 DEF BatchAnswers
<1>5. /\ NewlyAnswered \cap Emitted = {} /\ NewlyAnswered \subseteq 1..total
      /\ Emitted' = Emitted \cup NewlyAnswered
  BY <1>2, <1>3, <1>4 DEF NewlyAnswered, Emitted
<1>6. PICK order \in InOrder(NewlyAnswered) : Announces(Results(order))
  BY ToolLists
<1> DEFINE s == Announced
           t == Results(order)
<1>7. s \in Seq(Message)
  BY AnnouncedType DEF Lists
<1>8. /\ t \in Seq(Message) /\ \A k \in 1..Len(t) : IsResult(t[k])
      /\ {t[k].call : k \in 1..Len(t)} = NewlyAnswered
      /\ \A j, k \in 1..Len(t) : t[j].call = t[k].call => j = k
  BY <1>6, ResultsType DEF Types, BatchTypes
<1>9. Paired(s) /\ CallsAt(s, AtEnd(s)) = 1..total /\ Answered(s) = Emitted
  BY <1>1 DEF Pairing, Opened
<1>10. Announced' = s \o t
  BY <1>6 DEF Announces
<1> HIDE DEF s, t
<1>11. \A j \in 1..Len(t) : t[j].call \in CallsAt(s, AtEnd(s)) \ Answered(s)
  BY <1>5, <1>8, <1>9
<1>12. /\ Paired(s \o t) /\ AtEnd(s \o t) = AtEnd(s)
       /\ CallsAt(s \o t, AtEnd(s)) = CallsAt(s, AtEnd(s))
       /\ Answered(s \o t) = Answered(s) \cup {t[j].call : j \in 1..Len(t)}
  BY <1>7, <1>8, <1>9, <1>11, AddResults
<1>13. QED BY <1>2, <1>5, <1>8, <1>9, <1>10, <1>12 DEF Opened

LEMMA PairingStep ==
    Types /\ Lists /\ BatchAnswers /\ Pairing /\ [Next]_vars => Pairing'
<1> SUFFICES ASSUME Types, Lists, BatchAnswers, Pairing, [Next]_vars PROVE Pairing'
  OBVIOUS
<1>0. Announced \in Seq(Message)
  BY AnnouncedType DEF Lists
<1>a. ASSUME pc' \notin {"turn", "tools"}, Paired(Announced'), Settled(Announced')
      PROVE  Pairing'
  BY <1>a DEF Pairing
<1>b. ASSUME pc \notin {"turn", "tools"}, pc' \notin {"turn", "tools"}, Announces(<<>>)
      PROVE  Pairing'
  <2>1. Announced' = Announced
    BY <1>b, AnnouncesNothing DEF Lists
  <2>2. Paired(Announced) /\ Settled(Announced)
    BY <1>b DEF Pairing
  <2>3. QED BY <1>a, <1>b, <2>1, <2>2
<1>c. ASSUME pc' = pc, Announces(<<>>), UNCHANGED <<answer, batchVars>>
      PROVE  Pairing'
  <2>1. Announced' = Announced
    BY <1>c, AnnouncesNothing DEF Lists
  <2>2. Emitted' = Emitted /\ total' = total
    BY <1>c DEF batchVars, Emitted
  <2>3. QED BY <1>c, <2>1, <2>2 DEF Pairing
<1>d. ASSUME pc \notin {"turn", "tools"}, pc' \notin {"turn", "tools"},
             NEW t \in Seq(Message), FromUser(t), Announces(t)
      PROVE  Pairing'
  <2>1. Paired(Announced) /\ Settled(Announced)
    BY <1>d DEF Pairing
  <2>2. Paired(Announced \o t) /\ Settled(Announced \o t)
    BY <1>0, <1>d, <2>1, AddUsers DEF FromUser
  <2>3. QED BY <1>a, <1>d, <2>2 DEF Announces
<1>1. CASE Prompt \/ Continue
  <2>1. /\ pc = "none"
        /\ \E new \in Seq(Message), queue \in Seq(Nat), skip \in BOOLEAN :
               FromUser(new) /\ RunLoop(new, queue, skip)
    BY <1>1, RunStarts DEF Types
  <2>2. PICK new \in Seq(Message) : FromUser(new) /\ Announces(new) /\ pc' = "top"
    BY <2>1, StartLists
  <2>3. QED BY <1>d, <2>1, <2>2
<1>2. CASE Responds
  <2>1. PICK m \in AssistantMessage : m.stop # "leaked" /\ Receive(m)
    BY <1>2, ResponseReceived
  <2>2. pc = "model" /\ pc' = "turn" /\ answer' = m /\ Announces(<<m>>)
    BY <1>2, <2>1, ResponseReceived, ReceiveLists
  <2>3. m \in Message /\ m.role = "assistant"
    BY DEF Message, AssistantMessage
  <2>4. Paired(Announced) /\ Settled(Announced)
    BY <2>2 DEF Pairing
  <2>5. Opened(Announced \o <<m>>, m.calls, {})
    BY <1>0, <2>1, <2>3, <2>4, AddAnswer DEF Opened, Owed
  <2>6. QED BY <2>2, <2>5 DEF Pairing, Announces
<1>3. CASE InjectPending
  <2>1. pc = "top" /\ pc' = "model" /\ Announces(pending)
    BY <1>3, InjectLists DEF InjectPending
  <2>2. pending \in Seq(Message) /\ FromUser(pending)
    BY DEF Lists, ListTypes, Flow
  <2>3. QED BY <1>d, <2>1, <2>2
<1>4. CASE StopTurn
  BY <1>4, <1>a, StopLists, PlaceholdersSettle
<1>5. CASE PassTurn
  BY <1>5, <1>a, PassLists, PlaceholdersSettle
<1>6. CASE RunTools
  <2>1. pc = "turn" /\ pc' = "tools" /\ Announces(<<>>)
    BY <1>6, RunToolsLists
  <2>2. Announced' = Announced
    BY <2>1, AnnouncesNothing DEF Lists
  <2>3. total' = answer.calls /\ emits' = [i \in 1..answer.calls |-> 0]
    BY <1>6 DEF RunTools, StartBatch
  <2>4. Emitted' = {}
    BY <2>3 DEF Emitted
  <2>5. QED BY <2>1, <2>2, <2>3, <2>4 DEF Pairing
<1>7. CASE ToolStep
  BY <1>7, ToolPairing, ToolLists DEF Pairing
<1>8. CASE FinishTools
  <2>1. pc = "tools" /\ returned /\ pc' \in {"top", "yield"} /\ Announces(<<>>)
    BY <1>8, FinishToolsLists
  <2>2. Announced' = Announced
    BY <2>1, AnnouncesNothing DEF Lists
  <2>3. Emitted = 1..total
    BY <2>1 DEF BatchAnswers, Emitted
  <2>4. Paired(Announced) /\ Settled(Announced)
    BY <2>1, <2>3, SettledIs DEF Pairing, Opened
  <2>5. QED BY <1>a, <2>1, <2>2, <2>4
<1>9. CASE Yield
  BY <1>9, <1>b, YieldLists
<1>10. CASE Consume
  <2>1. UNCHANGED <<answer, batchVars>>
    BY <1>10 DEF Consume, loopVars
  <2>2. QED BY <1>10, <1>c, <2>1, ConsumeLists
<1>11. CASE FinishRun
  <2>1. /\ pc \in {"ended", "failed"} /\ pc' = "none"
        /\ \/ Announces(<<>>)
           \/ \E m \in AssistantMessage : Owed(m) = {} /\ Announces(<<m>>)
    BY <1>11, FinishRunLists
  <2>2. ASSUME NEW m \in AssistantMessage, Owed(m) = {}, Announces(<<m>>) PROVE Pairing'
    <3>1. m \in Message /\ m.role = "assistant"
      BY DEF Message, AssistantMessage
    <3>2. Paired(Announced) /\ Settled(Announced)
      BY <2>1 DEF Pairing
    <3>3. /\ Paired(Announced \o <<m>>) /\ AtEnd(Announced \o <<m>>) = Len(Announced) + 1
          /\ CallsAt(Announced \o <<m>>, Len(Announced) + 1) = {}
          /\ Answered(Announced \o <<m>>) = {}
      BY <1>0, <2>2, <3>1, <3>2, AddAnswer
    <3>4. Settled(Announced \o <<m>>)
      BY <3>3, SettledIs
    <3>5. Paired(Announced') /\ Settled(Announced')
      BY <2>2, <3>3, <3>4 DEF Announces
    <3>6. QED BY <1>a, <2>1, <3>5
  <2>3. QED BY <1>b, <2>1, <2>2
<1>12. CASE Elsewhere
  <2>1. UNCHANGED <<answer, batchVars>>
    BY <1>12, BatchElsewhere, ElsewhereLists
  <2>2. QED BY <1>12, <1>b, <1>c, <2>1, ElsewhereLists
<1>13. QED BY <1>1, <1>2, <1>3, <1>4, <1>5, <1>6, <1>7, <1>8, <1>9, <1>10, <1>11, <1>12,
              StepCases

(* The inductive invariant of the loop.                                    *)
IInv == Types /\ Lists /\ BatchAnswers /\ Pairing

LEMMA InitialPairing == Init => BatchAnswers /\ Pairing
<1> SUFFICES ASSUME Init PROVE BatchAnswers /\ Pairing
  OBVIOUS
<1>1. BatchAnswers
  BY DEF Init, NoBatch, BatchAnswers
<1>2. Announced = <<>> /\ pc = "none"
  <2>1. messages = <<>> /\ events = <<>> /\ pc = "none"
    BY DEF Init
  <2>2. <<>> \in Seq(Message) /\ <<>> \o <<>> = <<>>
    OBVIOUS
  <2>3. QED BY <2>1, <2>2, EndedOf DEF Announced
<1>3. ASSUME NEW s \in Seq(Message), s = <<>> PROVE Paired(s) /\ Settled(s)
  <2>1. Len(s) = 0 /\ DOMAIN s = {}
    BY <1>3
  <2>2. AssistantBefore(s, Len(s) + 1) \in 0..0
    <3>1. Len(s) + 1 \in 1..(Len(s) + 1) /\ (Len(s) + 1) - 1 = 0
      BY <2>1
    <3>2. QED BY <3>1, AssistantBeforeType
  <2>3. AtEnd(s) = 0
    BY <2>2 DEF AtEnd
  <2>4. Answered(s) = {} /\ CallsAt(s, 0) = {}
    BY <2>1, <2>3 DEF Answered, AnsweredBetween, CallsAt
  <2>5. QED BY <2>1, <2>3, <2>4, SettledIs DEF Paired
<1>4. <<>> \in Seq(Message)
  OBVIOUS
<1>5. QED BY <1>1, <1>2, <1>3, <1>4 DEF Pairing

LEMMA IInvHolds == Spec => []IInv
<1>1. Init => IInv
  BY InitialLists, InitialPairing DEF IInv
<1>2. IInv /\ [Next]_vars => IInv'
  BY TypesStep, ListsStep, AnswersStep, PairingStep DEF IInv
<1>3. QED BY <1>1, <1>2, PTL DEF Spec

(* Every call of a tool has one result, right after the message that made  *)
(* it, in every request the loop sends and in what an idle Agent keeps,    *)
(* however a turn ended: with tools, with the placeholders of a failed,    *)
(* aborted or cut response, or with calls skipped for a steering message.  *)
(* Only the calls of a leaked response a run left behind never have one.   *)
THEOREM LoopHolds == Spec => []LoopInv
<1>1. ASSUME IInv PROVE TypeOK
  <2>1. Types
    BY <1>1 DEF IInv
  <2>2. pc = "tools" => Batch!TypeOK
    BY <2>1, LoopAssumption, SMTT(30)
       DEF Types, BatchTypes, QueueTypes, BatchSize, Batch!TypeOK, Batch!Calls
  <2>3. QED BY <2>1, <2>2 DEF Types, TypeOK
<1>2. ASSUME IInv PROVE CallsPaired
  <2>1. ListTypes /\ Flow /\ Mirrored /\ Pairing
    BY <1>1, <1>2 DEF IInv, Lists
  <2>2. Paired(Announced)
    BY <2>1 DEF Pairing, Opened
  <2>3. ASSUME pc = "model" PROVE Complete(context, Len(context) + 1)
    <3>1. context \o <<>> = context
      BY <2>1 DEF ListTypes
    <3>2. Announced = context
      BY <2>1, <2>3, <3>1 DEF Flow, Mirrored
    <3>3. QED BY <2>1, <2>3, <3>2 DEF Pairing, Settled
  <2>4. ASSUME pc = "none" PROVE Complete(messages, Len(messages) + 1)
    <3>1. messages \o <<>> = messages /\ <<>> \in Seq(Message) /\ events = <<>>
      BY <2>1, <2>4 DEF ListTypes, Flow
    <3>2. Announced = messages
      BY <3>1, EndedOf DEF Announced
    <3>3. QED BY <2>1, <2>4, <3>2 DEF Pairing, Settled
  <2>5. QED BY <2>2, <2>3, <2>4 DEF CallsPaired
<1>3. IInv => LoopInv
  BY <1>1, <1>2 DEF LoopInv
<1>4. QED BY <1>3, IInvHolds, PTL

-----------------------------------------------------------------------------
(* The queued messages. *)

(***************************************************************************)
(* A poll under way has a call that waits for it, and only a poll holds    *)
(* messages back; what interrupted a batch is kept until it returns.       *)
(***************************************************************************)
Polling ==
    /\ taken # <<>> => steeringCheck
    /\ steeringCheck =>
           /\ ~returned /\ ~interrupted
           /\ \E i \in 1..total : task[i] = "checking"
    /\ ~interrupted => steeringMessages = <<>>
    /\ pc # "tools" => ~steeringCheck /\ ~interrupted

(* What is pending has been injected before the model is called again.     *)
NothingPending == pc # "top" => pending = <<>>

(* The messages of one origin in the conversation and on their way to it.  *)
Said(from) == IdsFrom(from, Announced \o pending)
InTheBatch == steeringMessages \o taken \o steeringQueue

Own(from, s) == Filtered(s, {k \in DOMAIN s : s[k].role = "user" /\ s[k].from = from})
Ids(own) == [k \in DOMAIN own |-> own[k].id]

LEMMA IdsAssociative ==
    \A p, q, r \in Seq(Nat) : (p \o q) \o r = p \o (q \o r)
BY SMTT(30)

LEMMA IdsNothing ==
    \A p \in Seq(Nat) : p \o <<>> = p /\ <<>> \o p = p
OBVIOUS

LEMMA IdsOfConcat ==
    \A p, q \in Seq(Nat) :
        /\ p \o q \in Seq(Nat) /\ Len(p \o q) = Len(p) + Len(q)
        /\ \A n \in 1..Len(p) : (p \o q)[n] = p[n]
        /\ \A n \in 1..Len(q) : (p \o q)[Len(p) + n] = q[n]
OBVIOUS

LEMMA IdsOfUsers ==
    ASSUME NEW a \in Seq(UserMessage), NEW b \in Seq(UserMessage)
    PROVE  Ids(a) \in Seq(Nat) /\ Ids(a \o b) = Ids(a) \o Ids(b)
<1>1. \A m \in UserMessage : m.id \in Nat
  BY DEF UserMessage
<1>2. /\ a \o b \in Seq(UserMessage) /\ Len(a \o b) = Len(a) + Len(b)
      /\ Len(a) \in Nat /\ Len(b) \in Nat
      /\ \A n \in 1..Len(a) : (a \o b)[n] = a[n]
      /\ \A n \in 1..Len(b) : (a \o b)[Len(a) + n] = b[n]
  BY ConcatProperties
<1>3. ASSUME NEW s \in Seq(UserMessage)
      PROVE  /\ Ids(s) \in Seq(Nat) /\ Len(Ids(s)) = Len(s)
             /\ \A k \in 1..Len(s) : Ids(s)[k] = s[k].id
  <2>1. DOMAIN s = 1..Len(s) /\ Len(s) \in Nat /\ \A k \in 1..Len(s) : s[k] \in UserMessage
    OBVIOUS
  <2>2. Ids(s) = [k \in 1..Len(s) |-> s[k].id] /\ \A k \in 1..Len(s) : s[k].id \in Nat
    BY <1>1, <2>1 DEF Ids
  <2>3. QED BY <2>1, <2>2
<1> DEFINE x == Ids(a)
           y == Ids(b)
           z == Ids(a \o b)
           u == a \o b
<1>4. /\ x \in Seq(Nat) /\ Len(x) = Len(a) /\ \A k \in 1..Len(a) : x[k] = a[k].id
      /\ y \in Seq(Nat) /\ Len(y) = Len(b) /\ \A k \in 1..Len(b) : y[k] = b[k].id
      /\ z \in Seq(Nat) /\ Len(z) = Len(u) /\ \A k \in 1..Len(u) : z[k] = u[k].id
  BY <1>2, <1>3
<1>5. /\ x \o y \in Seq(Nat) /\ Len(x \o y) = Len(x) + Len(y)
      /\ \A n \in 1..Len(x) : (x \o y)[n] = x[n]
      /\ \A n \in 1..Len(y) : (x \o y)[Len(x) + n] = y[n]
  <2>1. x \in Seq(Nat) /\ y \in Seq(Nat)
    BY <1>4
  <2> HIDE DEF x, y, z, u
  <2>2. QED BY <2>1, IdsOfConcat, Zenon
<1>6. z = x \o y
  <2>1. /\ Len(u) = Len(a) + Len(b) /\ Len(a) \in Nat /\ Len(b) \in Nat
        /\ \A n \in 1..Len(a) : u[n] = a[n]
        /\ \A n \in 1..Len(b) : u[Len(a) + n] = b[n]
    BY <1>2
  <2> DEFINE w == x \o y
  <2>2. /\ w \in Seq(Nat) /\ Len(w) = Len(a) + Len(b)
        /\ \A n \in 1..Len(a) : w[n] = x[n]
        /\ \A n \in 1..Len(b) : w[Len(a) + n] = y[n]
    BY <1>4, <1>5
  <2> HIDE DEF x, y, z, u, w
  <2>3. ASSUME NEW k \in 1..(Len(a) + Len(b)) PROVE z[k] = w[k]
    <3>1. CASE k \in 1..Len(a)
      BY <1>4, <2>1, <2>2, <3>1, ZenonT(60)
    <3>2. CASE k \notin 1..Len(a)
      <4> DEFINE n == k - Len(a)
      <4>1. n \in 1..Len(b) /\ Len(a) + n = k
        BY <2>1, <3>2
      <4> HIDE DEF n
      <4>2. z[k] = u[k].id /\ u[k] = b[n] /\ w[k] = y[n] /\ y[n] = b[n].id
        BY <1>4, <2>1, <2>2, <4>1
      <4>3. QED BY <4>2
    <3>3. QED BY <3>1, <3>2
  <2>4. z = w
    <3>1. z \in Seq(Nat) /\ w \in Seq(Nat) /\ Len(z) = Len(w)
      BY <1>4, <2>1, <2>2
    <3>2. \A k \in 1..Len(z) : z[k] = w[k]
      BY <1>4, <2>1, <2>3
    <3>3. QED BY <3>1, <3>2, SeqEqual
  <2>5. QED BY <2>4 DEF w
<1>7. QED BY <1>4, <1>6

(* A user message is one by its role.                                      *)
LEMMA UserByRole ==
    /\ \A m \in Message : m.role = "user" => m \in UserMessage
    /\ \A m \in AssistantMessage : m.role = "assistant"
BY DEF Message, UserMessage, AssistantMessage, ToolResultMessage

LEMMA OwnType ==
    ASSUME NEW s \in Seq(Message), NEW from
    PROVE  Own(from, s) \in Seq(UserMessage)
<1> DEFINE K == {k \in DOMAIN s : s[k].role = "user" /\ s[k].from = from}
           own == Filtered(s, K)
<1>1. PICK h \in [1..Len(own) -> K \cap 1..Len(s)] :
          \A i \in 1..Len(own) : own[i] = s[h[i]]
  <2> HIDE DEF K
  <2>1. QED BY FilteredPositions
<1>2. own \in Seq(Message)
  <2> HIDE DEF K
  <2>1. QED BY FilteredPositions
<1>3. \A k \in K \cap 1..Len(s) : s[k] \in UserMessage
  <2>1. \A k \in 1..Len(s) : s[k] \in Message
    OBVIOUS
  <2>2. QED BY <2>1, UserByRole
<1> HIDE DEF K, own
<1>4. \A i \in 1..Len(own) : own[i] \in UserMessage
  BY <1>1, <1>3
<1>5. own \in Seq(UserMessage)
  BY <1>2, <1>4
<1>6. QED BY <1>5 DEF Own, own, K

LEMMA IdsFromType ==
    ASSUME NEW s \in Seq(Message), NEW from
    PROVE  IdsFrom(from, s) \in Seq(Nat)
<1>1. IdsFrom(from, s) = Ids(Own(from, s))
  BY DEF IdsFrom, Ids, Own
<1>2. QED BY <1>1, OwnType, IdsOfUsers

LEMMA IdsFromConcat ==
    ASSUME NEW s \in Seq(Message), NEW t \in Seq(Message), NEW from
    PROVE  IdsFrom(from, s \o t) = IdsFrom(from, s) \o IdsFrom(from, t)
<1> DEFINE K == {k \in DOMAIN (s \o t) : (s \o t)[k].role = "user" /\ (s \o t)[k].from = from}
           J == {k \in DOMAIN s : s[k].role = "user" /\ s[k].from = from}
           L == {k \in DOMAIN t : t[k].role = "user" /\ t[k].from = from}
<1>1. /\ s \o t \in Seq(Message) /\ Len(s \o t) = Len(s) + Len(t)
      /\ Len(s) \in Nat /\ Len(t) \in Nat
      /\ DOMAIN (s \o t) = 1..(Len(s) + Len(t)) /\ DOMAIN s = 1..Len(s) /\ DOMAIN t = 1..Len(t)
      /\ \A n \in 1..Len(s) : (s \o t)[n] = s[n]
      /\ \A n \in 1..Len(t) : (s \o t)[Len(s) + n] = t[n]
  BY ConcatProperties
<1>2. \A n \in 1..Len(s) : n \in 1..(Len(s) + Len(t))
  BY <1>1
<1>3. \A n \in 1..Len(t) : Len(s) + n \in 1..(Len(s) + Len(t))
  BY <1>1
<1>4. \A n \in 1..Len(s) : n \in K <=> n \in J
  BY <1>1, <1>2
<1>5. \A n \in 1..Len(t) : Len(s) + n \in K <=> n \in L
  BY <1>1, <1>3
<1>6. Own(from, s \o t) = Filtered(s \o t, K) /\ Own(from, s) = Filtered(s, J)
      /\ Own(from, t) = Filtered(t, L)
  BY DEF Own
<1> HIDE DEF K, J, L
<1>7. Filtered(s \o t, K) = Filtered(s, J) \o Filtered(t, L)
  BY <1>4, <1>5, FilteredConcat
<1>8. Ids(Own(from, s \o t)) = Ids(Own(from, s)) \o Ids(Own(from, t))
  BY <1>6, <1>7, OwnType, IdsOfUsers
<1>9. QED BY <1>8 DEF IdsFrom, Ids, Own

(* Messages of the model, of the tools and of another origin say nothing.  *)
LEMMA IdsFromOthers ==
    ASSUME NEW s \in Seq(Message), NEW from,
           \A k \in 1..Len(s) : ~(s[k].role = "user" /\ s[k].from = from)
    PROVE  IdsFrom(from, s) = <<>>
<1> DEFINE K == {k \in DOMAIN s : s[k].role = "user" /\ s[k].from = from}
<1>1. K \cap 1..Len(s) = {}
  OBVIOUS
<1> HIDE DEF K
<1>2. Filtered(s, K) = <<>>
  BY <1>1, FilteredNone
<1>3. Own(from, s) = <<>>
  BY <1>2 DEF Own, K
<1>4. Ids(<<>>) = <<>>
  BY DEF Ids
<1>5. IdsFrom(from, s) = Ids(Own(from, s))
  BY DEF IdsFrom, Ids, Own
<1>6. QED BY <1>3, <1>4, <1>5

(* Ids made messages and read back.                                        *)
LEMMA IdsFromMessages ==
    ASSUME NEW from \in Origins, NEW ids \in Seq(Nat), NEW other \in Origins
    PROVE  IdsFrom(other, Messages(from, ids)) = IF other = from THEN ids ELSE <<>>
<1> DEFINE s == Messages(from, ids)
<1>1. s = [k \in 1..Len(ids) |-> User(from, ids[k])] /\ Len(ids) \in Nat
  BY DEF Messages
<1>2. s \in Seq(Message)
  BY MessagesType
<1>3. /\ Len(s) = Len(ids) /\ DOMAIN s = 1..Len(ids)
      /\ \A k \in 1..Len(ids) : s[k].role = "user" /\ s[k].from = from /\ s[k].id = ids[k]
  BY <1>1 DEF User
<1> HIDE DEF s
<1>4. CASE other = from
  <2> DEFINE K == {k \in DOMAIN s : s[k].role = "user" /\ s[k].from = from}
  <2>1. 1..Len(s) \subseteq K
    BY <1>3
  <2> HIDE DEF K
  <2>2. Filtered(s, K) = s
    BY <1>2, <2>1, FilteredAll
  <2>3. IdsFrom(from, s) = [k \in DOMAIN s |-> s[k].id]
    BY <2>2 DEF IdsFrom, K
  <2>4. ids = [k \in 1..Len(ids) |-> ids[k]]
    OBVIOUS
  <2>5. IdsFrom(from, s) = ids
    BY <1>3, <2>3, <2>4
  <2>6. QED BY <1>4, <2>5 DEF s
<1>5. CASE other # from
  <2>1. \A k \in 1..Len(s) : ~(s[k].role = "user" /\ s[k].from = other)
    BY <1>3, <1>5
  <2>2. IdsFrom(other, s) = <<>>
    BY <1>2, <2>1, IdsFromOthers
  <2>3. QED BY <1>5, <2>2 DEF s
<1>6. QED BY <1>4, <1>5

LEMMA NothingFrom ==
    ASSUME NEW from
    PROVE  IdsFrom(from, <<>>) = <<>>
<1>1. <<>> \in Seq(Message)
  OBVIOUS
<1>2. \A k \in 1..Len(<<>>) : ~(<<>>[k].role = "user" /\ <<>>[k].from = from)
  OBVIOUS
<1>3. QED BY <1>1, <1>2, IdsFromOthers

LEMMA NoMessages == \A from : Messages(from, <<>>) = <<>>
BY DEF Messages

LEMMA SaidIs ==
    ASSUME Lists, NEW from
    PROVE  /\ Said(from) = IdsFrom(from, Announced) \o IdsFrom(from, pending)
           /\ IdsFrom(from, Announced) \in Seq(Nat) /\ IdsFrom(from, pending) \in Seq(Nat)
<1>1. Announced \in Seq(Message) /\ pending \in Seq(Message)
  BY AnnouncedType DEF Lists, ListTypes
<1>2. QED BY <1>1, IdsFromConcat, IdsFromType DEF Said

(* The step announces t, and with what is pending then ids are on the way. *)
LEMMA SaidGrows ==
    ASSUME Lists, Lists', NEW from, NEW t, Announces(t)
    PROVE  /\ IdsFrom(from, t) \in Seq(Nat)
           /\ Said(from)' = IdsFrom(from, Announced)
                                \o (IdsFrom(from, t) \o IdsFrom(from, pending'))
<1>1. /\ Announced \in Seq(Message) /\ t \in Seq(Message) /\ Announced' = Announced \o t
      /\ pending' \in Seq(Message)
  BY AnnouncedType DEF Lists, ListTypes, Announces
<1> DEFINE p == IdsFrom(from, Announced)
           q == IdsFrom(from, t)
           r == IdsFrom(from, pending')
<1>2. Announced' \o pending' = (Announced \o t) \o pending' /\ Announced \o t \in Seq(Message)
  BY <1>1
<1>3. /\ IdsFrom(from, (Announced \o t) \o pending') = IdsFrom(from, Announced \o t) \o r
      /\ IdsFrom(from, Announced \o t) = p \o q
      /\ p \in Seq(Nat) /\ q \in Seq(Nat) /\ r \in Seq(Nat)
  BY <1>1, <1>2, IdsFromConcat, IdsFromType, ZenonT(60)
<1>4. Said(from)' = IdsFrom(from, Announced' \o pending')
  BY DEF Said, IdsFrom
<1> HIDE DEF p, q, r
<1>5. (p \o q) \o r = p \o (q \o r)
  BY <1>3, IdsAssociative, ZenonT(60)
<1>6. Said(from)' = p \o (q \o r)
  BY <1>2, <1>3, <1>4, <1>5
<1>7. QED BY <1>3, <1>6 DEF p, q, r

(* What the model, the tools and the loop itself add says nothing.         *)
LEMMA NothingSaid ==
    ASSUME Lists, Lists', NEW t, Announces(t), \A k \in 1..Len(t) : t[k].role # "user",
           pending' = pending, NEW from
    PROVE  Said(from)' = Said(from)
<1>1. t \in Seq(Message)
  BY DEF Announces
<1>2. IdsFrom(from, t) = <<>>
  BY <1>1, IdsFromOthers
<1>3. IdsFrom(from, t) \o IdsFrom(from, pending') = IdsFrom(from, pending)
  BY <1>2, SaidIs, IdsNothing, Zenon
<1>4. QED BY <1>3, SaidGrows, SaidIs

(* With nothing pending before, what is announced and pending is added.    *)
LEMMA MoreSaid ==
    ASSUME Lists, Lists', pending = <<>>, NEW from, NEW t, Announces(t)
    PROVE  Said(from)' = Said(from) \o (IdsFrom(from, t) \o IdsFrom(from, pending'))
<1>1. <<>> \in Seq(Message) /\ \A k \in 1..Len(<<>>) : <<>>[k].role # "user"
  OBVIOUS
<1>2. IdsFrom(from, pending) = <<>>
  BY <1>1, IdsFromOthers
<1>3. Said(from) = IdsFrom(from, Announced)
  BY <1>2, SaidIs, IdsNothing, Zenon
<1>4. QED BY <1>3, SaidGrows

LEMMA SaidType ==
    ASSUME Lists
    PROVE  Said("steer") \in Seq(Nat) /\ Said("followUp") \in Seq(Nat)
<1>1. Announced \in Seq(Message) /\ pending \in Seq(Message)
  BY AnnouncedType DEF Lists, ListTypes
<1>2. Announced \o pending \in Seq(Message)
  BY <1>1
<1>3. QED BY <1>2, IdsFromType DEF Said

(* The two ends of a queue.                                                *)
LEMMA DequeuedAgain ==
    ASSUME NEW q \in Seq(Nat), NEW mode
    PROVE  Dequeued(mode, q) \o Remaining(mode, q) = q
<1>1. CASE mode = "one-at-a-time" /\ q # <<>>
  <2>1. Len(q) >= 1
    BY <1>1
  <2>2. SubSeq(q, 1, 1) \o Tail(q) = q
    BY <1>1, <2>1
  <2>3. QED BY <1>1, <2>2 DEF Dequeued, Remaining
<1>2. CASE mode = "one-at-a-time" /\ q = <<>>
  BY <1>2 DEF Dequeued, Remaining
<1>3. CASE mode # "one-at-a-time"
  BY <1>3 DEF Dequeued, Remaining
<1>4. QED BY <1>1, <1>2, <1>3

LEMMA NewestQueued ==
    \A p, q \in Seq(Nat), m \in Nat : p \o Append(q, m) = Append(p \o q, m)
OBVIOUS

LEMMA NewestWithdrawn ==
    ASSUME NEW p \in Seq(Nat), NEW q \in Seq(Nat), q # <<>>
    PROVE  p \o WithoutLast(q) = WithoutLast(p \o q)
<1>1. Len(q) >= 1 /\ Len(p \o q) = Len(p) + Len(q) /\ p \o q # <<>>
  OBVIOUS
<1>2. QED BY <1>1 DEF WithoutLast

LEMMA AllWithdrawn ==
    ASSUME NEW p \in Seq(Nat), NEW q \in Seq(Nat)
    PROVE  SubSeq(p \o q, 1, Len(p \o q) - Len(q)) = p
OBVIOUS

(* The polls of a batch pass its messages on in their order.               *)
LEMMA BatchActionPolls ==
    ASSUME BatchTypes, QueueTypes, Polling, BatchAction, pc = "tools", pc' = "tools", ~returned
    PROVE  Polling' /\ InTheBatch' = InTheBatch
<1> USE DEF BatchTypes, Batch!Phases, Batch!Calls, Polling
<1>0. \A a, b \in Seq(Nat) : a \o <<>> = a /\ <<>> \o a = a
  OBVIOUS
<1>1. ASSUME NEW i \in 1..total,
             Batch!Start(i) \/ Batch!Execute(i) \/ Batch!Produce(i, "ok")
      PROVE  Polling' /\ InTheBatch' = InTheBatch
  <2>1. /\ UNCHANGED <<total, interrupted, steeringCheck, taken, steeringMessages, returned,
                       steeringQueue>>
        /\ task[i] # "checking"
        /\ \A k \in 1..total : k # i => task'[k] = task[k]
    BY <1>1 DEF Batch!Start, Batch!Execute, Batch!Produce
  <2>2. QED BY <1>1, <2>1 DEF InTheBatch
<1>2. ASSUME NEW i \in 1..total, Batch!Finish(i, "ok")
      PROVE  Polling' /\ InTheBatch' = InTheBatch
  <2>1. /\ UNCHANGED <<total, interrupted, steeringMessages, returned>>
        /\ task[i] = "after"
        /\ \A k \in 1..total : k # i => task'[k] = task[k]
    BY <1>2 DEF Batch!Finish, Batch!CheckSteering
  <2>2. CASE UNCHANGED <<taken, steeringQueue>> /\ steeringCheck' = steeringCheck
    BY <2>1, <2>2 DEF InTheBatch
  <2>3. CASE steeringCheck' = TRUE /\ task'[i] = "checking" /\ ~interrupted
             /\ IF steeringCheck THEN UNCHANGED <<taken, steeringQueue>>
                ELSE /\ taken' = Dequeued(SteeringMode, steeringQueue)
                     /\ steeringQueue' = Remaining(SteeringMode, steeringQueue)
    <3>1. Polling'
      BY <2>1, <2>3
    <3>2. CASE steeringCheck
      BY <2>1, <2>3, <3>1, <3>2 DEF InTheBatch
    <3>3. CASE ~steeringCheck
      <4>1. taken = <<>> /\ steeringMessages = <<>>
        BY <2>3, <3>3
      <4>2. InTheBatch = steeringQueue
        BY <4>1, IdsNothing DEF InTheBatch, QueueTypes
      <4>3. /\ Dequeued(SteeringMode, steeringQueue) \in Seq(Nat)
            /\ Remaining(SteeringMode, steeringQueue) \in Seq(Nat)
            /\ Dequeued(SteeringMode, steeringQueue) \o Remaining(SteeringMode, steeringQueue)
                   = steeringQueue
        BY DequeuedTypes, DequeuedAgain DEF QueueTypes
      <4>4. steeringMessages' = <<>> /\ taken' = Dequeued(SteeringMode, steeringQueue)
            /\ steeringQueue' = Remaining(SteeringMode, steeringQueue)
        BY <2>1, <2>3, <3>3, <4>1
      <4>5. InTheBatch' = (<<>> \o Dequeued(SteeringMode, steeringQueue))
                              \o Remaining(SteeringMode, steeringQueue)
        BY <4>4 DEF InTheBatch
      <4>6. QED BY <3>1, <4>2, <4>3, <4>5, IdsNothing
    <3>4. QED BY <3>2, <3>3
  <2>4. QED BY <1>2, <2>2, <2>3
        DEF Batch!Finish, Batch!CheckSteering, Dequeued, Remaining, Batch!Dequeued,
            Batch!Remaining
<1>3. CASE Batch!ResolveCheck
  <2>1. /\ UNCHANGED <<steeringQueue, returned, total>> /\ steeringCheck
        /\ steeringCheck' = FALSE /\ taken' = <<>>
        /\ \/ taken = <<>> /\ UNCHANGED <<interrupted, steeringMessages>>
           \/ taken # <<>> /\ interrupted' = TRUE /\ steeringMessages' = taken
    BY <1>3 DEF Batch!ResolveCheck
  <2>2. Polling'
    BY <2>1
  <2>3. steeringMessages = <<>> /\ taken \in Seq(Nat)
    BY <2>1 DEF QueueTypes
  <2>4. steeringMessages' = taken
    BY <2>1, <2>3
  <2>5. <<>> \o taken = taken /\ taken \o <<>> = taken
    BY <2>3
  <2>6. QED BY <2>1, <2>2, <2>3, <2>4, <2>5 DEF InTheBatch
<1>4. CASE Batch!Return
  <2>1. UNCHANGED <<interrupted, steeringCheck, taken, steeringMessages, steeringQueue>>
    BY <1>4 DEF Batch!Return
  <2>2. ~steeringCheck
    BY <1>4 DEF Batch!Return
  <2>3. QED BY <2>1, <2>2 DEF InTheBatch
<1>5. QED BY <1>1, <1>2, <1>3, <1>4 DEF BatchAction

LEMMA PollingStep == Types /\ Lists /\ Polling /\ [Next]_vars => Polling'
<1> SUFFICES ASSUME Types, Lists, Polling, [Next]_vars PROVE Polling'
  OBVIOUS
<1>a. ASSUME UNCHANGED batchVars, pc = "tools" => pc' = "tools" PROVE Polling'
  BY <1>a DEF batchVars, Polling
<1>1. CASE ToolStep
  <2>1. BatchAction /\ pc = "tools" /\ pc' = "tools" /\ ~returned
    BY <1>1 DEF ToolStep, BatchAction
  <2>2. QED BY <2>1, BatchActionPolls DEF Types
<1>2. CASE RunTools
  BY <1>2 DEF RunTools, StartBatch, Polling
<1>3. CASE FinishTools
  BY <1>3 DEF FinishTools, ClearBatch, Polling
<1>4. CASE UNCHANGED batchVars /\ ~FinishTools
  <2>1. CASE Prompt \/ Continue
    BY <1>4, <1>a, <2>1, RunStarts DEF Types
  <2>2. CASE Responds
    BY <1>4, <1>a, <2>2, ResponseReceived
  <2>3. CASE InjectPending \/ StopTurn \/ PassTurn \/ RunTools \/ ToolStep
    BY <1>4, <1>a, <2>3 DEF InjectPending, StopTurn, PassTurn, RunTools, ToolStep
  <2>4. CASE Yield \/ Consume \/ FinishRun \/ Elsewhere
    BY <1>4, <1>a, <2>4, YieldLists, ConsumeLists, FinishRunLists, ElsewhereLists
  <2>5. QED BY <1>4, <2>1, <2>2, <2>3, <2>4, StepCases
<1>5. UNCHANGED batchVars \/ RunTools \/ ToolStep \/ FinishTools
  BY BatchChanges
<1>6. QED BY <1>1, <1>2, <1>3, <1>4, <1>5

LEMMA PendingStep == Types /\ Lists /\ NothingPending /\ [Next]_vars => NothingPending'
<1> SUFFICES ASSUME Types, Lists, NothingPending, [Next]_vars PROVE NothingPending'
  OBVIOUS
<1> USE DEF NothingPending
<1>1. CASE Prompt \/ Continue
  BY <1>1, RunStarts DEF Types, RunLoop
<1>2. CASE Responds
  BY <1>2, ResponseReceived DEF Receive
<1>3. CASE InjectPending \/ StopTurn \/ RunTools \/ ToolStep
  BY <1>3 DEF InjectPending, StopTurn, RunTools, ToolStep
<1>4. CASE PassTurn \/ FinishTools
  <2>1. pc' = "top" \/ pending' = <<>>
    BY <1>4 DEF PassTurn, FinishTools, EndTurn
  <2>2. QED BY <2>1
<1>5. CASE Yield
  <2>1. CASE followUpQueue # <<>>
    BY <1>5, <2>1 DEF Yield
  <2>2. CASE followUpQueue = <<>>
    <3>1. Dequeued(FollowUpMode, followUpQueue) = <<>>
      BY <2>2 DEF Dequeued
    <3>2. pending' = Messages("followUp", Dequeued(FollowUpMode, followUpQueue))
      BY <1>5 DEF Yield
    <3>3. QED BY <3>1, <3>2, NoMessages
  <2>3. QED BY <2>1, <2>2
<1>6. CASE Consume
  BY <1>6 DEF Consume, loopVars
<1>7. CASE FinishRun
  BY <1>7 DEF FinishRun
<1>8. CASE Elsewhere
  BY <1>8, ElsewhereLists
<1>9. QED BY <1>1, <1>2, <1>3, <1>4, <1>5, <1>6, <1>7, <1>8, StepCases

(***************************************************************************)
(* A step that hands messages over: those it announces and leaves pending  *)
(* are the oldest of those that a batch has kept or that are queued.       *)
(***************************************************************************)
HandsOver(t, d, e) ==
    /\ Announces(t)
    /\ IdsFrom("steer", pending') = d /\ IdsFrom("followUp", pending') = e
    /\ IdsFrom("steer", t) \o d \o steeringQueue' = steeringMessages \o steeringQueue
    /\ IdsFrom("followUp", t) \o e \o followUpQueue' = followUpQueue
    /\ pending = <<>> /\ taken = <<>> /\ taken' = <<>> /\ steeringMessages' = <<>>
    /\ UNCHANGED <<accepted, acceptedFollowUps>>

LEMMA HandedOver ==
    ASSUME Types, QueueTypes', Lists, Lists', MessagesDelivered,
           NEW t, NEW d \in Seq(Nat), NEW e \in Seq(Nat), HandsOver(t, d, e)
    PROVE  MessagesDelivered'
<1> DEFINE s == Said("steer")
           f == Said("followUp")
           a == IdsFrom("steer", t)
           b == IdsFrom("followUp", t)
<1>1. s \in Seq(Nat) /\ f \in Seq(Nat) /\ a \in Seq(Nat) /\ b \in Seq(Nat)
  BY SaidType, SaidGrows DEF HandsOver
<1>2. Said("steer")' = s \o (a \o d) /\ Said("followUp")' = f \o (b \o e)
  BY MoreSaid DEF HandsOver
<1>3. /\ steeringMessages \in Seq(Nat) /\ steeringQueue \in Seq(Nat)
      /\ steeringQueue' \in Seq(Nat)
      /\ followUpQueue \in Seq(Nat) /\ followUpQueue' \in Seq(Nat)
  BY DEF Types, QueueTypes
<1>4. /\ s \o steeringMessages \o <<>> \o steeringQueue = accepted
      /\ f \o followUpQueue = acceptedFollowUps
  BY DEF MessagesDelivered, Said, HandsOver
<1>5. /\ (a \o d) \o steeringQueue' = steeringMessages \o steeringQueue
      /\ (b \o e) \o followUpQueue' = followUpQueue
  BY DEF HandsOver
<1>6. a \o d \in Seq(Nat) /\ b \o e \in Seq(Nat)
  BY <1>1
<1>7. MessagesDelivered' <=>
          /\ Said("steer")' \o <<>> \o <<>> \o steeringQueue' = accepted
          /\ Said("followUp")' \o followUpQueue' = acceptedFollowUps
  BY DEF MessagesDelivered, Said, HandsOver
<1> HIDE DEF s, f, a, b
<1>8. s \o (a \o d) \in Seq(Nat) /\ s \o steeringMessages \in Seq(Nat)
  BY <1>1, <1>3, <1>6
<1> DEFINE x == a \o d
           y == b \o e
           q == steeringQueue'
           r == followUpQueue'
<1>a. /\ x \in Seq(Nat) /\ y \in Seq(Nat) /\ q \in Seq(Nat) /\ r \in Seq(Nat)
      /\ x \o q = steeringMessages \o steeringQueue /\ y \o r = followUpQueue
  BY <1>3, <1>5, <1>6
<1> HIDE DEF x, y, q, r
<1>9. (s \o x) \o q = accepted
  <2>1. s \in Seq(Nat) /\ x \in Seq(Nat) /\ q \in Seq(Nat)
    BY <1>1, <1>a
  <2>2. (s \o x) \o q = s \o (x \o q)
    BY <2>1, IdsAssociative, ZenonT(60)
  <2>3. /\ s \in Seq(Nat) /\ steeringMessages \in Seq(Nat) /\ steeringQueue \in Seq(Nat)
    BY <1>1, <1>3
  <2>4. (s \o steeringMessages) \o steeringQueue = s \o (steeringMessages \o steeringQueue)
    BY <2>3, IdsAssociative, ZenonT(60)
  <2>5. (s \o steeringMessages) \o <<>> = s \o steeringMessages
    BY <1>8, IdsNothing, Zenon
  <2>6. (s \o steeringMessages) \o steeringQueue = accepted
    BY <1>4, <2>5, Zenon
  <2>7. x \o q = steeringMessages \o steeringQueue
    BY <1>a
  <2>8. QED BY <2>2, <2>4, <2>6, <2>7, Zenon
<1>10. (f \o y) \o r = acceptedFollowUps
  <2>1. f \in Seq(Nat) /\ y \in Seq(Nat) /\ r \in Seq(Nat) /\ y \o r = followUpQueue
    BY <1>1, <1>a
  <2>2. (f \o y) \o r = f \o (y \o r)
    BY <2>1, IdsAssociative, ZenonT(60)
  <2>3. QED BY <1>4, <2>1, <2>2, Zenon
<1>11. (s \o x) \o <<>> \o <<>> = s \o x
  <2>1. s \o x \in Seq(Nat)
    BY <1>8 DEF x
  <2>2. QED BY <2>1, IdsNothing, Zenon
<1>12. Said("steer")' = s \o x /\ Said("followUp")' = f \o y
  BY <1>2 DEF x, y
<1>13. QED BY <1>7, <1>9, <1>10, <1>11, <1>12 DEF q, r

(* Between two batches no poll is under way and no interrupt is kept.      *)
LEMMA BetweenBatches ==
    ASSUME Polling, pc # "tools"
    PROVE  taken = <<>> /\ steeringMessages = <<>>
BY DEF Polling

(* A run starts with what it is given, and with a poll.                    *)
LEMMA StartDelivers ==
    ASSUME Types, QueueTypes', Lists, Lists', Polling, NothingPending, MessagesDelivered,
           pc = "none", NEW new \in Seq(Message), NEW queue \in Seq(Nat),
           NEW skip \in BOOLEAN, RunLoop(new, queue, skip), Announces(new),
           IdsFrom("steer", new) \o queue = steeringQueue,
           IdsFrom("followUp", new) \o followUpQueue' = followUpQueue
    PROVE  MessagesDelivered'
<1>1. /\ UNCHANGED <<accepted, acceptedFollowUps, taken, steeringMessages>>
      /\ \/ pending' = <<>> /\ steeringQueue' = queue
         \/ /\ pending' = Messages("steer", Dequeued(SteeringMode, queue))
            /\ steeringQueue' = Remaining(SteeringMode, queue)
  BY DEF RunLoop, batchVars
<1>2. \E d \in Seq(Nat) : pending' = Messages("steer", d) /\ d \o steeringQueue' = queue
  <2>1. <<>> \in Seq(Nat) /\ <<>> \o queue = queue
    OBVIOUS
  <2>2. /\ Dequeued(SteeringMode, queue) \in Seq(Nat)
        /\ Dequeued(SteeringMode, queue) \o Remaining(SteeringMode, queue) = queue
    BY DequeuedTypes, DequeuedAgain
  <2>3. QED BY <1>1, <2>1, <2>2, NoMessages
<1>3. PICK d \in Seq(Nat) : pending' = Messages("steer", d) /\ d \o steeringQueue' = queue
  BY <1>2
<1>4. IdsFrom("steer", pending') = d /\ IdsFrom("followUp", pending') = <<>>
  BY <1>3, IdsFromMessages DEF Origins
<1>5. /\ IdsFrom("steer", new) \in Seq(Nat) /\ IdsFrom("followUp", new) \in Seq(Nat)
      /\ steeringQueue' \in Seq(Nat) /\ steeringQueue \in Seq(Nat)
  BY IdsFromType DEF Types, QueueTypes
<1>6. taken = <<>> /\ steeringMessages = <<>> /\ pending = <<>>
  BY BetweenBatches DEF NothingPending
<1>7. IdsFrom("steer", new) \o d \o steeringQueue' = steeringMessages \o steeringQueue
  <2> DEFINE a == IdsFrom("steer", new)
             q == steeringQueue'
  <2>1. a \in Seq(Nat) /\ d \in Seq(Nat) /\ q \in Seq(Nat) /\ d \o q = queue
    BY <1>3, <1>5
  <2>2. a \o queue = steeringQueue
    OBVIOUS
  <2> HIDE DEF a, q
  <2>3. (a \o d) \o q = a \o (d \o q)
    BY <2>1, IdsAssociative, ZenonT(60)
  <2>4. steeringMessages \o steeringQueue = steeringQueue
    BY <1>5, <1>6, IdsNothing
  <2>5. (a \o d) \o q = steeringMessages \o steeringQueue
    BY <2>1, <2>2, <2>3, <2>4, Zenon
  <2>6. QED BY <2>5 DEF a, q
<1>8. IdsFrom("followUp", new) \o <<>> \o followUpQueue' = followUpQueue
  <2>1. IdsFrom("followUp", new) \o <<>> = IdsFrom("followUp", new)
    BY <1>5, IdsNothing
  <2>2. QED BY <2>1
<1>9. HandsOver(new, d, <<>>)
  BY <1>1, <1>4, <1>6, <1>7, <1>8 DEF HandsOver
<1>10. <<>> \in Seq(Nat)
  OBVIOUS
<1>11. QED BY <1>9, <1>10, HandedOver

(* prompt() and continue().                                                *)
LEMMA CallerDelivers ==
    ASSUME Types, QueueTypes', Lists, Lists', Polling, NothingPending, MessagesDelivered,
           Prompt \/ Continue
    PROVE  MessagesDelivered'
<1>0. /\ pc = "none" /\ steeringQueue \in Seq(Nat) /\ followUpQueue \in Seq(Nat)
      /\ FALSE \in BOOLEAN /\ TRUE \in BOOLEAN
  BY RunStarts DEF Types, QueueTypes
<1>1. CASE Prompt
  <2> DEFINE new == <<User("prompt", prompts + 1)>>
  <2>1. prompts + 1 \in Nat
    BY LoopAssumption DEF Types, FlagTypes
  <2>2. User("prompt", prompts + 1) \in Message
        /\ User("prompt", prompts + 1).from = "prompt"
    BY <2>1 DEF User, Message, UserMessage
  <2>3. new \in Seq(Message) /\ Len(new) = 1 /\ new[1].from = "prompt"
    BY <2>2
  <2>4. RunLoop(new, steeringQueue, FALSE) /\ followUpQueue' = followUpQueue
    BY <1>1 DEF Prompt
  <2> HIDE DEF new
  <2>5. \A k \in 1..Len(new) : new[k].from = "prompt"
    BY <2>3
  <2>6. FromUser(new)
    <3>1. new[1].role = "user"
      BY DEF new, User
    <3>2. QED BY <2>3, <3>1 DEF FromUser
  <2>7. IdsFrom("steer", new) = <<>> /\ IdsFrom("followUp", new) = <<>>
    <3>1. /\ \A k \in 1..Len(new) : ~(new[k].role = "user" /\ new[k].from = "steer")
          /\ \A k \in 1..Len(new) : ~(new[k].role = "user" /\ new[k].from = "followUp")
      BY <2>5
    <3>2. QED BY <2>3, <3>1, IdsFromOthers
  <2>8. /\ IdsFrom("steer", new) \o steeringQueue = steeringQueue
        /\ IdsFrom("followUp", new) \o followUpQueue' = followUpQueue
    BY <1>0, <2>4, <2>7, IdsNothing
  <2>9. Announces(new)
    BY <1>0, <2>3, <2>4, <2>6, StartLists
  <2>10. QED BY <1>0, <2>3, <2>4, <2>8, <2>9, StartDelivers
<1>2. CASE Continue
  <2>1. CASE RunLoop(<<>>, steeringQueue, FALSE) /\ followUpQueue' = followUpQueue
    <3>1. <<>> \in Seq(Message) /\ FromUser(<<>>)
      BY DEF FromUser
    <3>2. \A from : IdsFrom(from, <<>>) = <<>>
      BY NothingFrom
    <3>3. /\ IdsFrom("steer", <<>>) \o steeringQueue = steeringQueue
          /\ IdsFrom("followUp", <<>>) \o followUpQueue' = followUpQueue
      BY <1>0, <2>1, <3>2, IdsNothing
    <3>4. Announces(<<>>)
      BY <1>0, <2>1, <3>1, StartLists
    <3>5. QED BY <1>0, <2>1, <3>1, <3>3, <3>4, StartDelivers
  <2>2. CASE /\ RunLoop(Messages("steer", Dequeued(SteeringMode, steeringQueue)),
                        Remaining(SteeringMode, steeringQueue), TRUE)
             /\ followUpQueue' = followUpQueue
    <3> DEFINE ids == Dequeued(SteeringMode, steeringQueue)
               queue == Remaining(SteeringMode, steeringQueue)
               new == Messages("steer", ids)
    <3>1. ids \in Seq(Nat) /\ queue \in Seq(Nat) /\ ids \o queue = steeringQueue
      BY <1>0, DequeuedTypes, DequeuedAgain
    <3>2. RunLoop(new, queue, TRUE)
      BY <2>2
    <3> HIDE DEF ids, queue
    <3>3. new \in Seq(Message) /\ FromUser(new)
      BY <3>1, MessagesType DEF Origins
    <3>4. IdsFrom("steer", new) = ids /\ IdsFrom("followUp", new) = <<>>
      BY <3>1, IdsFromMessages DEF Origins
    <3> HIDE DEF new
    <3>5. /\ IdsFrom("steer", new) \o queue = steeringQueue
          /\ IdsFrom("followUp", new) \o followUpQueue' = followUpQueue
      BY <1>0, <2>2, <3>1, <3>4, IdsNothing
    <3>6. Announces(new)
      BY <1>0, <3>1, <3>2, <3>3, StartLists
    <3>7. QED BY <1>0, <3>1, <3>2, <3>3, <3>5, <3>6, StartDelivers
  <2>3. CASE /\ RunLoop(Messages("followUp", Dequeued(FollowUpMode, followUpQueue)),
                        steeringQueue, FALSE)
             /\ followUpQueue' = Remaining(FollowUpMode, followUpQueue)
    <3> DEFINE ids == Dequeued(FollowUpMode, followUpQueue)
               new == Messages("followUp", ids)
    <3>1. ids \in Seq(Nat) /\ ids \o followUpQueue' = followUpQueue
      BY <1>0, <2>3, DequeuedTypes, DequeuedAgain
    <3>2. RunLoop(new, steeringQueue, FALSE)
      BY <2>3
    <3> HIDE DEF ids
    <3>3. new \in Seq(Message) /\ FromUser(new)
      BY <3>1, MessagesType DEF Origins
    <3>4. IdsFrom("steer", new) = <<>> /\ IdsFrom("followUp", new) = ids
      BY <3>1, IdsFromMessages DEF Origins
    <3> HIDE DEF new
    <3>5. /\ IdsFrom("steer", new) \o steeringQueue = steeringQueue
          /\ IdsFrom("followUp", new) \o followUpQueue' = followUpQueue
      BY <1>0, <3>1, <3>4, IdsNothing
    <3>6. Announces(new)
      BY <1>0, <3>2, <3>3, StartLists
    <3>7. QED BY <1>0, <3>2, <3>3, <3>5, <3>6, StartDelivers
  <2>4. QED BY <1>2, <2>1, <2>2, <2>3 DEF Continue
<1>3. QED BY <1>1, <1>2

(* A turn ends with the interrupt of its batch, or else with a poll.       *)
LEMMA TurnDelivers ==
    ASSUME Types, QueueTypes', Lists, Lists', NothingPending, MessagesDelivered,
           pc # "top", taken = <<>>, taken' = <<>>, steeringMessages' = <<>>,
           NEW ids \in Seq(Nat), ids = steeringMessages,
           NEW ranTools \in BOOLEAN, EndTurn(ids, ranTools),
           NEW t, Announces(t), \A k \in 1..Len(t) : t[k].role # "user",
           UNCHANGED <<accepted, acceptedFollowUps, followUpQueue>>
    PROVE  MessagesDelivered'
<1>1. /\ steeringMessages \in Seq(Nat) /\ steeringQueue \in Seq(Nat)
      /\ steeringQueue' \in Seq(Nat) /\ followUpQueue \in Seq(Nat)
  BY DEF Types, QueueTypes
<1>2. \E d \in Seq(Nat) :
          /\ pending' = Messages("steer", d)
          /\ d \o steeringQueue' = steeringMessages \o steeringQueue
  <2>1. CASE ids # <<>>
    BY <1>1, <2>1 DEF EndTurn
  <2>2. CASE ids = <<>>
    <3>1. /\ Dequeued(SteeringMode, steeringQueue) \in Seq(Nat)
          /\ Dequeued(SteeringMode, steeringQueue) \o Remaining(SteeringMode, steeringQueue)
                 = steeringQueue
      BY <1>1, DequeuedTypes, DequeuedAgain
    <3>2. steeringMessages \o steeringQueue = steeringQueue
      BY <1>1, <2>2, IdsNothing
    <3>3. /\ pending' = Messages("steer", Dequeued(SteeringMode, steeringQueue))
          /\ steeringQueue' = Remaining(SteeringMode, steeringQueue)
      BY <2>2 DEF EndTurn
    <3>4. QED BY <3>1, <3>2, <3>3
  <2>3. QED BY <2>1, <2>2
<1>3. PICK d \in Seq(Nat) :
          /\ pending' = Messages("steer", d)
          /\ d \o steeringQueue' = steeringMessages \o steeringQueue
  BY <1>2
<1>4. IdsFrom("steer", pending') = d /\ IdsFrom("followUp", pending') = <<>>
  BY <1>3, IdsFromMessages DEF Origins
<1>5. IdsFrom("steer", t) = <<>> /\ IdsFrom("followUp", t) = <<>>
  <2>1. t \in Seq(Message)
    BY DEF Announces
  <2>2. QED BY <2>1, IdsFromOthers
<1>6. <<>> \o d \o steeringQueue' = steeringMessages \o steeringQueue
  <2>1. <<>> \o d = d
    BY IdsNothing
  <2>2. QED BY <1>3, <2>1
<1>7. <<>> \o <<>> \o followUpQueue' = followUpQueue
  <2>1. <<>> \o followUpQueue = followUpQueue /\ <<>> \o <<>> = <<>>
    BY <1>1, IdsNothing
  <2>2. QED BY <2>1
<1>8. HandsOver(t, d, <<>>)
  BY <1>4, <1>5, <1>6, <1>7 DEF HandsOver, NothingPending
<1>9. <<>> \in Seq(Nat)
  OBVIOUS
<1>10. QED BY <1>8, <1>9, HandedOver

LEMMA YieldDelivers ==
    ASSUME Types, QueueTypes', Lists, Lists', Polling, NothingPending, MessagesDelivered, Yield
    PROVE  MessagesDelivered'
<1> DEFINE d == Dequeued(FollowUpMode, followUpQueue)
<1>1. /\ pc = "yield" /\ pending' = Messages("followUp", d)
      /\ followUpQueue' = Remaining(FollowUpMode, followUpQueue)
      /\ UNCHANGED <<steeringQueue, accepted, acceptedFollowUps, taken, steeringMessages>>
  BY DEF Yield, batchVars
<1>2. d \in Seq(Nat) /\ d \o followUpQueue' = followUpQueue /\ steeringQueue \in Seq(Nat)
  BY <1>1, DequeuedTypes, DequeuedAgain DEF Types, QueueTypes
<1> HIDE DEF d
<1>3. IdsFrom("followUp", pending') = d /\ IdsFrom("steer", pending') = <<>>
  BY <1>1, <1>2, IdsFromMessages DEF Origins
<1>4. Announces(<<>>)
  BY YieldLists
<1>5. IdsFrom("steer", <<>>) = <<>> /\ IdsFrom("followUp", <<>>) = <<>>
  BY NothingFrom
<1>6. <<>> \o <<>> \o steeringQueue' = steeringMessages \o steeringQueue
  <2>1. <<>> \o steeringQueue = steeringQueue /\ <<>> \o <<>> = <<>>
    BY <1>2, IdsNothing
  <2>2. QED BY <1>1, <2>1, BetweenBatches
<1>7. <<>> \o d \o followUpQueue' = followUpQueue
  <2>1. <<>> \o d = d
    BY <1>2, IdsNothing
  <2>2. QED BY <1>2, <2>1
<1>8. HandsOver(<<>>, <<>>, d)
  <2>1. taken = <<>> /\ steeringMessages = <<>> /\ pending = <<>>
    BY <1>1, BetweenBatches DEF NothingPending
  <2>2. QED BY <1>1, <1>3, <1>4, <1>5, <1>6, <1>7, <2>1 DEF HandsOver
<1>9. <<>> \in Seq(Nat)
  OBVIOUS
<1>10. QED BY <1>2, <1>8, <1>9, HandedOver

(* What was said and what is held or queued, taken together.               *)
Held == steeringMessages \o taken

LEMMA DeliveredIs ==
    ASSUME Types, Lists
    PROVE  /\ Said("steer") \o Held \in Seq(Nat)
           /\ MessagesDelivered <=>
                  /\ (Said("steer") \o Held) \o steeringQueue = accepted
                  /\ Said("followUp") \o followUpQueue = acceptedFollowUps
<1> DEFINE s == Said("steer")
<1>1. s \in Seq(Nat) /\ steeringMessages \in Seq(Nat) /\ taken \in Seq(Nat)
  BY SaidType DEF Types, QueueTypes
<1>2. MessagesDelivered <=>
          /\ s \o steeringMessages \o taken \o steeringQueue = accepted
          /\ Said("followUp") \o followUpQueue = acceptedFollowUps
  BY DEF MessagesDelivered, Said
<1> HIDE DEF s
<1>3. (s \o steeringMessages) \o taken = s \o (steeringMessages \o taken)
  BY <1>1, IdsAssociative, ZenonT(60)
<1>4. s \o Held \in Seq(Nat)
  BY <1>1 DEF Held
<1>5. QED BY <1>2, <1>3, <1>4 DEF Held, s

(* The user queues and withdraws at the end of the queues.                 *)
LEMMA UserDelivers ==
    ASSUME Types, Lists, MessagesDelivered, UNCHANGED batchVars,
           Said("steer")' = Said("steer"), Said("followUp")' = Said("followUp"),
           Steer \/ FollowUp \/ PopLastSteer \/ PopLastFollowUp \/ ClearAllQueues
    PROVE  MessagesDelivered'
<1> DEFINE h == Said("steer") \o Held
           f == Said("followUp")
<1>1. /\ h \in Seq(Nat) /\ h \o steeringQueue = accepted
      /\ f \in Seq(Nat) /\ f \o followUpQueue = acceptedFollowUps
      /\ steeringQueue \in Seq(Nat) /\ followUpQueue \in Seq(Nat)
      /\ accepted \in Seq(Nat) /\ acceptedFollowUps \in Seq(Nat)
  BY DeliveredIs, SaidType DEF Types, QueueTypes
<1>2. ASSUME h \o steeringQueue' = accepted', f \o followUpQueue' = acceptedFollowUps'
      PROVE  MessagesDelivered'
  <2>1. MessagesDelivered' <=>
            /\ Said("steer")' \o steeringMessages' \o taken' \o steeringQueue' = accepted'
            /\ Said("followUp")' \o followUpQueue' = acceptedFollowUps'
    BY DEF MessagesDelivered, Said
  <2>2. steeringMessages' = steeringMessages /\ taken' = taken
    BY DEF batchVars
  <2>3. (Said("steer") \o steeringMessages) \o taken = h
    <3> DEFINE s == Said("steer")
    <3>1. s \in Seq(Nat) /\ steeringMessages \in Seq(Nat) /\ taken \in Seq(Nat)
      BY SaidType DEF Types, QueueTypes
    <3> HIDE DEF s
    <3>2. (s \o steeringMessages) \o taken = s \o (steeringMessages \o taken)
      BY <3>1, IdsAssociative, ZenonT(60)
    <3>3. QED BY <3>2 DEF s, Held
  <2> HIDE DEF h
  <2>4. QED BY <1>2, <2>1, <2>2, <2>3
<1> HIDE DEF h, f
<1>3. Len(accepted) + 1 \in Nat /\ Len(acceptedFollowUps) + 1 \in Nat
  BY <1>1
<1>4. CASE Steer
  <2>1. /\ steeringQueue' = Append(steeringQueue, Len(accepted) + 1)
        /\ accepted' = Append(accepted, Len(accepted) + 1)
        /\ UNCHANGED <<followUpQueue, acceptedFollowUps>>
    BY <1>4 DEF Steer, Batch!Steer
  <2>2. h \o steeringQueue' = accepted'
    BY <1>1, <1>3, <2>1, NewestQueued, ZenonT(60)
  <2>3. QED BY <1>1, <1>2, <2>1, <2>2
<1>5. CASE FollowUp
  <2>1. /\ followUpQueue' = Append(followUpQueue, Len(acceptedFollowUps) + 1)
        /\ acceptedFollowUps' = Append(acceptedFollowUps, Len(acceptedFollowUps) + 1)
        /\ UNCHANGED <<steeringQueue, accepted>>
    BY <1>5 DEF FollowUp
  <2>2. f \o followUpQueue' = acceptedFollowUps'
    BY <1>1, <1>3, <2>1, NewestQueued, ZenonT(60)
  <2>3. QED BY <1>1, <1>2, <2>1, <2>2
<1>6. CASE PopLastSteer
  <2>1. /\ steeringQueue # <<>> /\ steeringQueue' = WithoutLast(steeringQueue)
        /\ accepted' = WithoutLast(accepted) /\ UNCHANGED <<followUpQueue, acceptedFollowUps>>
    BY <1>6 DEF PopLastSteer, Batch!PopLastSteer, WithoutLast, Batch!WithoutLast
  <2>2. h \o steeringQueue' = accepted'
    BY <1>1, <2>1, NewestWithdrawn
  <2>3. QED BY <1>1, <1>2, <2>1, <2>2
<1>7. CASE PopLastFollowUp
  <2>1. /\ followUpQueue # <<>> /\ followUpQueue' = WithoutLast(followUpQueue)
        /\ acceptedFollowUps' = WithoutLast(acceptedFollowUps)
        /\ UNCHANGED <<steeringQueue, accepted>>
    BY <1>7 DEF PopLastFollowUp
  <2>2. f \o followUpQueue' = acceptedFollowUps'
    BY <1>1, <2>1, NewestWithdrawn
  <2>3. QED BY <1>1, <1>2, <2>1, <2>2
<1>8. CASE ClearAllQueues
  <2>1. /\ steeringQueue' = <<>> /\ followUpQueue' = <<>>
        /\ accepted' = SubSeq(accepted, 1, Len(accepted) - Len(steeringQueue))
        /\ acceptedFollowUps' =
               SubSeq(acceptedFollowUps, 1, Len(acceptedFollowUps) - Len(followUpQueue))
    BY <1>8 DEF ClearAllQueues
  <2>2. accepted' = h /\ acceptedFollowUps' = f
    BY <1>1, <2>1, AllWithdrawn
  <2>3. h \o <<>> = h /\ f \o <<>> = f
    BY <1>1, IdsNothing
  <2>4. QED BY <1>2, <2>1, <2>2, <2>3
<1>9. QED BY <1>4, <1>5, <1>6, <1>7, <1>8

(* A step that neither says nor queues anything.                           *)
LEMMA QuietDelivers ==
    ASSUME Lists, Lists', MessagesDelivered,
           NEW t, Announces(t), \A k \in 1..Len(t) : t[k].role # "user", pending' = pending,
           UNCHANGED <<queueVars, steeringMessages, taken>>
    PROVE  MessagesDelivered'
<1>1. Said("steer")' = Said("steer") /\ Said("followUp")' = Said("followUp")
  BY NothingSaid
<1>2. QED BY <1>1 DEF MessagesDelivered, Said, queueVars

LEMMA BatchDelivers ==
    ASSUME Types, QueueTypes', Lists, Lists', MessagesDelivered,
           Said("steer")' = Said("steer"), Said("followUp")' = Said("followUp"),
           InTheBatch' = InTheBatch,
           UNCHANGED <<accepted, acceptedFollowUps, followUpQueue>>
    PROVE  MessagesDelivered'
<1> DEFINE s == Said("steer")
           p == steeringMessages'
           q == taken'
           r == steeringQueue'
<1>1. s \in Seq(Nat) /\ p \in Seq(Nat) /\ q \in Seq(Nat) /\ r \in Seq(Nat)
  BY SaidType DEF QueueTypes
<1>2. steeringMessages \in Seq(Nat) /\ taken \in Seq(Nat) /\ steeringQueue \in Seq(Nat)
  BY DEF Types, QueueTypes
<1>3. MessagesDelivered' <=>
          /\ s \o p \o q \o r = accepted
          /\ Said("followUp") \o followUpQueue = acceptedFollowUps
  BY DEF MessagesDelivered, Said
<1>4. /\ s \o steeringMessages \o taken \o steeringQueue = accepted
      /\ Said("followUp") \o followUpQueue = acceptedFollowUps
  BY DEF MessagesDelivered, Said
<1>5. (p \o q) \o r = (steeringMessages \o taken) \o steeringQueue
  BY DEF InTheBatch
<1> HIDE DEF s, p, q, r
<1>6. (s \o p \o q) \o r = s \o ((p \o q) \o r)
  <2> DEFINE x == p \o q
  <2>1. s \in Seq(Nat) /\ p \in Seq(Nat) /\ q \in Seq(Nat)
    BY <1>1
  <2>2. (s \o p) \o q = s \o (p \o q)
    BY <2>1, IdsAssociative, ZenonT(60)
  <2>3. s \in Seq(Nat) /\ x \in Seq(Nat) /\ r \in Seq(Nat)
    BY <1>1
  <2> HIDE DEF x
  <2>4. (s \o x) \o r = s \o (x \o r)
    BY <2>3, IdsAssociative, ZenonT(60)
  <2>5. QED BY <2>2, <2>4, Zenon DEF x
<1>7. (s \o steeringMessages \o taken) \o steeringQueue = s \o ((steeringMessages \o taken) \o steeringQueue)
  <2> DEFINE x == steeringMessages \o taken
  <2>1. s \in Seq(Nat) /\ steeringMessages \in Seq(Nat) /\ taken \in Seq(Nat)
    BY <1>1, <1>2
  <2>2. (s \o steeringMessages) \o taken = s \o (steeringMessages \o taken)
    BY <2>1, IdsAssociative, ZenonT(60)
  <2>3. s \in Seq(Nat) /\ x \in Seq(Nat) /\ steeringQueue \in Seq(Nat)
    BY <1>1, <1>2
  <2> HIDE DEF x
  <2>4. (s \o x) \o steeringQueue = s \o (x \o steeringQueue)
    BY <2>3, IdsAssociative, ZenonT(60)
  <2>5. QED BY <2>2, <2>4, Zenon DEF x
<1>8. QED BY <1>3, <1>4, <1>5, <1>6, <1>7, Zenon

LEMMA DeliveryStep ==
    ASSUME Types, QueueTypes', Lists, Lists', Polling, NothingPending, MessagesDelivered,
           [Next]_vars
    PROVE  MessagesDelivered'
<1> USE DEF agentVars, queueVars, retryVars, loopVars, batchVars
<1>0. \A k \in 1..Len(<<>>) : <<>>[k].role # "user"
  OBVIOUS
<1>1. CASE Prompt \/ Continue
  BY <1>1, CallerDelivers
<1>2. CASE Responds
  <2>1. PICK m \in AssistantMessage : Receive(m)
    BY <1>2, ResponseReceived
  <2>2. pc = "model" /\ Announces(<<m>>)
    BY <1>2, <2>1, ResponseReceived, ReceiveLists
  <2>3. pending' = pending /\ UNCHANGED <<queueVars, steeringMessages, taken>>
    BY <2>1 DEF Receive
  <2>4. \A k \in 1..Len(<<m>>) : <<m>>[k].role # "user"
    <3>1. m.role = "assistant"
      BY UserByRole
    <3>2. QED BY <3>1
  <2>5. QED BY <2>2, <2>3, <2>4, QuietDelivers
<1>3. CASE InjectPending
  <2>1. Announces(pending) /\ pending' = <<>>
        /\ UNCHANGED <<queueVars, steeringMessages, taken>>
    BY <1>3, InjectLists DEF InjectPending
  <2>2. Announced \in Seq(Message) /\ pending \in Seq(Message)
    BY AnnouncedType DEF Lists, ListTypes
  <2>3. Announced' \o pending' = Announced \o pending
    <3>1. (Announced \o pending) \o <<>> = Announced \o pending
      BY <2>2
    <3>2. QED BY <2>1, <3>1 DEF Announces
  <2>4. QED BY <2>1, <2>3 DEF MessagesDelivered
<1>4. CASE StopTurn \/ PassTurn
  <2>1. Announces(Placeholders(answer.calls)) /\ pc = "turn"
    BY <1>4, StopLists, PassLists
  <2>2. answer.calls \in CallCounts
    BY DEF Lists, ListTypes, AssistantMessage
  <2> DEFINE t == Placeholders(answer.calls)
  <2>3. \A k \in 1..Len(t) : t[k].role # "user"
    BY <2>2, PlaceholdersType DEF IsResult
  <2> HIDE DEF t
  <2>4. CASE StopTurn
    <3>1. pending' = pending /\ UNCHANGED <<queueVars, steeringMessages, taken>>
      BY <2>4 DEF StopTurn
    <3>2. QED BY <2>1, <2>3, <3>1, QuietDelivers DEF t
  <2>5. CASE PassTurn
    <3>1. /\ UNCHANGED <<accepted, acceptedFollowUps, followUpQueue, taken, steeringMessages>>
          /\ taken = <<>> /\ steeringMessages = <<>> /\ FALSE \in BOOLEAN
      BY <2>1, <2>5, BetweenBatches DEF PassTurn
    <3>2. EndTurn(<<>>, FALSE)
      BY <2>5, Zenon DEF PassTurn
    <3>a. <<>> \in Seq(Nat)
      OBVIOUS
    <3>3. Announces(t)
      BY <2>1 DEF t
    <3>4. QED BY <2>1, <2>3, <3>1, <3>2, <3>3, <3>a, TurnDelivers
  <2>6. QED BY <1>4, <2>4, <2>5
<1>5. CASE RunTools
  <2>1. Announces(<<>>) /\ pending' = pending
        /\ UNCHANGED <<queueVars, steeringMessages, taken>>
    BY <1>5, RunToolsLists DEF RunTools, StartBatch
  <2>2. QED BY <1>0, <2>1, QuietDelivers
<1>6. CASE ToolStep
  <2>1. BatchAction /\ pc = "tools" /\ pc' = "tools" /\ ~returned /\ pending' = pending
        /\ UNCHANGED <<followUpQueue, acceptedFollowUps>>
    BY <1>6 DEF ToolStep, BatchAction
  <2>2. steeringMessages' \o taken' \o steeringQueue'
            = steeringMessages \o taken \o steeringQueue
    BY <2>1, BatchActionPolls DEF Types, InTheBatch
  <2>3. accepted' = accepted
    BY <2>1, BatchActionQueues DEF Types
  <2>4. PICK order \in InOrder(NewlyAnswered) : Announces(Results(order))
    BY <1>6, ToolLists
  <2> DEFINE t == Results(order)
  <2>5. \A k \in 1..Len(t) : t[k].role # "user"
    BY ResultsType DEF Types, BatchTypes, IsResult
  <2>6. Announces(t)
    BY <2>4
  <2> HIDE DEF t
  <2>7. Said("steer")' = Said("steer") /\ Said("followUp")' = Said("followUp")
    BY <2>1, <2>5, <2>6, NothingSaid
  <2>8. InTheBatch' = InTheBatch
    BY <2>2 DEF InTheBatch
  <2>9. QED BY <2>1, <2>3, <2>7, <2>8, BatchDelivers
<1>7. CASE FinishTools
  <2>1. /\ pc = "tools" /\ returned /\ Announces(<<>>)
        /\ UNCHANGED <<accepted, acceptedFollowUps, followUpQueue>>
        /\ taken' = <<>> /\ steeringMessages' = <<>>
        /\ EndTurn(steeringMessages, TRUE)
    BY <1>7, FinishToolsLists DEF FinishTools, ClearBatch
  <2>2. taken = <<>> /\ steeringMessages \in Seq(Nat) /\ TRUE \in BOOLEAN
    BY <2>1 DEF Polling, Types, QueueTypes
  <2>3. QED BY <1>0, <2>1, <2>2, TurnDelivers
<1>8. CASE Yield
  BY <1>8, YieldDelivers
<1>9. CASE Consume \/ FinishRun
  <2>1. pending' = pending /\ UNCHANGED <<queueVars, steeringMessages, taken>>
    BY <1>9 DEF Consume, FinishRun
  <2>2. \/ Announces(<<>>)
        \/ \E m \in AssistantMessage : Announces(<<m>>)
    BY <1>9, ConsumeLists, FinishRunLists
  <2>3. ASSUME NEW m \in AssistantMessage
        PROVE  \A k \in 1..Len(<<m>>) : <<m>>[k].role # "user"
    BY UserByRole
  <2>4. QED BY <1>0, <2>1, <2>2, <2>3, QuietDelivers
<1>10. CASE Elsewhere
  <2>1. Announces(<<>>) /\ pending' = pending /\ UNCHANGED batchVars
    BY <1>10, ElsewhereLists, BatchElsewhere
  <2>2. CASE Steer \/ FollowUp \/ PopLastSteer \/ PopLastFollowUp \/ ClearAllQueues
    <3>1. Said("steer")' = Said("steer") /\ Said("followUp")' = Said("followUp")
      BY <1>0, <2>1, NothingSaid
    <3>2. QED BY <2>1, <2>2, <3>1, UserDelivers
  <2>3. CASE StartResponse \/ RetryHarmonyLeak \/ Throw \/ Abort \/ UNCHANGED vars
    <3>1. UNCHANGED queueVars
      BY <2>3 DEF StartResponse, RetryHarmonyLeak, PopLeaked, Throw, Abort, vars
    <3>2. QED BY <1>0, <2>1, <3>1, QuietDelivers
  <2>4. QED BY <1>10, <2>2, <2>3 DEF Elsewhere
<1>11. QED BY <1>1, <1>2, <1>3, <1>4, <1>5, <1>6, <1>7, <1>8, <1>9, <1>10, StepCases

(* No steering or follow-up message the user queued and did not withdraw   *)
(* is lost, repeated or overtaken by another of its kind, whatever poll    *)
(* takes it, whichever batch it interrupts and however turns and runs end. *)
THEOREM MessagesAreDelivered == Spec => []MessagesDelivered
<1> DEFINE DInv == Polling /\ NothingPending /\ MessagesDelivered
<1>1. Init => DInv
  <2> SUFFICES ASSUME Init PROVE DInv
    OBVIOUS
  <2>1. Polling /\ NothingPending
    BY DEF Init, NoBatch, Polling, NothingPending
  <2>2. Announced = <<>> /\ pending = <<>>
    <3>1. messages = <<>> /\ events = <<>> /\ pending = <<>>
      BY DEF Init
    <3>2. <<>> \in Seq(Message) /\ <<>> \o <<>> = <<>>
      OBVIOUS
    <3>3. QED BY <3>1, <3>2, EndedOf DEF Announced
  <2>3. IdsFrom("steer", Announced \o pending) = <<>>
        /\ IdsFrom("followUp", Announced \o pending) = <<>>
    <3>1. <<>> \o <<>> = <<>>
      OBVIOUS
    <3>2. QED BY <2>2, <3>1, NothingFrom
  <2>4. /\ steeringQueue = <<>> /\ followUpQueue = <<>> /\ accepted = <<>>
        /\ acceptedFollowUps = <<>> /\ steeringMessages = <<>> /\ taken = <<>>
    BY DEF Init, NoBatch
  <2>5. MessagesDelivered
    BY <2>3, <2>4 DEF MessagesDelivered
  <2>6. QED BY <2>1, <2>5
<1>2. (Types /\ Lists) /\ (Types /\ Lists)' /\ DInv /\ [Next]_vars => DInv'
  BY PollingStep, PendingStep, DeliveryStep DEF Types
<1>3. DInv => MessagesDelivered
  OBVIOUS
<1>4. QED BY <1>1, <1>2, <1>3, ListsHold, PTL DEF Spec
=============================================================================
