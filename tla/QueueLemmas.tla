----------------------------- MODULE QueueLemmas -----------------------------
(***************************************************************************)
(* Facts about a queue kept in a sequence, for the proofs about the task   *)
(* queue of the pool and of the service: its members and their being       *)
(* distinct, after a push at the back and after a pop at the front.        *)
(***************************************************************************)
EXTENDS Integers, Sequences, TLAPS

Members(s) == {s[i] : i \in DOMAIN s}
Distinct(s) == \A i, j \in DOMAIN s : s[i] = s[j] => i = j

\* push: std::queue::emplace in ThreadPool::enqueue.
LEMMA PushMembers ==
    ASSUME NEW S, NEW s \in Seq(S), NEW x \in S
    PROVE  /\ Append(s, x) \in Seq(S)
           /\ Members(Append(s, x)) = Members(s) \cup {x}
           /\ Distinct(s) /\ x \notin Members(s) => Distinct(Append(s, x))
<1> DEFINE a == Append(s, x)
<1>1. a \in Seq(S) /\ Len(s) \in Nat /\ Len(a) = Len(s) + 1
  OBVIOUS
<1>2. a[Len(s) + 1] = x /\ \A i \in 1..Len(s) : a[i] = s[i]
  OBVIOUS
<1>3. DOMAIN a = 1..(Len(s) + 1) /\ DOMAIN s = 1..Len(s)
  BY <1>1
<1> HIDE DEF a
<1>4. Members(a) = Members(s) \cup {x}
  BY <1>1, <1>2, <1>3 DEF Members
<1>5. ASSUME Distinct(s), x \notin Members(s), NEW i \in DOMAIN a, NEW j \in DOMAIN a,
             a[i] = a[j]
      PROVE  i = j
  <2>1. \A m \in DOMAIN a : m \in DOMAIN s \/ m = Len(s) + 1
    BY <1>1, <1>3
  <2>2. \A m \in DOMAIN s : a[m] = s[m] /\ s[m] # x
    BY <1>2, <1>3, <1>5 DEF Members
  <2>3. QED
    BY <1>2, <1>5, <2>1, <2>2 DEF Distinct
<1>6. QED
  BY <1>1, <1>4, <1>5 DEF Distinct, a

\* pop: front and pop of the worker loop.
LEMMA PopMembers ==
    ASSUME NEW S, NEW s \in Seq(S), s # <<>>
    PROVE  /\ Tail(s) \in Seq(S) /\ Head(s) \in S
           /\ Members(s) = Members(Tail(s)) \cup {Head(s)}
           /\ Distinct(s) => Distinct(Tail(s)) /\ Head(s) \notin Members(Tail(s))
<1> DEFINE t == Tail(s)
<1>1. /\ t \in Seq(S) /\ Head(s) \in S /\ Head(s) = s[1]
      /\ Len(s) \in Nat \ {0} /\ Len(t) = Len(s) - 1
  OBVIOUS
<1>2. \A i \in 1..(Len(s) - 1) : t[i] = s[i + 1]
  OBVIOUS
<1>3. DOMAIN t = 1..(Len(s) - 1) /\ DOMAIN s = 1..Len(s)
  BY <1>1
<1> HIDE DEF t
<1>4. Members(s) = Members(t) \cup {Head(s)}
  <2>1. \A i \in DOMAIN s : s[i] \in Members(t) \cup {Head(s)}
    <3> TAKE i \in DOMAIN s
    <3>1. CASE i = 1
      BY <3>1, <1>1
    <3>2. CASE i # 1
      <4>1. i - 1 \in DOMAIN t /\ t[i - 1] = s[i]
        BY <3>2, <1>1, <1>2, <1>3
      <4>2. QED
        BY <4>1 DEF Members
    <3>3. QED
      BY <3>1, <3>2
  <2>2. Members(t) \subseteq Members(s) /\ Head(s) \in Members(s)
    BY <1>1, <1>2, <1>3 DEF Members
  <2>3. QED
    BY <2>1, <2>2 DEF Members
<1>5. Distinct(s) => Distinct(t) /\ Head(s) \notin Members(t)
  <2> SUFFICES ASSUME Distinct(s)
               PROVE  Distinct(t) /\ Head(s) \notin Members(t)
    OBVIOUS
  <2>1. \A i \in DOMAIN t : i + 1 \in DOMAIN s /\ i + 1 # 1 /\ t[i] = s[i + 1]
    BY <1>1, <1>2, <1>3
  <2>2. \A i, j \in DOMAIN t : t[i] = t[j] => i = j
    BY <2>1, <1>3 DEF Distinct
  <2>3. \A i \in DOMAIN t : t[i] # Head(s)
    BY <2>1, <1>1, <1>3 DEF Distinct
  <2>4. QED
    BY <2>2, <2>3 DEF Distinct, Members
<1>6. QED
  BY <1>1, <1>4, <1>5 DEF t

=============================================================================
