------------------------- MODULE ServiceControlProofs -------------------------
(***************************************************************************)
(* Proofs about ServiceControl, for every number of callers, process       *)
(* numbers and crashes, and every subset of the commands.                  *)
(***************************************************************************)
EXTENDS ServiceControl, FiniteSetTheorems, SequenceTheorems, WellFoundedInduction, TLAPS

(***************************************************************************)
(* The scripts                                                             *)
(***************************************************************************)
StopSteps == {"no-web", "peek", "term", "kill", "remove", "pkill-f", "pkill-x", "rm", "look"}

Plain == (StopSteps \ {"no-web"}) \cup {"check", "clean", "daemon", "else", "truncate", "write", "web"}

Steps == Plain \cup {"lock", "no-web"}

Controls == {"control-stop", "control-restart"}

\* Step y may follow step x in a script.
Joins(x, y) ==
    /\ y \in {"clean", "term"} => x = "peek"
    /\ y = "kill" => x = "term"
    /\ y = "remove" => x = "kill"
    /\ y = "rm" => x = "pkill-x"
    /\ y = "else" => x = "daemon"

Chained(s) == \A i \in 2..Len(s) : Joins(s[i - 1], s[i])

\* The steps no script begins with.
Inner == {"clean", "term", "kill", "remove", "rm", "else"}

Has(s, step) == \E i \in 1..Len(s) : s[i] = step

Heads(s, steps) == s # <<>> /\ Head(s) \in steps

\* A start always comes to its daemon(8), after which it does nothing more.
Ahead(s) ==
    \A i \in 1..Len(s) : s[i] \notin {"daemon", "else", "web"} =>
        \E j \in (i + 1)..Len(s) : s[j] = "daemon"

\* s is what is left of t.
Rest(s, t) == Len(s) <= Len(t) /\ \A i \in 1..Len(s) : s[i] = t[Len(t) - Len(s) + i]

(***************************************************************************)
(* The inductive invariant                                                 *)
(***************************************************************************)
Todos ==
    /\ todo \in [Callers -> Seq(Steps)]
    /\ \A c \in Callers : cmd[c] = "orphan" => todo[c] \in Seq(Plain)
    /\ \A c \in Callers : cmd[c] = "failed-save" => todo[c] = <<>>

\* A POST is before its Lock or has the mutex.
LockFirst ==
    \A c \in Callers : cmd[c] \in Posts =>
        mu = c \/ (cmd[c] \in Commands /\ todo[c] = Script(cmd[c]))

Solo ==
    /\ tame => \A c \in Callers :
                 /\ cmd[c] # "orphan"
                 /\ \A d \in Callers \ {c} :
                      cmd[c] # "none" /\ cmd[d] # "none" => {cmd[c], cmd[d]} \subseteq Posts
    /\ \A c \in Callers : alone[c] =>
         cmd[c] # "none" /\ \A d \in Callers \ {c} : cmd[d] = "none"

\* The one whose steps nobody else's come between.
Master(c) ==
    /\ cmd[c] \in Commands /\ (tame \/ alone[c])
    /\ cmd[c] \in Posts => mu = c

\* What a caller has read still holds where it relies on it.
Knows(c) ==
    Master(c) =>
        /\ Heads(todo[c], {"clean", "term", "kill", "remove"}) => file \in {seen[c], NoPid}
        /\ Heads(todo[c], {"remove"}) => seen[c] \notin up
        /\ Heads(todo[c], {"rm"}) => up = {}

Clears(c) ==
    alone[c] /\ cmd[c] \in Stops =>
        /\ Has(todo[c], "remove") \/ file = NoPid
        /\ Has(todo[c], "pkill-f") \/ up = {}

Brings(c) ==
    Master(c) /\ tame /\ cmd[c] \in Starts /\ last # "crash" =>
        \/ Has(todo[c], "daemon") /\ ~Heads(todo[c], {"else"})
        \/ up # {} \/ ~whole

\* The configuration just saved is what the instance of the restart reads.
Saves(c) ==
    Master(c) /\ tame /\ cmd[c] = "save-and-restart" =>
        /\ Len(todo[c]) <= 9 => whole
        /\ Len(todo[c]) \in 1..4 => up = {}
        /\ todo[c] = <<>> /\ last # "crash" => up # {} /\ up = fresh

One == tame => up \subseteq {file}

ServiceInv ==
    /\ ServiceTypeOK /\ Todos /\ LockFirst /\ Solo /\ One
    /\ \A c \in Callers : Knows(c) /\ Clears(c) /\ Brings(c) /\ Saves(c)
    /\ Started

-----------------------------------------------------------------------------
(***************************************************************************)
(* Sequences                                                               *)
(***************************************************************************)
LEMMA SliceFacts ==
    ASSUME NEW T, NEW s \in Seq(T), NEW n \in 1..(Len(s) + 1)
    PROVE  /\ SubSeq(s, n, Len(s)) \in Seq(T) /\ Len(SubSeq(s, n, Len(s))) = Len(s) - n + 1
           /\ \A k \in 1..(Len(s) - n + 1) : SubSeq(s, n, Len(s))[k] = s[n + k - 1]
<1>1. n \in Int /\ Len(s) \in Int /\ \A k \in n..Len(s) : s[k] \in T
  OBVIOUS
<1>2. /\ SubSeq(s, n, Len(s)) \in Seq(T)
      /\ Len(SubSeq(s, n, Len(s))) = IF n <= Len(s) THEN Len(s) - n + 1 ELSE 0
      /\ \A k \in 1..(Len(s) - n + 1) : SubSeq(s, n, Len(s))[k] = s[n + k - 1]
  BY <1>1, SubSeqProperties
<1>3. QED
  BY <1>1, <1>2

\* The beginning of a sequence.
LEMMA InitialFacts ==
    ASSUME NEW T, NEW s \in Seq(T), NEW n \in 0..Len(s)
    PROVE  /\ SubSeq(s, 1, n) \in Seq(T) /\ Len(SubSeq(s, 1, n)) = n
           /\ \A k \in 1..n : SubSeq(s, 1, n)[k] = s[k]
<1>1. 1 \in Int /\ n \in Int /\ (\A k \in 1..n : s[k] \in T) /\ n - 1 + 1 = n
  OBVIOUS
<1>2. /\ SubSeq(s, 1, n) \in Seq(T)
      /\ Len(SubSeq(s, 1, n)) = IF 1 <= n THEN n - 1 + 1 ELSE 0
      /\ \A k \in 1..(n - 1 + 1) : SubSeq(s, 1, n)[k] = s[1 + k - 1]
  BY <1>1, SubSeqProperties
<1>3. ASSUME NEW k \in 1..n PROVE SubSeq(s, 1, n)[k] = s[k]
  <2>1. SubSeq(s, 1, n)[k] = s[1 + k - 1] /\ 1 + k - 1 = k
    BY <1>1, <1>2
  <2>2. QED
    BY <2>1
<1>4. QED
  BY <1>1, <1>2, <1>3

\* A sequence read backwards.
LEMMA ReverseFacts ==
    ASSUME NEW T, NEW s \in Seq(T)
    PROVE  /\ Reverse(s) \in Seq(T) /\ Len(Reverse(s)) = Len(s)
           /\ \A k \in 1..Len(s) : Reverse(s)[k] = s[Len(s) - k + 1]
BY DEF Reverse

\* IsSuffix says what is left.
LEMMA SuffixIsRest ==
    ASSUME NEW T, NEW s \in Seq(T), NEW t \in Seq(T)
    PROVE  IsSuffix(s, t) <=> Rest(s, t)
<1> DEFINE r == Reverse(s)
           u == Reverse(t)
           n == Len(s)
<1>1. n \in Nat /\ Len(t) \in Nat
  OBVIOUS
<1>2. /\ r \in Seq(T) /\ Len(r) = n /\ \A k \in 1..n : r[k] = s[n - k + 1]
      /\ u \in Seq(T) /\ Len(u) = Len(t) /\ \A k \in 1..Len(t) : u[k] = t[Len(t) - k + 1]
  BY ReverseFacts
<1>3. IsSuffix(s, t) <=> n <= Len(t) /\ SubSeq(r, 1, n) = SubSeq(u, 1, n)
  BY <1>2 DEF IsSuffix, IsPrefix
<1> HIDE DEF r, u
<1>4. SUFFICES ASSUME n <= Len(t)
               PROVE  SubSeq(r, 1, n) = SubSeq(u, 1, n) <=>
                        \A i \in 1..n : s[i] = t[Len(t) - n + i]
  BY <1>3, <1>4 DEF Rest
<1>5. n \in 0..Len(r) /\ n \in 0..Len(u)
  BY <1>1, <1>2, <1>4
<1>6. /\ SubSeq(r, 1, n) \in Seq(T) /\ Len(SubSeq(r, 1, n)) = n
      /\ SubSeq(u, 1, n) \in Seq(T) /\ Len(SubSeq(u, 1, n)) = n
      /\ \A k \in 1..n : SubSeq(r, 1, n)[k] = r[k] /\ SubSeq(u, 1, n)[k] = u[k]
  BY <1>2, <1>5, InitialFacts
<1>7. SubSeq(r, 1, n) = SubSeq(u, 1, n) <=> \A k \in 1..n : r[k] = u[k]
  <2>1. ASSUME \A k \in 1..n : r[k] = u[k] PROVE SubSeq(r, 1, n) = SubSeq(u, 1, n)
    <3>1. \A k \in 1..n : SubSeq(r, 1, n)[k] = SubSeq(u, 1, n)[k]
      BY <1>6, <2>1
    <3>2. QED
      BY <1>6, <3>1, SeqEqual
  <2>2. QED
    BY <1>6, <2>1
<1>8. (\A k \in 1..n : r[k] = u[k]) <=> \A k \in 1..n : s[n - k + 1] = t[Len(t) - k + 1]
  <2>1. \A k \in 1..n : r[k] = s[n - k + 1] /\ u[k] = t[Len(t) - k + 1]
    BY <1>1, <1>2, <1>4
  <2>2. QED
    BY <2>1
<1>9. (\A k \in 1..n : s[n - k + 1] = t[Len(t) - k + 1])
        <=> \A i \in 1..n : s[i] = t[Len(t) - n + i]
  <2>1. ASSUME \A k \in 1..n : s[n - k + 1] = t[Len(t) - k + 1], NEW i \in 1..n
        PROVE  s[i] = t[Len(t) - n + i]
    <3>1. n - i + 1 \in 1..n
      BY <1>1
    <3>2. s[n - (n - i + 1) + 1] = t[Len(t) - (n - i + 1) + 1]
      BY <2>1, <3>1
    <3>3. n - (n - i + 1) + 1 = i /\ Len(t) - (n - i + 1) + 1 = Len(t) - n + i
      BY <1>1
    <3>4. QED
      BY <3>2, <3>3
  <2>2. ASSUME \A i \in 1..n : s[i] = t[Len(t) - n + i], NEW k \in 1..n
        PROVE  s[n - k + 1] = t[Len(t) - k + 1]
    <3>1. n - k + 1 \in 1..n /\ Len(t) - n + (n - k + 1) = Len(t) - k + 1
      BY <1>1
    <3>2. QED
      BY <2>2, <3>1
  <2>3. QED
    BY <2>1, <2>2
<1>10. QED
  BY <1>7, <1>8, <1>9

\* What is left of what is left.
LEMMA SliceIsRest ==
    ASSUME NEW T, NEW s \in Seq(T), NEW t \in Seq(T), Rest(s, t), NEW n \in 1..(Len(s) + 1)
    PROVE  SubSeq(s, n, Len(s)) \in Seq(T) /\ Rest(SubSeq(s, n, Len(s)), t)
<1> DEFINE r == SubSeq(s, n, Len(s))
<1>1. /\ r \in Seq(T) /\ Len(r) = Len(s) - n + 1 /\ Len(s) \in Nat /\ Len(t) \in Nat
      /\ \A k \in 1..Len(r) : r[k] = s[n + k - 1]
  BY SliceFacts
<1>2. Len(s) <= Len(t) /\ \A i \in 1..Len(s) : s[i] = t[Len(t) - Len(s) + i]
  BY DEF Rest
<1> HIDE DEF r
<1>3. ASSUME NEW k \in 1..Len(r) PROVE r[k] = t[Len(t) - Len(r) + k]
  <2>1. n + k - 1 \in 1..Len(s) /\ Len(t) - Len(s) + (n + k - 1) = Len(t) - Len(r) + k
    BY <1>1
  <2>2. QED
    BY <1>1, <1>2, <2>1
<1>4. Len(r) <= Len(t)
  BY <1>1, <1>2
<1>5. QED
  BY <1>1, <1>3, <1>4 DEF Rest, r

\* The tail of what is left is left.
LEMMA TailIsRest ==
    ASSUME NEW T, NEW s \in Seq(T), NEW t \in Seq(T), Rest(s, t), s # <<>>
    PROVE  Tail(s) \in Seq(T) /\ Rest(Tail(s), t)
<1>1. Tail(s) = SubSeq(s, 2, Len(s)) /\ 2 \in 1..(Len(s) + 1)
  BY TailIsSubSeq, EmptySeq
<1>2. QED
  BY <1>1, SliceIsRest

\* What is left of a sequence has no other elements, and is chained as the whole is.
LEMMA RestFacts ==
    ASSUME NEW T, NEW U, NEW s \in Seq(T), NEW t \in Seq(U), Rest(s, t)
    PROVE  /\ s \in Seq(U)
           /\ Chained(t) => Chained(s)
           /\ Ahead(t) => Ahead(s)
<1>1. /\ Len(s) \in Nat /\ Len(t) \in Nat /\ Len(s) <= Len(t)
      /\ \A i \in 1..Len(s) : /\ s[i] = t[Len(t) - Len(s) + i]
                              /\ Len(t) - Len(s) + i \in 1..Len(t)
  BY DEF Rest
<1>2. s \in Seq(U)
  <2>1. \A i \in 1..Len(s) : s[i] \in U
    BY <1>1
  <2>2. QED
    BY <2>1
<1>3. ASSUME Chained(t), NEW i \in 2..Len(s) PROVE Joins(s[i - 1], s[i])
  <2> DEFINE k == Len(t) - Len(s) + i
  <2>1. k \in 2..Len(t) /\ i \in 1..Len(s) /\ i - 1 \in 1..Len(s)
        /\ Len(t) - Len(s) + (i - 1) = k - 1
    BY <1>1
  <2>2. s[i] = t[k] /\ s[i - 1] = t[k - 1]
    BY <1>1, <2>1
  <2>3. QED
    BY <1>3, <2>1, <2>2 DEF Chained
<1>4. ASSUME Ahead(t), NEW i \in 1..Len(s), s[i] \notin {"daemon", "else", "web"}
      PROVE  \E j \in (i + 1)..Len(s) : s[j] = "daemon"
  <2> DEFINE k == Len(t) - Len(s) + i
  <2>1. k \in 1..Len(t) /\ s[i] = t[k]
    BY <1>1
  <2>2. PICK l \in (k + 1)..Len(t) : t[l] = "daemon"
    BY <1>4, <2>1 DEF Ahead
  <2>3. l - (Len(t) - Len(s)) \in (i + 1)..Len(s)
        /\ l - (Len(t) - Len(s)) \in 1..Len(s)
        /\ Len(t) - Len(s) + (l - (Len(t) - Len(s))) = l
    BY <1>1, <2>1
  <2>4. s[l - (Len(t) - Len(s))] = "daemon"
    BY <1>1, <2>2, <2>3
  <2>5. QED
    BY <2>3, <2>4
<1>5. QED
  BY <1>2, <1>3, <1>4 DEF Chained, Ahead

-----------------------------------------------------------------------------
(***************************************************************************)
(* What is true of each script                                             *)
(***************************************************************************)
Well(s, x, y) ==
    /\ s \in Seq(Steps) /\ s # <<>> /\ Chained(s)
    /\ s[1] = x /\ s[Len(s)] = y

\* Two pieces that may follow each other make one.
LEMMA WellJoined ==
    ASSUME NEW s, NEW t, NEW x, NEW y, NEW z, NEW w,
           Well(s, x, y), Well(t, z, w), Joins(y, z)
    PROVE  Well(s \o t, x, w)
<1> DEFINE u == s \o t
<1>1. /\ s \in Seq(Steps) /\ t \in Seq(Steps) /\ Len(s) \in Nat /\ Len(t) \in Nat
      /\ Len(s) > 0 /\ Len(t) > 0
      /\ s[1] = x /\ s[Len(s)] = y /\ t[1] = z /\ t[Len(t)] = w
      /\ Chained(s) /\ Chained(t)
  BY EmptySeq DEF Well
<1>2. /\ u \in Seq(Steps) /\ Len(u) = Len(s) + Len(t)
      /\ \A i \in 1..(Len(s) + Len(t)) : u[i] = IF i <= Len(s) THEN s[i] ELSE t[i - Len(s)]
  BY <1>1, ConcatProperties
<1> HIDE DEF u
<1>3. ASSUME NEW i \in 2..Len(u) PROVE Joins(u[i - 1], u[i])
  <2> i \in Nat /\ i - 1 \in 1..Len(u) /\ i \in 1..Len(u)
    BY <1>1, <1>2
  <2>1. CASE i <= Len(s)
    <3>1. i \in 2..Len(s) /\ u[i - 1] = s[i - 1] /\ u[i] = s[i]
      BY <1>1, <1>2, <2>1
    <3>2. QED
      BY <1>1, <3>1 DEF Chained
  <2>2. CASE i = Len(s) + 1
    <3>1. i - 1 = Len(s) /\ i - Len(s) = 1
      BY <1>1, <2>2
    <3>2. u[i - 1] = s[i - 1] /\ u[i] = t[i - Len(s)]
      BY <1>1, <1>2, <2>2
    <3>3. s[i - 1] = y /\ t[i - Len(s)] = z
      BY <1>1, <3>1
    <3>4. QED
      BY <3>2, <3>3
  <2>3. CASE i > Len(s) + 1
    <3>1. i - Len(s) \in 2..Len(t) /\ i - 1 - Len(s) = i - Len(s) - 1
      BY <1>1, <1>2, <2>3
    <3>2. i - 1 \in 1..(Len(s) + Len(t)) /\ ~(i - 1 <= Len(s)) /\ ~(i <= Len(s))
      BY <1>1, <1>2, <2>3
    <3>3. u[i] = t[i - Len(s)] /\ u[i - 1] = t[i - Len(s) - 1]
      <4>1. u[i - 1] = t[i - 1 - Len(s)]
        BY <1>2, <3>2
      <4>2. u[i] = t[i - Len(s)]
        BY <1>2, <2>3, <3>2
      <4>3. QED
        BY <3>1, <4>1, <4>2
    <3>4. QED
      BY <1>1, <3>1, <3>3 DEF Chained
  <2>4. QED
    BY <1>1, <2>1, <2>2, <2>3
<1>4. u # <<>> /\ u[1] = x /\ u[Len(u)] = w
  BY <1>1, <1>2
<1>5. QED
  BY <1>2, <1>3, <1>4 DEF Well, Chained, u

\* A daemon(8) behind is ahead of everything before it.
Arrives(s) == s \in Seq(Steps) /\ Ahead(s) /\ Has(s, "daemon")

\* A piece in front takes no daemon(8) away.
LEMMA ArrivesJoined ==
    ASSUME NEW s \in Seq(Steps), NEW t, Arrives(t)
    PROVE  Arrives(s \o t)
<1> DEFINE u == s \o t
<1>1. t \in Seq(Steps) /\ Len(s) \in Nat /\ Len(t) \in Nat
  BY DEF Arrives
<1>2. /\ u \in Seq(Steps) /\ Len(u) = Len(s) + Len(t)
      /\ \A i \in 1..(Len(s) + Len(t)) : u[i] = IF i <= Len(s) THEN s[i] ELSE t[i - Len(s)]
  BY <1>1, ConcatProperties
<1> HIDE DEF u
<1>3. ASSUME NEW k \in 1..Len(t)
      PROVE  Len(s) + k \in 1..Len(u) /\ u[Len(s) + k] = t[k]
  <2>1. Len(s) + k \in 1..Len(u) /\ ~(Len(s) + k <= Len(s)) /\ Len(s) + k - Len(s) = k
    BY <1>1, <1>2
  <2>2. u[Len(s) + k] = t[Len(s) + k - Len(s)]
    BY <1>2, <2>1
  <2>3. QED
    BY <2>1, <2>2
<1>4. PICK d \in 1..Len(t) : t[d] = "daemon"
  BY DEF Arrives, Has
<1>5. ASSUME NEW i \in 1..Len(u), u[i] \notin {"daemon", "else", "web"}
      PROVE  \E j \in (i + 1)..Len(u) : u[j] = "daemon"
  <2>1. CASE i <= Len(s)
    <3>1. Len(s) + d \in (i + 1)..Len(u) /\ u[Len(s) + d] = "daemon"
      BY <1>1, <1>2, <1>3, <1>4, <2>1
    <3>2. QED
      BY <3>1
  <2>2. CASE i > Len(s)
    <3>1. i - Len(s) \in 1..Len(t) /\ u[i] = t[i - Len(s)]
      BY <1>1, <1>2, <2>2
    <3>2. PICK j \in (i - Len(s) + 1)..Len(t) : t[j] = "daemon"
      BY <1>5, <3>1 DEF Arrives, Ahead
    <3>3. j \in 1..Len(t) /\ Len(s) + j \in (i + 1)..Len(u) /\ u[Len(s) + j] = "daemon"
      BY <1>1, <1>2, <1>3, <3>1, <3>2
    <3>4. QED
      BY <3>3
  <2>3. QED
    BY <1>1, <2>1, <2>2
<1>6. Has(u, "daemon")
  BY <1>3, <1>4 DEF Has
<1>7. QED
  BY <1>2, <1>5, <1>6 DEF Arrives, Ahead, u

\* Nor any other step.
LEMMA HasJoined ==
    ASSUME NEW T, NEW s \in Seq(T), NEW t \in Seq(T), NEW step, Has(s, step) \/ Has(t, step)
    PROVE  Has(s \o t, step)
<1> DEFINE u == s \o t
<1>1. /\ Len(s) \in Nat /\ Len(t) \in Nat /\ Len(u) = Len(s) + Len(t)
      /\ \A i \in 1..(Len(s) + Len(t)) : u[i] = IF i <= Len(s) THEN s[i] ELSE t[i - Len(s)]
  BY ConcatProperties
<1> HIDE DEF u
<1>2. CASE Has(s, step)
  <2>1. PICK i \in 1..Len(s) : s[i] = step
    BY <1>2 DEF Has
  <2>2. i \in 1..Len(u) /\ u[i] = step
    BY <1>1, <2>1
  <2>3. QED
    BY <2>2 DEF Has, u
<1>3. CASE Has(t, step)
  <2>1. PICK i \in 1..Len(t) : t[i] = step
    BY <1>3 DEF Has
  <2>2. Len(s) + i \in 1..Len(u) /\ ~(Len(s) + i <= Len(s)) /\ Len(s) + i - Len(s) = i
    BY <1>1
  <2>3. u[Len(s) + i] = step
    BY <1>1, <2>1, <2>2
  <2>4. QED
    BY <2>2, <2>3 DEF Has, u
<1>4. QED
  BY <1>2, <1>3

\* Each of the steps may follow the one before it.
LEMMA ShortFacts ==
    ASSUME NEW s \in Seq(Steps), NEW n \in 1..5, Len(s) = n,
           n >= 2 => Joins(s[1], s[2]), n >= 3 => Joins(s[2], s[3]),
           n >= 4 => Joins(s[3], s[4]), n >= 5 => Joins(s[4], s[5])
    PROVE  Well(s, s[1], s[n])
<1>1. ASSUME NEW i \in 2..Len(s) PROVE Joins(s[i - 1], s[i])
  <2>1. i \in {2, 3, 4, 5} /\ i <= n
    OBVIOUS
  <2>2. CASE i = 2
    BY <2>1, <2>2
  <2>3. CASE i = 3
    BY <2>1, <2>3
  <2>4. CASE i = 4
    BY <2>1, <2>4
  <2>5. CASE i = 5
    BY <2>1, <2>5
  <2>6. QED
    BY <2>1, <2>2, <2>3, <2>4, <2>5
<1>2. s # <<>> 
  BY EmptySeq
<1>3. QED
  BY <1>1, <1>2 DEF Well, Chained

\* The start of rc.d.
LEMMA RcStartFacts ==
    Well(RcStart, "check", "daemon") /\ Arrives(RcStart)
<1>1. "check" \in Steps /\ "peek" \in Steps /\ "clean" \in Steps /\ "daemon" \in Steps
  BY DEF Steps, Plain, StopSteps
<1>2. RcStart \in Seq(Steps) /\ Len(RcStart) = 4
  BY <1>1 DEF RcStart
<1>3. /\ RcStart[1] = "check" /\ RcStart[2] = "peek" /\ RcStart[3] = "clean"
      /\ RcStart[4] = "daemon"
  BY DEF RcStart
<1>4. Joins("check", "peek") /\ Joins("peek", "clean") /\ Joins("clean", "daemon")
  BY DEF Joins
<1>5. Well(RcStart, RcStart[1], RcStart[4])
  BY <1>2, <1>3, <1>4, ShortFacts
<1>6. Ahead(RcStart) /\ Has(RcStart, "daemon")
  BY <1>2, <1>3 DEF Ahead, Has
<1>7. QED
  BY <1>2, <1>3, <1>5, <1>6 DEF Arrives

\* The stop of rc.d, which takes the pid file and then whatever is left.
LEMMA RcStopFacts ==
    Well(RcStop, "peek", "pkill-f") /\ Has(RcStop, "remove") /\ Has(RcStop, "pkill-f")
<1>1. /\ "peek" \in Steps /\ "term" \in Steps /\ "kill" \in Steps /\ "remove" \in Steps
      /\ "pkill-f" \in Steps
  BY DEF Steps, Plain, StopSteps
<1>2. RcStop \in Seq(Steps) /\ Len(RcStop) = 5
  BY <1>1 DEF RcStop
<1>3. /\ RcStop[1] = "peek" /\ RcStop[2] = "term" /\ RcStop[3] = "kill"
      /\ RcStop[4] = "remove" /\ RcStop[5] = "pkill-f"
  BY DEF RcStop
<1>4. /\ Joins("peek", "term") /\ Joins("term", "kill") /\ Joins("kill", "remove")
      /\ Joins("remove", "pkill-f")
  BY DEF Joins
<1>5. Well(RcStop, RcStop[1], RcStop[5])
  BY <1>2, <1>3, <1>4, ShortFacts
<1>6. Has(RcStop, "remove") /\ Has(RcStop, "pkill-f")
  BY <1>2, <1>3 DEF Has
<1>7. QED
  BY <1>2, <1>3, <1>5, <1>6

\* A save.
LEMMA SaveOnlyFacts ==
    Well(SaveOnly, "lock", "write")
<1>1. "lock" \in Steps /\ "truncate" \in Steps /\ "write" \in Steps
  BY DEF Steps, Plain, StopSteps
<1>2. SaveOnly \in Seq(Steps) /\ Len(SaveOnly) = 3
  BY <1>1 DEF SaveOnly
<1>3. SaveOnly[1] = "lock" /\ SaveOnly[2] = "truncate" /\ SaveOnly[3] = "write"
  BY DEF SaveOnly
<1>4. Joins("lock", "truncate") /\ Joins("truncate", "write")
  BY DEF Joins
<1>5. Well(SaveOnly, SaveOnly[1], SaveOnly[3])
  BY <1>2, <1>3, <1>4, ShortFacts
<1>6. QED
  BY <1>3, <1>5

\* The removal of a stale pid file.
LEMMA PeekCleanFacts ==
    Well(<<"peek", "clean">>, "peek", "clean")
<1> DEFINE s == <<"peek", "clean">>
<1>1. "peek" \in Steps /\ "clean" \in Steps
  BY DEF Steps, Plain, StopSteps
<1>2. s \in Seq(Steps) /\ Len(s) = 2
  BY <1>1
<1>3. s[1] = "peek" /\ s[2] = "clean"
  OBVIOUS
<1>4. Joins("peek", "clean")
  BY DEF Joins
<1> HIDE DEF s
<1>5. Well(s, s[1], s[2])
  BY <1>2, <1>3, <1>4, ShortFacts
<1>6. QED
  BY <1>3, <1>5 DEF s

\* The start of the controller.
LEMMA WebFacts ==
    Well(<<"web">>, "web", "web")
<1> DEFINE s == <<"web">>
<1>1. "web" \in Steps
  BY DEF Steps, Plain, StopSteps
<1>2. s \in Seq(Steps) /\ Len(s) = 1
  BY <1>1
<1>3. s[1] = "web"
  OBVIOUS
<1> HIDE DEF s
<1>4. Well(s, s[1], s[1])
  BY <1>2, <1>3, ShortFacts
<1>5. QED
  BY <1>3, <1>4 DEF s

\* Its stop.
LEMMA NoWebFacts ==
    Well(<<"no-web">>, "no-web", "no-web")
<1> DEFINE s == <<"no-web">>
<1>1. "no-web" \in Steps
  BY DEF Steps, Plain, StopSteps
<1>2. s \in Seq(Steps) /\ Len(s) = 1
  BY <1>1
<1>3. s[1] = "no-web"
  OBVIOUS
<1> HIDE DEF s
<1>4. Well(s, s[1], s[1])
  BY <1>2, <1>3, ShortFacts
<1>5. QED
  BY <1>3, <1>4 DEF s

\* The end of a start.
LEMMA ElseFacts ==
    Well(<<"else">>, "else", "else")
<1> DEFINE s == <<"else">>
<1>1. "else" \in Steps
  BY DEF Steps, Plain, StopSteps
<1>2. s \in Seq(Steps) /\ Len(s) = 1
  BY <1>1
<1>3. s[1] = "else"
  OBVIOUS
<1> HIDE DEF s
<1>4. Well(s, s[1], s[1])
  BY <1>2, <1>3, ShortFacts
<1>5. QED
  BY <1>3, <1>4 DEF s

\* The last steps of do_stop.
LEMMA KillRmFacts ==
    Well(<<"pkill-x", "rm">>, "pkill-x", "rm")
<1> DEFINE s == <<"pkill-x", "rm">>
<1>1. "pkill-x" \in Steps /\ "rm" \in Steps
  BY DEF Steps, Plain, StopSteps
<1>2. s \in Seq(Steps) /\ Len(s) = 2
  BY <1>1
<1>3. s[1] = "pkill-x" /\ s[2] = "rm"
  OBVIOUS
<1>4. Joins("pkill-x", "rm")
  BY DEF Joins
<1> HIDE DEF s
<1>5. Well(s, s[1], s[2])
  BY <1>2, <1>3, <1>4, ShortFacts
<1>6. QED
  BY <1>3, <1>5 DEF s

\* The stop of handleService, after that of rc.d.
LEMMA LookFacts ==
    Well(<<"look", "look", "pkill-x">>, "look", "pkill-x")
<1> DEFINE s == <<"look", "look", "pkill-x">>
<1>1. "look" \in Steps /\ "pkill-x" \in Steps
  BY DEF Steps, Plain, StopSteps
<1>2. s \in Seq(Steps) /\ Len(s) = 3
  BY <1>1
<1>3. s[1] = "look" /\ s[2] = "look" /\ s[3] = "pkill-x"
  OBVIOUS
<1>4. Joins("look", "look") /\ Joins("look", "pkill-x")
  BY DEF Joins
<1> HIDE DEF s
<1>5. Well(s, s[1], s[3])
  BY <1>2, <1>3, <1>4, ShortFacts
<1>6. QED
  BY <1>3, <1>5 DEF s

\* The pieces that follow each other in a script.
LEMMA JoinsFacts ==
    /\ Joins("clean", "check") /\ Joins("daemon", "web") /\ Joins("no-web", "peek")
    /\ Joins("pkill-f", "pkill-x") /\ Joins("rm", "peek") /\ Joins("daemon", "else")
    /\ Joins("else", "check") /\ Joins("else", "peek") /\ Joins("pkill-f", "look")
    /\ Joins("pkill-f", "check") /\ Joins("write", "peek")
BY DEF Joins

\* The restart of rc.d is its stop and then its start.
LEMMA RcRestartFacts == Well(RcRestart, "peek", "daemon") /\ Arrives(RcRestart)
<1>1. Well(RcStop \o RcStart, "peek", "daemon")
  BY RcStopFacts, RcStartFacts, JoinsFacts, WellJoined
<1>2. Arrives(RcStop \o RcStart)
  BY RcStopFacts, RcStartFacts, ArrivesJoined DEF Well
<1>3. QED
  BY <1>1, <1>2 DEF RcRestart

\* opnbox-control start.
LEMMA ControlStartFacts == Well(ControlStart, "peek", "web")
<1>1. Well(<<"peek", "clean">> \o RcStart, "peek", "daemon")
  BY PeekCleanFacts, RcStartFacts, JoinsFacts, WellJoined
<1>2. Well((<<"peek", "clean">> \o RcStart) \o <<"web">>, "peek", "web")
  BY <1>1, WebFacts, JoinsFacts, WellJoined
<1>3. QED
  BY <1>2 DEF ControlStart

\* opnbox-control stop.
LEMMA ControlStopFacts ==
    /\ Well(ControlStop, "no-web", "rm")
    /\ Has(ControlStop, "remove") /\ Has(ControlStop, "pkill-f")
<1>1. Well(<<"no-web">> \o RcStop, "no-web", "pkill-f")
  BY NoWebFacts, RcStopFacts, JoinsFacts, WellJoined
<1>2. Well((<<"no-web">> \o RcStop) \o <<"pkill-x", "rm">>, "no-web", "rm")
  BY <1>1, KillRmFacts, JoinsFacts, WellJoined
<1>3. Has(<<"no-web">> \o RcStop, "remove") /\ Has(<<"no-web">> \o RcStop, "pkill-f")
  BY NoWebFacts, RcStopFacts, HasJoined DEF Well
<1>4. /\ Has((<<"no-web">> \o RcStop) \o <<"pkill-x", "rm">>, "remove")
      /\ Has((<<"no-web">> \o RcStop) \o <<"pkill-x", "rm">>, "pkill-f")
  BY <1>1, <1>3, KillRmFacts, HasJoined DEF Well
<1>5. QED
  BY <1>2, <1>4 DEF ControlStop

\* A POST that stops.
LEMMA ServiceStopFacts ==
    /\ Well(ServiceStop, "peek", "pkill-x")
    /\ Has(ServiceStop, "remove") /\ Has(ServiceStop, "pkill-f")
<1>1. Well(RcStop \o <<"look", "look", "pkill-x">>, "peek", "pkill-x")
  BY RcStopFacts, LookFacts, JoinsFacts, WellJoined
<1>2. /\ Has(RcStop \o <<"look", "look", "pkill-x">>, "remove")
      /\ Has(RcStop \o <<"look", "look", "pkill-x">>, "pkill-f")
  BY RcStopFacts, LookFacts, HasJoined DEF Well
<1>3. QED
  BY <1>1, <1>2 DEF ServiceStop

\* A POST that starts.
LEMMA ServiceStartFacts == Well(ServiceStart, "check", "daemon") /\ Arrives(ServiceStart)
<1>1. Well(RcStart \o <<"else">>, "check", "else")
  BY RcStartFacts, ElseFacts, JoinsFacts, WellJoined
<1>2. Well((RcStart \o <<"else">>) \o RcStart, "check", "daemon")
  BY <1>1, RcStartFacts, JoinsFacts, WellJoined
<1>3. Arrives((RcStart \o <<"else">>) \o RcStart)
  BY <1>1, RcStartFacts, ArrivesJoined DEF Well
<1>4. QED
  BY <1>2, <1>3 DEF ServiceStart

\* A POST that restarts.
LEMMA ServiceRestartFacts ==
    Well(ServiceRestart, "peek", "daemon") /\ Arrives(ServiceRestart)
<1>1. Well(RcRestart \o <<"else">>, "peek", "else")
  BY RcRestartFacts, ElseFacts, JoinsFacts, WellJoined
<1>2. Well((RcRestart \o <<"else">>) \o RcRestart, "peek", "daemon")
  BY <1>1, RcRestartFacts, JoinsFacts, WellJoined
<1>3. Arrives((RcRestart \o <<"else">>) \o RcRestart)
  BY <1>1, RcRestartFacts, ArrivesJoined DEF Well
<1>4. QED
  BY <1>2, <1>3 DEF ServiceRestart

\* hev-controller comes after the last daemon(8).
LEMMA WebLast == ASSUME NEW s, Arrives(s) PROVE Arrives(s \o <<"web">>)
<1> DEFINE w == <<"web">>
           u == s \o w
<1>1. /\ s \in Seq(Steps) /\ w \in Seq(Steps) /\ Len(s) \in Nat /\ Len(w) = 1 /\ w[1] = "web"
  BY WebFacts DEF Arrives, Well
<1> HIDE DEF w
<1>2. /\ u \in Seq(Steps) /\ Len(u) = Len(s) + 1
      /\ \A i \in 1..(Len(s) + 1) : u[i] = IF i <= Len(s) THEN s[i] ELSE w[i - Len(s)]
  BY <1>1, ConcatProperties
<1> HIDE DEF u
<1>3. /\ \A i \in 1..Len(s) : i \in 1..Len(u) /\ u[i] = s[i]
  BY <1>1, <1>2
<1>4. u[Len(s) + 1] = "web"
  <2>1. Len(s) + 1 \in 1..(Len(s) + 1) /\ ~(Len(s) + 1 <= Len(s)) /\ Len(s) + 1 - Len(s) = 1
    BY <1>1
  <2>2. QED
    BY <1>1, <1>2, <2>1
<1>5. ASSUME NEW i \in 1..Len(u), u[i] \notin {"daemon", "else", "web"}
      PROVE  \E j \in (i + 1)..Len(u) : u[j] = "daemon"
  <2>1. i \in 1..Len(s)
    <3>1. i # Len(s) + 1
      BY <1>4, <1>5
    <3>2. QED
      BY <1>1, <1>2, <3>1
  <2>2. PICK j \in (i + 1)..Len(s) : s[j] = "daemon"
    BY <1>3, <1>5, <2>1 DEF Arrives, Ahead
  <2>3. j \in 1..Len(s) /\ j \in (i + 1)..Len(u)
    BY <1>1, <1>2, <2>1
  <2>4. QED
    BY <1>3, <2>2, <2>3
<1>6. Has(u, "daemon")
  BY <1>3 DEF Arrives, Has
<1>7. QED
  BY <1>2, <1>5, <1>6 DEF Arrives, Ahead, u, w

\* Every command that starts comes to daemon(8).
LEMMA StartsArrive == ASSUME NEW command \in Starts PROVE Arrives(Script(command))
<1>1. Arrives(ControlStart)
  <2>1. Arrives(<<"peek", "clean">> \o RcStart)
    BY PeekCleanFacts, RcStartFacts, ArrivesJoined DEF Well
  <2>2. QED
    BY <2>1, WebLast DEF ControlStart
<1>2. Arrives(ControlStop \o ControlStart)
  BY <1>1, ControlStopFacts, ArrivesJoined DEF Well
<1>3. Arrives(SaveRestart)
  BY SaveOnlyFacts, RcRestartFacts, ArrivesJoined DEF Well, SaveRestart
<1>4. command \in {"control-start", "service-start", "control-restart", "service-restart",
                   "save-and-restart"}
  BY DEF Starts, Restarts
<1>5. CASE command = "control-start"
  BY <1>1, <1>5 DEF Script
<1>6. CASE command = "service-start"
  BY <1>6, ServiceStartFacts DEF Script
<1>7. CASE command = "control-restart"
  BY <1>2, <1>7 DEF Script
<1>8. CASE command = "service-restart"
  BY <1>8, ServiceRestartFacts DEF Script
<1>9. CASE command = "save-and-restart"
  BY <1>3, <1>9 DEF Script
<1>10. QED
  BY <1>4, <1>5, <1>6, <1>7, <1>8, <1>9

\* Each script is chained, and begins with a step that can stand alone.
LEMMA ScriptsWell ==
    ASSUME NEW command \in Commands
    PROVE  \E x \in {"peek", "check", "no-web", "lock"}, y \in Steps :
              /\ Well(Script(command), x, y)
              /\ command \in Posts <=> x = "lock"
<1>1. command \in {"control-start", "control-stop", "control-restart", "service-start",
                   "service-stop", "service-restart", "save", "save-and-restart"}
  BY ServiceAssumption
<1>2. Well(ControlStop \o ControlStart, "no-web", "web")
  BY ControlStopFacts, ControlStartFacts, JoinsFacts, WellJoined
<1>3. Well(SaveRestart, "lock", "daemon")
  BY SaveOnlyFacts, RcRestartFacts, JoinsFacts, WellJoined DEF SaveRestart
<1>4. {"web", "rm", "daemon", "pkill-x", "write"} \subseteq Steps
  BY DEF Steps, Plain, StopSteps
<1>5. CASE command = "control-start"
  BY <1>4, <1>5, ControlStartFacts DEF Script, Posts
<1>6. CASE command = "control-stop"
  BY <1>4, <1>6, ControlStopFacts DEF Script, Posts
<1>7. CASE command = "control-restart"
  BY <1>2, <1>4, <1>7 DEF Script, Posts
<1>8. CASE command = "service-start"
  BY <1>4, <1>8, ServiceStartFacts DEF Script, Posts
<1>9. CASE command = "service-stop"
  BY <1>4, <1>9, ServiceStopFacts DEF Script, Posts
<1>10. CASE command = "service-restart"
  BY <1>4, <1>10, ServiceRestartFacts DEF Script, Posts
<1>11. CASE command = "save"
  BY <1>4, <1>11, SaveOnlyFacts DEF Script, Posts
<1>12. CASE command = "save-and-restart"
  BY <1>3, <1>4, <1>12 DEF Script, Posts
<1>13. QED
  BY <1>1, <1>5, <1>6, <1>7, <1>8, <1>9, <1>10, <1>11, <1>12

\* A sequence over a set is one over a larger set.
LEMMA SeqWithin == ASSUME NEW A, NEW B, A \subseteq B, NEW s \in Seq(A) PROVE s \in Seq(B)
<1>1. \A i \in 1..Len(s) : s[i] \in B
  OBVIOUS
<1>2. QED
  BY <1>1

\* The pieces of the scripts that take neither the mutex nor stop the controller.
LEMMA PlainPieces ==
    /\ RcStart \in Seq(Plain) /\ RcStop \in Seq(StopSteps \ {"no-web"}) /\ RcStop \in Seq(Plain)
    /\ <<"peek", "clean">> \in Seq(Plain) /\ <<"web">> \in Seq(Plain)
    /\ <<"else">> \in Seq(Plain) /\ <<"look", "look", "pkill-x">> \in Seq(StopSteps \ {"no-web"})
    /\ <<"pkill-x", "rm">> \in Seq(StopSteps \ {"no-web"})
    /\ <<"no-web">> \in Seq(StopSteps) /\ SaveOnly \in Seq(Plain \cup {"lock"})
<1>1. /\ "check" \in Plain /\ "peek" \in Plain /\ "clean" \in Plain /\ "daemon" \in Plain
      /\ "web" \in Plain /\ "else" \in Plain
      /\ "truncate" \in Plain \cup {"lock"} /\ "write" \in Plain \cup {"lock"}
      /\ "lock" \in Plain \cup {"lock"}
  BY DEF Plain, StopSteps
<1> DEFINE Q == StopSteps \ {"no-web"}
<1>2. /\ "peek" \in Q /\ "term" \in Q /\ "kill" \in Q /\ "remove" \in Q /\ "pkill-f" \in Q
      /\ "pkill-x" \in Q /\ "rm" \in Q /\ "look" \in Q
      /\ "no-web" \in StopSteps /\ Q \subseteq Plain
  BY DEF Plain, StopSteps
<1> HIDE DEF Q
<1>3. RcStart \in Seq(Plain)
  BY <1>1 DEF RcStart
<1>4. RcStop \in Seq(Q)
  BY <1>2 DEF RcStop
<1>5. RcStop \in Seq(Plain)
  BY <1>2, <1>4, SeqWithin
<1>6. <<"peek", "clean">> \in Seq(Plain) /\ <<"web">> \in Seq(Plain) /\ <<"else">> \in Seq(Plain)
  BY <1>1
<1>7. <<"look", "look", "pkill-x">> \in Seq(Q) /\ <<"pkill-x", "rm">> \in Seq(Q)
  BY <1>2
<1>8. <<"no-web">> \in Seq(StopSteps)
  BY <1>2
<1>9. SaveOnly \in Seq(Plain \cup {"lock"})
  BY <1>1 DEF SaveOnly
<1>10. QED
  BY <1>3, <1>4, <1>5, <1>6, <1>7, <1>8, <1>9 DEF Q

\* A stop has no step that starts anything.
LEMMA StopsStop ==
    ASSUME NEW command \in Stops
    PROVE  /\ Script(command) \in Seq(StopSteps)
           /\ Has(Script(command), "remove") /\ Has(Script(command), "pkill-f")
<1>1. ControlStop \in Seq(StopSteps)
  <2>1. /\ RcStop \in Seq(StopSteps) /\ <<"pkill-x", "rm">> \in Seq(StopSteps)
        /\ <<"no-web">> \in Seq(StopSteps)
    BY PlainPieces, SeqWithin
  <2>2. <<"no-web">> \o RcStop \in Seq(StopSteps)
    BY <2>1, ConcatProperties
  <2>3. QED
    BY <2>1, <2>2, ConcatProperties DEF ControlStop
<1>2. ServiceStop \in Seq(StopSteps)
  <2>1. RcStop \in Seq(StopSteps) /\ <<"look", "look", "pkill-x">> \in Seq(StopSteps)
    BY PlainPieces, SeqWithin
  <2>2. QED
    BY <2>1, ConcatProperties DEF ServiceStop
<1>3. CASE command = "control-stop"
  BY <1>1, <1>3, ControlStopFacts DEF Script
<1>4. CASE command = "service-stop"
  BY <1>2, <1>4, ServiceStopFacts DEF Script
<1>5. QED
  BY <1>3, <1>4 DEF Stops

\* Only a POST takes the mutex, and only the control script stops hev-controller.
LEMMA ScriptsOwn ==
    ASSUME NEW command \in Commands
    PROVE  /\ command \notin Posts => Script(command) \in Seq(Plain \cup {"no-web"})
           /\ command \notin Controls => Script(command) \in Seq(Plain \cup {"lock"})
<1> DEFINE P == Plain
           L == Plain \cup {"lock"}
           W == Plain \cup {"no-web"}
<1>1. command \in {"control-start", "control-stop", "control-restart", "service-start",
                   "service-stop", "service-restart", "save", "save-and-restart"}
  BY ServiceAssumption
<1>2. P \subseteq L /\ P \subseteq W /\ StopSteps \subseteq W /\ StopSteps \ {"no-web"} \subseteq P
  BY DEF Plain, StopSteps
<1> HIDE DEF P, L, W
<1>3. /\ RcStart \in Seq(P) /\ RcStop \in Seq(P) /\ <<"peek", "clean">> \in Seq(P)
      /\ <<"web">> \in Seq(P) /\ <<"else">> \in Seq(P)
      /\ <<"look", "look", "pkill-x">> \in Seq(P) /\ <<"pkill-x", "rm">> \in Seq(P)
      /\ <<"no-web">> \in Seq(W) /\ SaveOnly \in Seq(L)
  <2>1. /\ RcStart \in Seq(P) /\ RcStop \in Seq(P) /\ <<"peek", "clean">> \in Seq(P)
        /\ <<"web">> \in Seq(P) /\ <<"else">> \in Seq(P) /\ SaveOnly \in Seq(L)
    BY PlainPieces DEF P, L
  <2>2. <<"look", "look", "pkill-x">> \in Seq(P) /\ <<"pkill-x", "rm">> \in Seq(P)
    BY <1>2, PlainPieces, SeqWithin
  <2>3. <<"no-web">> \in Seq(W)
    BY <1>2, PlainPieces, SeqWithin
  <2>4. QED
    BY <2>1, <2>2, <2>3
<1>4. ControlStart \in Seq(P)
  <2>1. <<"peek", "clean">> \o RcStart \in Seq(P)
    BY <1>3, ConcatProperties
  <2>2. QED
    BY <1>3, <2>1, ConcatProperties DEF ControlStart
<1>5. ControlStop \in Seq(W)
  <2>1. Script("control-stop") \in Seq(StopSteps)
    BY StopsStop DEF Stops
  <2>2. Script("control-stop") = ControlStop
    BY DEF Script
  <2>3. QED
    BY <1>2, <2>1, <2>2, SeqWithin
<1>6. ControlStop \o ControlStart \in Seq(W)
  <2>1. ControlStart \in Seq(W)
    BY <1>2, <1>4, SeqWithin
  <2>2. QED
    BY <1>5, <2>1, ConcatProperties
<1>7. RcRestart \in Seq(P)
  BY <1>3, ConcatProperties DEF RcRestart
<1>8. ServiceStart \in Seq(P)
  <2>1. RcStart \o <<"else">> \in Seq(P)
    BY <1>3, ConcatProperties
  <2>2. QED
    BY <1>3, <2>1, ConcatProperties DEF ServiceStart
<1>9. ServiceRestart \in Seq(P)
  <2>1. RcRestart \o <<"else">> \in Seq(P)
    BY <1>3, <1>7, ConcatProperties
  <2>2. QED
    BY <1>7, <2>1, ConcatProperties DEF ServiceRestart
<1>10. ServiceStop \in Seq(P)
  BY <1>3, ConcatProperties DEF ServiceStop
<1>11. SaveRestart \in Seq(L)
  <2>1. RcRestart \in Seq(L)
    BY <1>2, <1>7, SeqWithin
  <2>2. QED
    BY <1>3, <2>1, ConcatProperties DEF SaveRestart
<1>12. ASSUME NEW s \in Seq(P) PROVE s \in Seq(L) /\ s \in Seq(W)
  BY <1>2, SeqWithin
<1>13. CASE command \in {"control-start", "service-start", "service-stop", "service-restart"}
  <2>1. Script(command) \in Seq(P)
    BY <1>4, <1>8, <1>9, <1>10, <1>13 DEF Script
  <2>2. QED
    BY <1>12, <2>1 DEF L, W
<1>14. CASE command \in {"control-stop", "control-restart"}
  <2>1. Script(command) \in Seq(W)
    BY <1>5, <1>6, <1>14 DEF Script
  <2>2. QED
    BY <1>14, <2>1 DEF Controls, W
<1>15. CASE command \in {"save", "save-and-restart"}
  <2>1. Script(command) \in Seq(L)
    BY <1>3, <1>11, <1>15 DEF Script
  <2>2. QED
    BY <1>15, <2>1 DEF Posts, L
<1>16. QED
  BY <1>1, <1>13, <1>14, <1>15

\* The one script whose steps are counted.
LEMMA RcRestartSteps ==
    /\ RcRestart \in Seq(Steps) /\ Len(RcRestart) = 9 /\ RcRestart \in Seq(Plain)
    /\ RcRestart[1] = "peek" /\ RcRestart[2] = "term" /\ RcRestart[3] = "kill"
    /\ RcRestart[4] = "remove" /\ RcRestart[5] = "pkill-f" /\ RcRestart[6] = "check"
    /\ RcRestart[7] = "peek" /\ RcRestart[8] = "clean" /\ RcRestart[9] = "daemon"
<1>1. Len(RcStop) = 5 /\ Len(RcStart) = 4 /\ RcStop \in Seq(Plain) /\ RcStart \in Seq(Plain)
  BY PlainPieces DEF RcStop, RcStart
<1>2. /\ RcRestart \in Seq(Plain) /\ Len(RcRestart) = 9
      /\ \A i \in 1..9 : RcRestart[i] = IF i <= 5 THEN RcStop[i] ELSE RcStart[i - 5]
  <2>1. /\ RcRestart \in Seq(Plain) /\ Len(RcRestart) = Len(RcStop) + Len(RcStart)
        /\ \A i \in 1..(Len(RcStop) + Len(RcStart)) :
             RcRestart[i] = IF i <= Len(RcStop) THEN RcStop[i] ELSE RcStart[i - Len(RcStop)]
    BY <1>1, ConcatProperties DEF RcRestart
  <2>2. Len(RcStop) + Len(RcStart) = 9
    BY <1>1
  <2>3. QED
    BY <1>1, <2>1, <2>2
<1>3. /\ RcStop[1] = "peek" /\ RcStop[2] = "term" /\ RcStop[3] = "kill"
      /\ RcStop[4] = "remove" /\ RcStop[5] = "pkill-f"
  BY DEF RcStop
<1>4. /\ RcStart[1] = "check" /\ RcStart[2] = "peek"
      /\ RcStart[3] = "clean" /\ RcStart[4] = "daemon"
  BY DEF RcStart
<1>5. /\ RcRestart[1] = RcStop[1] /\ RcRestart[2] = RcStop[2] /\ RcRestart[3] = RcStop[3]
      /\ RcRestart[4] = RcStop[4] /\ RcRestart[5] = RcStop[5]
  BY <1>2
<1>6. /\ RcRestart[6] = RcStart[1] /\ RcRestart[7] = RcStart[2]
      /\ RcRestart[8] = RcStart[3] /\ RcRestart[9] = RcStart[4]
  <2>1. ASSUME NEW i \in 6..9 PROVE RcRestart[i] = RcStart[i - 5]
    BY <1>2
  <2>2. 6 - 5 = 1 /\ 7 - 5 = 2 /\ 8 - 5 = 3 /\ 9 - 5 = 4
    OBVIOUS
  <2>3. QED
    BY <2>1, <2>2
<1>7. QED
  BY <1>2, <1>3, <1>4, <1>5, <1>6, RcRestartFacts DEF Well

\* A save and restart, step by step.
LEMMA SaveRestartSteps ==
    /\ SaveRestart \in Seq(Steps) /\ Len(SaveRestart) = 12
    /\ SaveRestart[1] = "lock" /\ SaveRestart[2] = "truncate" /\ SaveRestart[3] = "write"
    /\ \A i \in 1..9 : SaveRestart[3 + i] = RcRestart[i]
<1>1. Len(SaveOnly) = 3 /\ SaveOnly \in Seq(Steps)
  BY SaveOnlyFacts DEF Well, SaveOnly
<1>2. /\ SaveRestart \in Seq(Steps) /\ Len(SaveRestart) = 12
      /\ \A i \in 1..12 : SaveRestart[i] = IF i <= 3 THEN SaveOnly[i] ELSE RcRestart[i - 3]
  <2>1. RcRestart \in Seq(Steps) /\ Len(RcRestart) = 9
    BY RcRestartSteps
  <2>2. /\ SaveRestart \in Seq(Steps) /\ Len(SaveRestart) = Len(SaveOnly) + Len(RcRestart)
        /\ \A i \in 1..(Len(SaveOnly) + Len(RcRestart)) :
             SaveRestart[i] = IF i <= Len(SaveOnly) THEN SaveOnly[i]
                              ELSE RcRestart[i - Len(SaveOnly)]
    BY <1>1, <2>1, ConcatProperties DEF SaveRestart
  <2>3. Len(SaveOnly) + Len(RcRestart) = 12
    BY <1>1, <2>1
  <2>4. QED
    BY <1>1, <2>2, <2>3
<1>3. SaveOnly[1] = "lock" /\ SaveOnly[2] = "truncate" /\ SaveOnly[3] = "write"
  BY DEF SaveOnly
<1>4. /\ SaveRestart[1] = SaveOnly[1] /\ SaveRestart[2] = SaveOnly[2]
      /\ SaveRestart[3] = SaveOnly[3]
  BY <1>2
<1>5. ASSUME NEW i \in 1..9 PROVE SaveRestart[3 + i] = RcRestart[i]
  <2>1. 3 + i \in 1..12 /\ ~(3 + i <= 3) /\ 3 + i - 3 = i
    OBVIOUS
  <2>2. SaveRestart[3 + i] = RcRestart[3 + i - 3]
    BY <1>2, <2>1
  <2>3. QED
    BY <2>1, <2>2
<1>6. QED
  BY <1>2, <1>3, <1>4, <1>5

-----------------------------------------------------------------------------
(***************************************************************************)
(* A start that fails                                                      *)
(***************************************************************************)
Below == {p \in Nat \X Nat : p[1] < p[2]}

\* A set of numbers that is not empty has a least one.
LEMMA LeastNumber ==
    ASSUME NEW S \in SUBSET Nat, S # {}
    PROVE  \E m \in S : \A k \in S : m <= k
<1>1. IsWellFoundedOn(Below, Nat)
  BY NatLessThanWellFounded DEF OpToRel, Below
<1>2. PICK m \in S : \A k \in S : <<k, m>> \notin Below
  BY <1>1, WFMin
<1>3. ASSUME NEW k \in S, ~(m <= k) PROVE FALSE
  <2>1. <<k, m>> \in Nat \X Nat /\ k < m
    BY <1>3
  <2>2. QED
    BY <1>2, <2>1 DEF Below
<1>4. QED
  BY <1>3

\* What comes before the first of some steps.
LEMMA BeforeFacts ==
    ASSUME NEW T, NEW s \in Seq(T), NEW ends
    PROVE  \E n \in 0..Len(s) :
              /\ Before(s, ends) = SubSeq(s, 1, n)
              /\ n < Len(s) => s[n + 1] \in ends
<1> DEFINE I == {i \in 1..Len(s) : s[i] \in ends}
           least == IF I # {} THEN Min(I) ELSE 0
<1>1. SelectInSeq(s, LAMBDA step : step \in ends) = least
  BY DEF SelectInSeq
<1>2. Before(s, ends) = IF least = 0 THEN s ELSE SubSeq(s, 1, least - 1)
  BY <1>1 DEF Before
<1>3. Len(s) \in Nat
  OBVIOUS
<1>4. CASE I = {}
  <2>1. Before(s, ends) = s /\ s = SubSeq(s, 1, Len(s))
    BY <1>2, <1>4
  <2>2. Len(s) \in 0..Len(s) /\ ~(Len(s) < Len(s))
    BY <1>3
  <2>3. QED
    BY <2>1, <2>2
<1>5. CASE I # {}
  <2>1. I \in SUBSET Nat
    BY <1>3
  <2>2. \E m \in I : \A k \in I : m <= k
    BY <1>5, <2>1, LeastNumber
  <2>3. Min(I) \in I
    BY <2>2 DEF Min
  <2>4. PICK m \in I : m = Min(I)
    BY <2>3
  <2>5. m \in 1..Len(s) /\ s[m] \in ends /\ least = m
    BY <1>5, <2>4
  <2> HIDE DEF least, I
  <2>6. m - 1 \in 0..Len(s) /\ m - 1 + 1 = m /\ m # 0
    BY <1>3, <2>5
  <2>7. Before(s, ends) = SubSeq(s, 1, m - 1)
    BY <1>2, <2>5, <2>6
  <2>8. QED
    BY <2>5, <2>6, <2>7
<1>6. QED
  BY <1>4, <1>5

\* The tail of the end of a sequence.
LEMMA TailOfSlice ==
    ASSUME NEW T, NEW s \in Seq(T), NEW n \in 1..Len(s)
    PROVE  /\ SubSeq(s, n, Len(s)) # <<>> /\ Head(SubSeq(s, n, Len(s))) = s[n]
           /\ Tail(SubSeq(s, n, Len(s))) = SubSeq(s, n + 1, Len(s))
<1> DEFINE r == SubSeq(s, n, Len(s))
           u == SubSeq(s, n + 1, Len(s))
<1>1. Len(s) \in Nat /\ n \in 1..(Len(s) + 1) /\ n + 1 \in 1..(Len(s) + 1)
  OBVIOUS
<1>2. /\ r \in Seq(T) /\ Len(r) = Len(s) - n + 1
      /\ \A k \in 1..(Len(s) - n + 1) : r[k] = s[n + k - 1]
  BY <1>1, SliceFacts
<1>3. /\ u \in Seq(T) /\ Len(u) = Len(s) - (n + 1) + 1
      /\ \A k \in 1..(Len(s) - (n + 1) + 1) : u[k] = s[n + 1 + k - 1]
  BY <1>1, SliceFacts
<1> HIDE DEF r, u
<1>4. r # <<>> /\ 1 \in 1..(Len(s) - n + 1) /\ n + 1 - 1 = n
  BY <1>1, <1>2
<1>5. Head(r) = s[n]
  <2>1. r[1] = s[n + 1 - 1]
    BY <1>2, <1>4
  <2>2. QED
    BY <1>2, <1>4, <2>1
<1>6. Tail(r) \in Seq(T) /\ Len(Tail(r)) = Len(r) - 1 /\ \A k \in 1..(Len(r) - 1) : Tail(r)[k] = r[k + 1]
  BY <1>2, <1>4
<1>7. ASSUME NEW k \in 1..(Len(r) - 1) PROVE Tail(r)[k] = u[k]
  <2>1. /\ k + 1 \in 1..(Len(s) - n + 1) /\ k \in 1..(Len(s) - (n + 1) + 1)
        /\ n + (k + 1) - 1 = n + 1 + k - 1
    BY <1>1, <1>2
  <2>2. r[k + 1] = s[n + (k + 1) - 1]
    BY <1>2, <2>1
  <2>3. u[k] = s[n + 1 + k - 1]
    BY <1>3, <2>1
  <2>4. Tail(r)[k] = r[k + 1]
    BY <1>6
  <2>5. QED
    BY <2>1, <2>2, <2>3, <2>4
<1>8. Len(Tail(r)) = Len(u) /\ Len(u) = Len(r) - 1
  <2>1. Len(s) - (n + 1) + 1 = Len(s) - n + 1 - 1
    BY <1>1
  <2>2. Len(Tail(r)) = Len(s) - n + 1 - 1 /\ Len(u) = Len(s) - n + 1 - 1
    <3>1. Len(u) = Len(s) - n + 1 - 1
      BY <1>3, <2>1
    <3>2. Len(Tail(r)) = Len(s) - n + 1 - 1
      BY <1>2, <1>6
    <3>3. QED
      BY <3>1, <3>2
  <2>3. QED
    BY <1>2, <2>2
<1>9. Tail(r) = u
  BY <1>3, <1>6, <1>7, <1>8, SeqEqual
<1>10. QED
  BY <1>4, <1>5, <1>9 DEF r, u

\* A start that fails goes on after its daemon(8), or after an "else".
LEMMA FailFacts ==
    ASSUME NEW c \in Callers, NEW T, todo[c] \in Seq(T), Fail(c)
    PROVE  \E n \in 1..(Len(todo[c]) + 1) :
              /\ todo' = [todo EXCEPT ![c] = SubSeq(todo[c], n, Len(todo[c]))]
              /\ n <= Len(todo[c]) =>
                    /\ n \in 2..Len(todo[c])
                    /\ \/ todo[c][n - 1] = "else"
                       \/ todo[c][n - 1] = "daemon" /\ todo[c][n] # "else"
<1> DEFINE s == todo[c]
           rest(n) == SubSeq(s, n, Len(s))
           next(r) == IF r # <<>> /\ Head(r) = "else" THEN Tail(r) ELSE r
<1>1. PICK k \in 0..Len(s) : /\ Before(s, {"daemon"}) = SubSeq(s, 1, k)
                             /\ k < Len(s) => s[k + 1] \in {"daemon"}
  BY BeforeFacts
<1>2. Len(SubSeq(s, 1, k)) = k /\ Len(s) \in Nat
  BY InitialFacts
<1>3. todo' = [todo EXCEPT ![c] = next(rest(k + 1 + 1))]
  BY <1>1, <1>2 DEF Fail
<1>4. k + 1 + 1 = k + 2 /\ k \in Nat
  BY <1>2
<1>5. CASE k = Len(s)
  <2>1. rest(k + 2) = <<>> /\ rest(Len(s) + 1) = <<>>
    <3>1. rest(Len(s) + 1) \in Seq(T) /\ Len(rest(Len(s) + 1)) = 0
      BY <1>2, SliceFacts
    <3>2. rest(k + 2) = <<>>
      BY <1>2, <1>4, <1>5
    <3>3. QED
      BY <3>1, <3>2, EmptySeq
  <2>2. next(rest(k + 1 + 1)) = rest(Len(s) + 1)
    BY <1>4, <2>1
  <2>3. Len(s) + 1 \in 1..(Len(s) + 1) /\ ~(Len(s) + 1 <= Len(s))
    BY <1>2
  <2> HIDE DEF next
  <2>4. QED
    BY <1>3, <2>2, <2>3
<1>6. CASE k = Len(s) - 1
  <2>1. rest(k + 2) = <<>> /\ k + 2 = Len(s) + 1
    <3>1. k + 2 = Len(s) + 1
      BY <1>2, <1>6
    <3>2. rest(k + 2) \in Seq(T) /\ Len(rest(k + 2)) = 0
      BY <1>2, <3>1, SliceFacts
    <3>3. QED
      BY <3>1, <3>2, EmptySeq
  <2>2. next(rest(k + 1 + 1)) = rest(Len(s) + 1)
    BY <1>4, <2>1
  <2>3. Len(s) + 1 \in 1..(Len(s) + 1) /\ ~(Len(s) + 1 <= Len(s))
    BY <1>2
  <2> HIDE DEF next
  <2>4. QED
    BY <1>3, <2>2, <2>3
<1>7. CASE k < Len(s) - 1
  <2>1. k + 2 \in 1..Len(s) /\ k + 2 \in 2..Len(s) /\ k + 2 - 1 = k + 1 /\ k < Len(s)
        /\ k + 2 \in 1..(Len(s) + 1)
    BY <1>2, <1>4, <1>7
  <2>2. s[k + 1] = "daemon"
    BY <1>1, <2>1
  <2>3. rest(k + 2) # <<>> /\ Head(rest(k + 2)) = s[k + 2] /\ Tail(rest(k + 2)) = rest(k + 2 + 1)
    BY <2>1, TailOfSlice
  <2>4. next(rest(k + 1 + 1)) = IF s[k + 2] = "else" THEN rest(k + 2 + 1) ELSE rest(k + 2)
    BY <1>4, <2>3
  <2> HIDE DEF next
  <2>5. CASE s[k + 2] = "else"
    <3>1. PICK n \in 1..(Len(s) + 1) : n = k + 2 + 1
      BY <1>2, <2>1
    <3>2. n - 1 = k + 2 /\ (n <= Len(s) => n \in 2..Len(s))
      BY <1>2, <1>4, <3>1
    <3>3. s[n - 1] = "else" /\ todo' = [todo EXCEPT ![c] = rest(n)]
      BY <1>3, <2>4, <2>5, <3>1, <3>2
    <3>4. QED
      BY <3>2, <3>3
  <2>6. CASE s[k + 2] # "else"
    <3>1. PICK n \in 1..(Len(s) + 1) : n = k + 2
      BY <1>2, <2>1
    <3>2. n - 1 = k + 1 /\ n \in 2..Len(s)
      BY <1>4, <2>1, <3>1
    <3>3. s[n - 1] = "daemon" /\ s[n] # "else"
      BY <2>2, <2>6, <3>1, <3>2
    <3>4. next(rest(k + 1 + 1)) = rest(n)
      BY <2>4, <2>6, <3>1
    <3>5. todo' = [todo EXCEPT ![c] = rest(n)]
      BY <1>3, <3>4
    <3>6. QED
      BY <3>2, <3>3, <3>5
  <2>7. QED
    BY <2>5, <2>6
<1>8. QED
  BY <1>2, <1>4, <1>5, <1>6, <1>7

\* A start or restart never looks for the processes that are left.
LEMMA StartsNeverLook ==
    ASSUME NEW command \in Starts
    PROVE  Script(command) \in Seq(Steps \ {"look"})
<1> DEFINE N == Steps \ {"look"}
<1>1. /\ "check" \in N /\ "peek" \in N /\ "clean" \in N /\ "daemon" \in N /\ "term" \in N
      /\ "kill" \in N /\ "remove" \in N /\ "pkill-f" \in N /\ "pkill-x" \in N /\ "rm" \in N
      /\ "web" \in N /\ "no-web" \in N /\ "else" \in N
      /\ "lock" \in N /\ "truncate" \in N /\ "write" \in N
  BY DEF Steps, Plain, StopSteps
<1> HIDE DEF N
<1>2. RcStart \in Seq(N)
  BY <1>1 DEF RcStart
<1>3. RcStop \in Seq(N)
  BY <1>1 DEF RcStop
<1>4. RcRestart \in Seq(N)
  BY <1>2, <1>3, ConcatProperties DEF RcRestart
<1>5. <<"peek", "clean">> \in Seq(N) /\ <<"web">> \in Seq(N) /\ <<"else">> \in Seq(N)
  BY <1>1
<1>6. <<"no-web">> \in Seq(N) /\ <<"pkill-x", "rm">> \in Seq(N)
  BY <1>1
<1>7. SaveOnly \in Seq(N)
  BY <1>1 DEF SaveOnly
<1>8. ControlStart \in Seq(N)
  <2>1. <<"peek", "clean">> \o RcStart \in Seq(N)
    BY <1>2, <1>5, ConcatProperties
  <2>2. QED
    BY <1>5, <2>1, ConcatProperties DEF ControlStart
<1>9. ControlStop \in Seq(N)
  <2>1. <<"no-web">> \o RcStop \in Seq(N)
    BY <1>3, <1>6, ConcatProperties
  <2>2. QED
    BY <1>6, <2>1, ConcatProperties DEF ControlStop
<1>10. ControlStop \o ControlStart \in Seq(N)
  BY <1>8, <1>9, ConcatProperties
<1>11. ServiceStart \in Seq(N)
  <2>1. RcStart \o <<"else">> \in Seq(N)
    BY <1>2, <1>5, ConcatProperties
  <2>2. QED
    BY <1>2, <2>1, ConcatProperties DEF ServiceStart
<1>12. ServiceRestart \in Seq(N)
  <2>1. RcRestart \o <<"else">> \in Seq(N)
    BY <1>4, <1>5, ConcatProperties
  <2>2. QED
    BY <1>4, <2>1, ConcatProperties DEF ServiceRestart
<1>13. SaveRestart \in Seq(N)
  BY <1>4, <1>7, ConcatProperties DEF SaveRestart
<1>14. Script(command) \in Seq(N)
  BY <1>8, <1>10, <1>11, <1>12, <1>13 DEF Script, Starts, Restarts
<1>15. QED
  BY <1>14 DEF N

-----------------------------------------------------------------------------
(***************************************************************************)
(* What is left of a command                                               *)
(***************************************************************************)
LEMMA TodoFacts ==
    ASSUME ServiceTypeOK, Todos, NEW c \in Callers, cmd[c] \in Commands
    PROVE  /\ todo[c] \in Seq(Steps) /\ Chained(todo[c])
           /\ Script(cmd[c]) \in Seq(Steps) /\ Rest(todo[c], Script(cmd[c]))
           /\ cmd[c] \notin Posts => todo[c] \in Seq(Plain \cup {"no-web"})
           /\ cmd[c] \notin Controls => todo[c] \in Seq(Plain \cup {"lock"})
           /\ cmd[c] \in Stops => todo[c] \in Seq(StopSteps)
           /\ cmd[c] \in Starts => Ahead(todo[c]) /\ todo[c] \in Seq(Steps \ {"look"})
<1>1. todo[c] \in Seq(Steps)
  BY DEF Todos
<1>2. Script(cmd[c]) \in Seq(Steps) /\ Chained(Script(cmd[c]))
  BY ScriptsWell DEF Well
<1>3. IsSuffix(todo[c], Script(cmd[c]))
  BY DEF ServiceTypeOK
<1>4. Rest(todo[c], Script(cmd[c]))
  BY <1>1, <1>2, <1>3, SuffixIsRest
<1>5. Chained(todo[c]) /\ (Ahead(Script(cmd[c])) => Ahead(todo[c]))
  BY <1>1, <1>2, <1>4, RestFacts
<1>6. ASSUME NEW U, Script(cmd[c]) \in Seq(U) PROVE todo[c] \in Seq(U)
  BY <1>1, <1>4, <1>6, RestFacts
<1>7. cmd[c] \notin Posts => todo[c] \in Seq(Plain \cup {"no-web"})
  BY <1>6, ScriptsOwn
<1>8. cmd[c] \notin Controls => todo[c] \in Seq(Plain \cup {"lock"})
  BY <1>6, ScriptsOwn
<1>9. cmd[c] \in Stops => todo[c] \in Seq(StopSteps)
  BY <1>6, StopsStop
<1>10. cmd[c] \in Starts => Ahead(todo[c]) /\ todo[c] \in Seq(Steps \ {"look"})
  BY <1>5, <1>6, StartsArrive, StartsNeverLook DEF Arrives
<1>11. QED
  BY <1>1, <1>2, <1>4, <1>5, <1>7, <1>8, <1>9, <1>10

\* The next step but one may follow the next one.
LEMMA ContinueFacts ==
    ASSUME NEW c \in Callers, todo \in [Callers -> Seq(Steps)], todo[c] # <<>>,
           Chained(todo[c]), todo'[c] = Tail(todo[c])
    PROVE  /\ todo'[c] \in Seq(Steps)
           /\ Len(todo'[c]) = Len(todo[c]) - 1
           /\ \A i \in 1..(Len(todo[c]) - 1) : todo'[c][i] = todo[c][i + 1]
           /\ todo'[c] # <<>> => Joins(Head(todo[c]), Head(todo'[c]))
<1> DEFINE s == todo[c]
<1>1. s \in Seq(Steps) /\ Len(s) \in Nat /\ Len(s) # 0 /\ s # <<>>
  <2>1. s \in Seq(Steps) /\ s # <<>>
    OBVIOUS
  <2>2. QED
    BY <2>1, EmptySeq
<1>2. todo'[c] = Tail(s)
  OBVIOUS
<1> HIDE DEF s
<1>3. Tail(s) \in Seq(Steps) /\ Len(Tail(s)) = Len(s) - 1 /\ Head(s) = s[1]
  BY <1>1
<1>4. \A i \in 1..(Len(s) - 1) : Tail(s)[i] = s[i + 1]
  BY <1>1
<1>5. ASSUME Tail(s) # <<>> PROVE Joins(Head(s), Head(Tail(s)))
  <2>1. Len(Tail(s)) # 0
    BY <1>3, <1>5, EmptySeq
  <2>2. 2 \in 2..Len(s) /\ 1 \in 1..(Len(s) - 1)
    BY <1>1, <1>3, <2>1
  <2>3. Head(Tail(s)) = Tail(s)[1] /\ Tail(s)[1] = s[1 + 1] /\ 1 + 1 = 2 /\ 2 - 1 = 1
    BY <1>3, <1>4, <2>1, <2>2
  <2>4. Joins(s[2 - 1], s[2])
    BY <2>2 DEF Chained, s
  <2>5. QED
    BY <1>3, <2>3, <2>4
<1>6. QED
  BY <1>2, <1>3, <1>4, <1>5 DEF s

\* After a failure no step comes that relies on the one before.
LEMMA FailGoesOn ==
    ASSUME NEW c \in Callers, todo \in [Callers -> Seq(Steps)], Chained(todo[c]), Fail(c)
    PROVE  ~Heads(todo'[c], Inner)
<1> DEFINE s == todo[c]
<1>1. s \in Seq(Steps)
  OBVIOUS
<1>2. PICK n \in 1..(Len(s) + 1) :
         /\ todo' = [todo EXCEPT ![c] = SubSeq(s, n, Len(s))]
         /\ n <= Len(s) => /\ n \in 2..Len(s)
                           /\ \/ s[n - 1] = "else"
                              \/ s[n - 1] = "daemon" /\ s[n] # "else"
  BY <1>1, FailFacts
<1>3. todo'[c] = SubSeq(s, n, Len(s))
  BY <1>2
<1>4. CASE n <= Len(s)
  <2>1. Joins(s[n - 1], s[n])
    BY <1>2, <1>4 DEF Chained
  <2>2. s[n] \notin Inner
    BY <1>2, <1>4, <2>1 DEF Joins, Inner
  <2>3. Head(SubSeq(s, n, Len(s))) = s[n]
    BY <1>1, <1>4, TailOfSlice
  <2>4. QED
    BY <1>3, <2>2, <2>3 DEF Heads
<1>5. CASE ~(n <= Len(s))
  <2>1. Len(s) \in Nat /\ Len(s) - n + 1 = 0
    BY <1>1, <1>5
  <2>2. SubSeq(s, n, Len(s)) = <<>>
    BY <1>1, <2>1, SliceFacts, EmptySeq
  <2>3. QED
    BY <1>3, <2>2 DEF Heads
<1>6. QED
  BY <1>4, <1>5

\* Whatever a step does, it leaves a part of what was left.
LEMMA GoesOn ==
    ASSUME NEW c \in Callers, NEW T, todo \in [Callers -> Seq(Steps)], todo[c] \in Seq(T),
           todo[c] # <<>>,
           Continue(c) \/ Fail(c) \/ todo' = [todo EXCEPT ![c] = <<>>]
    PROVE  \E n \in 1..(Len(todo[c]) + 1) :
              todo' = [todo EXCEPT ![c] = SubSeq(todo[c], n, Len(todo[c]))]
<1>1. Len(todo[c]) \in Nat /\ Len(todo[c]) # 0
  BY EmptySeq
<1>2. CASE Continue(c)
  <2>1. Tail(todo[c]) = SubSeq(todo[c], 2, Len(todo[c])) /\ 2 \in 1..(Len(todo[c]) + 1)
    BY <1>1, TailIsSubSeq
  <2>2. QED
    BY <1>2, <2>1 DEF Continue
<1>3. CASE Fail(c)
  BY <1>3, FailFacts
<1>4. CASE todo' = [todo EXCEPT ![c] = <<>>]
  <2>1. Len(todo[c]) + 1 \in 1..(Len(todo[c]) + 1) /\ Len(todo[c]) - (Len(todo[c]) + 1) + 1 = 0
    BY <1>1
  <2>2. SubSeq(todo[c], Len(todo[c]) + 1, Len(todo[c])) = <<>>
    BY <2>1, SliceFacts, EmptySeq
  <2>3. QED
    BY <1>4, <2>1, <2>2
<1>5. QED
  BY <1>2, <1>3, <1>4

-----------------------------------------------------------------------------
(***************************************************************************)
(* Whose turn it is                                                        *)
(***************************************************************************)
LEMMA HeadActs ==
    ASSUME NEW c \in Callers, Proceed(c), todo[c] # <<>>
    PROVE  /\ cmd[c] # "none"
           /\ \/ Head(todo[c]) = "check" /\ Check(c)
              \/ Head(todo[c]) = "peek" /\ Peek(c)
              \/ Head(todo[c]) = "clean" /\ Clean(c)
              \/ Head(todo[c]) = "daemon" /\ Daemon(c)
              \/ Head(todo[c]) = "else" /\ SkipElse(c)
              \/ Head(todo[c]) = "term" /\ Term(c)
              \/ Head(todo[c]) = "kill" /\ Kill(c)
              \/ Head(todo[c]) = "remove" /\ RemoveSeen(c)
              \/ Head(todo[c]) = "pkill-f" /\ KillByLine(c)
              \/ Head(todo[c]) = "pkill-x" /\ KillByName(c)
              \/ Head(todo[c]) = "rm" /\ RemoveAll(c)
              \/ Head(todo[c]) = "look" /\ Look(c)
              \/ Head(todo[c]) = "lock" /\ Lock(c)
              \/ Head(todo[c]) = "truncate" /\ Truncate(c)
              \/ Head(todo[c]) = "write" /\ Write(c)
              \/ Head(todo[c]) = "no-web" /\ StopWeb(c)
              \/ Head(todo[c]) = "web" /\ StartWeb(c)
<1>1. CASE Check(c) \/ Peek(c) \/ Clean(c) \/ Daemon(c) \/ SkipElse(c)
  BY <1>1 DEF Check, Peek, Clean, Daemon, SkipElse, Step, Now
<1>2. CASE Term(c) \/ Kill(c) \/ RemoveSeen(c) \/ KillByLine(c) \/ KillByName(c) \/ RemoveAll(c)
  BY <1>2 DEF Term, Kill, RemoveSeen, KillByLine, KillByName, RemoveAll, Step, Now
<1>3. CASE Look(c) \/ Lock(c) \/ Truncate(c) \/ Write(c) \/ StopWeb(c) \/ StartWeb(c)
  BY <1>3 DEF Look, Lock, Truncate, Write, StopWeb, StartWeb, Step, Now
<1>4. ~End(c)
  BY DEF End
<1>5. QED
  BY <1>1, <1>2, <1>3, <1>4 DEF Proceed

\* A script without steps left ends.
LEMMA EndActs ==
    ASSUME NEW c \in Callers, Proceed(c), todo[c] = <<>>
    PROVE  End(c)
BY DEF Proceed, Check, Peek, Clean, Daemon, SkipElse, Term, Kill, RemoveSeen, KillByLine,
   KillByName, RemoveAll, Look, Lock, Truncate, Write, StopWeb, StartWeb, Step, Now

\* Only a command that runs proceeds.
LEMMA ProceedsRunning == ASSUME NEW c \in Callers, Proceed(c) PROVE cmd[c] # "none"
BY HeadActs, EndActs DEF End

\* What every step but the stop of hev-controller has in common.
LEMMA StepKeeps ==
    ASSUME NEW c \in Callers, Proceed(c), todo[c] # <<>>, Head(todo[c]) # "no-web"
    PROVE  /\ cmd' = cmd /\ alone' = alone /\ tame' = tame /\ last' = last
           /\ Continue(c) \/ Fail(c) \/ todo' = [todo EXCEPT ![c] = <<>>]
<1>1. CASE Check(c) \/ Peek(c) \/ Clean(c) \/ Daemon(c) \/ SkipElse(c)
  BY <1>1 DEF Check, Peek, Clean, Daemon, SkipElse, Step
<1>2. CASE Term(c) \/ Kill(c) \/ RemoveSeen(c) \/ KillByLine(c) \/ KillByName(c) \/ RemoveAll(c)
  BY <1>2 DEF Term, Kill, RemoveSeen, KillByLine, KillByName, RemoveAll, Step
<1>3. CASE Look(c) \/ Lock(c) \/ Truncate(c) \/ Write(c) \/ StartWeb(c)
  BY <1>3 DEF Look, Lock, Truncate, Write, StartWeb, Step
<1>4. QED
  BY <1>1, <1>2, <1>3, HeadActs

\* Which commands are which.
LEMMA Words ==
    /\ "none" \notin Commands /\ "orphan" \notin Commands /\ "crash" \notin Commands
    /\ "failed-save" \notin Commands /\ "failed-save" \in Posts
    /\ "failed-save" \notin Starts /\ "failed-save" \notin Stops
    /\ "none" \notin Posts /\ "orphan" \notin Posts
    /\ "none" \notin Requests /\ "orphan" \notin Requests
    /\ "none" \notin Starts /\ "orphan" \notin Starts /\ "crash" \notin Starts
    /\ "none" \notin Stops /\ "orphan" \notin Stops
    /\ Posts \subseteq Requests
    /\ Stops \cap Posts = {} /\ Stops \cap Starts = {} /\ Controls \cap Requests = {}
<1>1. /\ "none" \notin Commands /\ "orphan" \notin Commands /\ "crash" \notin Commands
      /\ "failed-save" \notin Commands
  BY ServiceAssumption
<1>2. QED
  BY <1>1 DEF Posts, Requests, Starts, Restarts, Stops, Controls

\* A POST begins with the mutex.
LEMMA LockIsFirst ==
    ASSUME NEW command \in Commands, command \in Posts
    PROVE  Script(command) # <<>> /\ Head(Script(command)) = "lock"
<1>1. PICK y \in Steps : Well(Script(command), "lock", y)
  BY ScriptsWell
<1>2. QED
  BY <1>1 DEF Well

\* A POST that waits for the mutex can do nothing else.
LEMMA WaitsForLock ==
    ASSUME ServiceTypeOK, Todos, LockFirst, NEW c \in Callers, cmd[c] \in Posts, mu # c
    PROVE  cmd[c] \in Commands /\ todo[c] # <<>> /\ Head(todo[c]) = "lock"
<1>1. cmd[c] \in Commands /\ todo[c] = Script(cmd[c])
  BY DEF LockFirst
<1>2. QED
  BY <1>1, LockIsFirst

\* While one is master nobody else proceeds.
LEMMA OneAtATime ==
    ASSUME ServiceTypeOK, Todos, LockFirst, Solo,
           NEW c \in Callers, NEW d \in Callers, Master(c), Proceed(d)
    PROVE  c = d
<1>1. SUFFICES ASSUME c # d PROVE FALSE
  OBVIOUS
<1>2. cmd[d] # "none" /\ cmd[c] \in Commands /\ cmd[c] # "none"
  BY ProceedsRunning, Words DEF Master
<1>3. ~alone[c]
  BY <1>1, <1>2 DEF Solo
<1>4. cmd[c] \in Posts /\ cmd[d] \in Posts
  <2>1. tame /\ d \in Callers \ {c}
    BY <1>1, <1>3 DEF Master
  <2>2. {cmd[c], cmd[d]} \subseteq Posts
    BY <1>2, <2>1 DEF Solo
  <2>3. QED
    BY <2>2
<1>5. mu = c /\ mu # d
  BY <1>1, <1>4 DEF Master
<1>6. todo[d] # <<>> /\ Head(todo[d]) = "lock"
  BY <1>4, <1>5, WaitsForLock
<1>7. Lock(d)
  BY <1>6, HeadActs
<1>8. mu = NoCaller
  BY <1>7 DEF Lock
<1>9. QED
  BY <1>5, <1>8, ServiceAssumption

\* Where it matters, only a Master proceeds, or a POST takes the mutex.
LEMMA LockOrMaster ==
    ASSUME ServiceTypeOK, Todos, LockFirst, Solo,
           NEW c \in Callers, cmd[c] \in Commands, Proceed(c), tame \/ alone[c]
    PROVE  Master(c) \/ (Lock(c) /\ cmd[c] \in Posts)
<1>1. CASE cmd[c] \in Posts /\ mu # c
  <2>1. todo[c] # <<>> /\ Head(todo[c]) = "lock"
    BY <1>1, WaitsForLock
  <2>2. QED
    BY <1>1, <2>1, HeadActs
<1>2. CASE ~(cmd[c] \in Posts /\ mu # c)
  BY <1>2 DEF Master
<1>3. QED
  BY <1>1, <1>2

\* What stopping the controller leaves of the one who does it.
LEMMA StopWebFacts ==
    ASSUME ServiceTypeOK, Todos, NEW c \in Callers, cmd[c] \in Commands, StopWeb(c)
    PROVE  /\ cmd[c] \in Controls /\ cmd'[c] = cmd[c]
           /\ todo'[c] = Tail(todo[c])
           /\ alone' = alone /\ tame' = tame /\ last' = last
           /\ up' = up /\ fresh' = fresh /\ file' = file /\ whole' = whole /\ seen' = seen
<1>1. todo[c] \in Seq(Steps) /\ todo[c] # <<>> /\ Head(todo[c]) = "no-web"
  BY TodoFacts DEF StopWeb, Now
<1>2. cmd[c] \in Controls
  <2>1. SUFFICES ASSUME cmd[c] \notin Controls PROVE FALSE
    OBVIOUS
  <2>2. todo[c] \in Seq(Plain \cup {"lock"})
    BY <2>1, TodoFacts
  <2>3. Head(todo[c]) \in Plain \cup {"lock"}
    BY <1>1, <2>2
  <2>4. QED
    BY <1>1, <2>3 DEF Plain, StopSteps
<1>3. cmd[c] \notin Requests
  BY <1>2, Words
<1>4. cmd'[c] = cmd[c] /\ todo'[c] = Tail(todo[c])
  BY <1>3 DEF StopWeb
<1>5. QED
  BY <1>2, <1>4 DEF StopWeb

\* A step the next one relies on has gone well.
LEMMA NextFacts ==
    ASSUME ServiceTypeOK, Todos, NEW c \in Callers, cmd[c] \in Commands,
           Proceed(c), todo[c] # <<>>
    PROVE  /\ cmd'[c] = cmd[c] /\ alone' = alone /\ tame' = tame /\ last' = last
           /\ todo[c] \in Seq(Steps) /\ Head(todo[c]) \in Steps
           /\ Heads(todo'[c], Inner) =>
                todo'[c] = Tail(todo[c]) /\ Joins(Head(todo[c]), Head(todo'[c]))
<1>1. /\ todo \in [Callers -> Seq(Steps)] /\ todo[c] \in Seq(Steps)
      /\ Chained(todo[c]) /\ Head(todo[c]) \in Steps
  BY TodoFacts DEF Todos
<1>2. ASSUME todo'[c] = Tail(todo[c]), Heads(todo'[c], Inner)
      PROVE  Joins(Head(todo[c]), Head(todo'[c]))
  BY <1>1, <1>2, ContinueFacts DEF Heads
<1>3. CASE Head(todo[c]) = "no-web"
  <2>1. StopWeb(c)
    BY <1>3, HeadActs
  <2>2. QED
    BY <1>1, <1>2, <2>1, StopWebFacts
<1>4. CASE Head(todo[c]) # "no-web"
  <2>1. /\ cmd' = cmd /\ alone' = alone /\ tame' = tame /\ last' = last
        /\ Continue(c) \/ Fail(c) \/ todo' = [todo EXCEPT ![c] = <<>>]
    BY <1>4, StepKeeps
  <2>2. CASE Continue(c)
    <3>1. todo'[c] = Tail(todo[c])
      BY <1>1, <2>2 DEF Continue
    <3>2. QED
      BY <1>1, <1>2, <2>1, <3>1
  <2>3. CASE Fail(c)
    BY <1>1, <2>1, <2>3, FailGoesOn
  <2>4. CASE todo' = [todo EXCEPT ![c] = <<>>]
    <3>1. todo'[c] = <<>>
      BY <1>1, <2>4
    <3>2. QED
      BY <1>1, <2>1, <3>1 DEF Heads
  <2>5. QED
    BY <2>1, <2>2, <2>3, <2>4
<1>5. QED
  BY <1>3, <1>4

-----------------------------------------------------------------------------
(***************************************************************************)
(* What a Master knows, and what it brings about                           *)
(***************************************************************************)
LEMMA KnowsKept ==
    ASSUME ServiceTypeOK, Todos, NEW c \in Callers, cmd[c] \in Commands,
           Proceed(c), todo[c] # <<>>, Master(c) \/ Lock(c), Knows(c)
    PROVE  Knows(c)'
<1> DEFINE h == Head(todo[c])
           next == Head(todo'[c])
<1>1. /\ Heads(todo'[c], Inner) => Joins(h, next)
      /\ todo[c] # <<>> /\ seen \in [Callers -> Pids \cup {NoPid}]
      /\ file \in Pids \cup {NoPid} /\ up \subseteq Pids
  BY NextFacts DEF ServiceTypeOK
<1>2. ASSUME Heads(todo'[c], {"clean", "term"})
      PROVE  file' = seen'[c]
  <2>1. h = "peek"
    BY <1>1, <1>2 DEF Joins, Heads, Inner
  <2>2. Peek(c)
    BY <1>1, <2>1, HeadActs
  <2>3. QED
    BY <1>1, <2>2 DEF Peek
<1>3. ASSUME Heads(todo'[c], {"kill"})
      PROVE  file' \in {seen'[c], NoPid}
  <2>1. h = "term"
    BY <1>1, <1>3 DEF Joins, Heads, Inner
  <2>2. Term(c) /\ ~Lock(c)
    BY <1>1, <2>1, HeadActs DEF Lock, Step, Now
  <2>3. file \in {seen[c], NoPid}
    BY <1>1, <2>1, <2>2 DEF Knows, Heads
  <2>4. QED
    BY <2>2, <2>3 DEF Term, Ends, FileWithout
<1>4. ASSUME Heads(todo'[c], {"remove"})
      PROVE  file' \in {seen'[c], NoPid} /\ seen'[c] \notin up'
  <2>1. h = "kill"
    BY <1>1, <1>4 DEF Joins, Heads, Inner
  <2>2. Kill(c) /\ ~Lock(c)
    BY <1>1, <2>1, HeadActs DEF Lock, Step, Now
  <2>3. file \in {seen[c], NoPid}
    BY <1>1, <2>1, <2>2 DEF Knows, Heads
  <2>4. QED
    BY <2>2, <2>3 DEF Kill, Ends, FileWithout
<1>5. ASSUME Heads(todo'[c], {"rm"})
      PROVE  up' = {}
  <2>1. h = "pkill-x"
    BY <1>1, <1>5 DEF Joins, Heads, Inner
  <2>2. KillByName(c)
    BY <1>1, <2>1, HeadActs
  <2>3. QED
    BY <2>2 DEF KillByName, Ends
<1>6. Heads(todo'[c], {"clean", "term", "kill", "remove"}) => file' \in {seen'[c], NoPid}
  BY <1>2, <1>3, <1>4 DEF Heads
<1>7. QED
  BY <1>4, <1>5, <1>6 DEF Knows

\* While the instance that may run is the one of the file, no step leaves another.
LEMMA OneKept ==
    ASSUME ServiceTypeOK, Todos, NEW c \in Callers, cmd[c] \in Commands,
           Proceed(c), todo[c] # <<>>, Master(c) \/ Lock(c), Knows(c),
           up \subseteq {file}
    PROVE  up' \subseteq {file'}
<1> DEFINE h == Head(todo[c])
<1>1. /\ seen \in [Callers -> Pids \cup {NoPid}]
      /\ file \in Pids \cup {NoPid} /\ up \subseteq Pids /\ NoPid \notin up
  BY ServiceAssumption DEF ServiceTypeOK
<1>2. CASE h = "clean"
  <2>1. Clean(c) /\ ~Lock(c)
    BY <1>2, HeadActs DEF Lock, Step, Now
  <2>2. file \in {seen[c], NoPid}
    BY <1>2, <2>1 DEF Knows, Heads
  <2>3. up' = up /\ file' = IF seen[c] \in Pids \ up THEN NoPid ELSE file
    BY <2>1 DEF Clean
  <2>4. CASE seen[c] \in Pids \ up
    <3>1. file \notin up
      BY <1>1, <2>2, <2>4
    <3>2. QED
      BY <2>3, <3>1
  <2>5. CASE seen[c] \notin Pids \ up
    BY <2>3, <2>5
  <2>6. QED
    BY <2>4, <2>5
<1>3. CASE h = "daemon"
  <2>1. Daemon(c)
    BY <1>3, HeadActs
  <2>2. CASE file \in up \/ up = Pids
    BY <2>1, <2>2 DEF Daemon
  <2>3. CASE ~(file \in up \/ up = Pids)
    <3>1. up = {}
      BY <2>3
    <3>2. PICK p \in Pids \ up :
             IF whole THEN up' = up \cup {p} /\ fresh' = fresh \cup {p} /\ file' = p
             ELSE file' = NoPid /\ UNCHANGED <<up, fresh>>
      BY <2>1, <2>3 DEF Daemon
    <3>3. QED
      BY <3>1, <3>2
  <2>4. QED
    BY <2>2, <2>3
<1>4. CASE h = "remove"
  <2>1. RemoveSeen(c) /\ ~Lock(c)
    BY <1>4, HeadActs DEF Lock, Step, Now
  <2>2. file \in {seen[c], NoPid} /\ seen[c] \notin up
    BY <1>4, <2>1 DEF Knows, Heads
  <2>3. file \notin up
    BY <1>1, <2>2
  <2>4. QED
    BY <2>1, <2>3 DEF RemoveSeen
<1>5. CASE h = "rm"
  <2>1. RemoveAll(c) /\ ~Lock(c)
    BY <1>5, HeadActs DEF Lock, Step, Now
  <2>2. up = {}
    BY <1>5, <2>1 DEF Knows, Heads
  <2>3. QED
    BY <2>1, <2>2 DEF RemoveAll
<1>6. CASE h \in {"term", "kill", "pkill-x"}
  <2>1. Term(c) \/ Kill(c) \/ KillByName(c)
    BY <1>6, HeadActs
  <2>2. (up' = up /\ file' = file) \/ \E gone \in SUBSET up : Ends(gone)
    BY <2>1 DEF Term, Kill, KillByName
  <2>3. ASSUME NEW gone, Ends(gone) PROVE up' \subseteq {file'}
    BY <2>3 DEF Ends, FileWithout
  <2>4. QED
    BY <2>2, <2>3
<1>7. CASE h \notin {"clean", "daemon", "remove", "rm", "term", "kill", "pkill-x"}
  <2>1. up' \subseteq up /\ (file' = file \/ up' = {})
    BY <1>7, HeadActs DEF Check, Peek, SkipElse, KillByLine, Look, Lock, Truncate, Write,
       StopWeb, StartWeb
  <2>2. QED
    BY <2>1
<1>8. QED
  BY <1>2, <1>3, <1>4, <1>5, <1>6, <1>7

\* What a step leaves of what was ahead.
LEMMA HasAhead ==
    ASSUME NEW T, NEW s \in Seq(T), s # <<>>, NEW step, Has(s, step), Head(s) # step
    PROVE  Has(Tail(s), step)
<1>1. PICK i \in 1..Len(s) : s[i] = step
  BY DEF Has
<1>2. Len(s) \in Nat /\ Len(s) # 0 /\ Head(s) = s[1]
  BY EmptySeq
<1>3. i - 1 \in 1..(Len(s) - 1) /\ i - 1 + 1 = i
  BY <1>1, <1>2
<1>4. Len(Tail(s)) = Len(s) - 1 /\ Tail(s)[i - 1] = s[i - 1 + 1]
  BY <1>3
<1>5. QED
  BY <1>1, <1>3, <1>4 DEF Has

\* A stop nothing disturbs keeps its promise at each step.
LEMMA ClearsKept ==
    ASSUME ServiceTypeOK, Todos, Solo, NEW c \in Callers, cmd[c] \in Commands,
           Proceed(c), todo[c] # <<>>, Knows(c), Clears(c)
    PROVE  Clears(c)'
<1> DEFINE h == Head(todo[c])
           r == todo'[c]
<1>1. /\ cmd'[c] = cmd[c] /\ alone' = alone
      /\ seen \in [Callers -> Pids \cup {NoPid}] /\ todo[c] \in Seq(Steps)
  BY NextFacts DEF ServiceTypeOK
<1>2. SUFFICES ASSUME alone[c], cmd[c] \in Stops
               PROVE  /\ Has(r, "remove") \/ file' = NoPid
                      /\ Has(r, "pkill-f") \/ up' = {}
  BY <1>1 DEF Clears
<1>3. Master(c)
  BY <1>2, Words DEF Master
<1>4. h \in StopSteps /\ todo[c] # <<>>
  <2>1. todo[c] \in Seq(StopSteps)
    BY <1>2, TodoFacts
  <2>2. QED
    BY <2>1
<1>5. /\ Has(todo[c], "remove") \/ file = NoPid
      /\ Has(todo[c], "pkill-f") \/ up = {}
  BY <1>2 DEF Clears
<1>6. todo \in [Callers -> Seq(Steps)]
  BY DEF Todos
<1>7. CASE h = "look" /\ up = {} /\ file = NoPid
  <2>1. Look(c)
    BY <1>4, <1>7, HeadActs
  <2>2. QED
    BY <1>7, <2>1 DEF Look
<1>8. CASE ~(h = "look" /\ up = {} /\ file = NoPid)
  <2>1. r = Tail(todo[c])
    <3>1. CASE h = "no-web"
      BY <1>4, <3>1, HeadActs, StopWebFacts
    <3>2. CASE h = "look"
      BY <1>4, <1>6, <1>8, <3>2, HeadActs DEF Look, Continue
    <3>3. CASE h \in StopSteps \ {"no-web", "look"}
      <4>1. Continue(c)
        BY <1>4, <3>3, HeadActs DEF StopSteps, Peek, Term, Kill, RemoveSeen, KillByLine,
           KillByName, RemoveAll
      <4>2. QED
        BY <1>6, <4>1 DEF Continue
    <3>4. QED
      BY <1>4, <3>1, <3>2, <3>3
  <2>2. h # "remove" /\ Has(todo[c], "remove") => Has(r, "remove")
    BY <1>1, <1>4, <2>1, HasAhead
  <2>3. h # "pkill-f" /\ Has(todo[c], "pkill-f") => Has(r, "pkill-f")
    BY <1>1, <1>4, <2>1, HasAhead
  <2>4. file = NoPid => file' = NoPid
    BY <1>4, HeadActs DEF StopSteps, Peek, Term, Kill, RemoveSeen, KillByLine,
       KillByName, RemoveAll, Look, StopWeb, Ends, FileWithout
  <2>5. up = {} => up' = {}
    BY <1>4, HeadActs DEF StopSteps, Peek, Term, Kill, RemoveSeen, KillByLine,
       KillByName, RemoveAll, Look, StopWeb, Ends
  <2>6. h = "remove" => file' = NoPid
    <3>1. SUFFICES ASSUME h = "remove" PROVE file' = NoPid
      OBVIOUS
    <3>2. RemoveSeen(c)
      BY <1>4, <3>1, HeadActs
    <3>3. file \in {seen[c], NoPid}
      BY <1>3, <1>4, <3>1 DEF Knows, Heads
    <3>4. QED
      BY <3>2, <3>3 DEF RemoveSeen
  <2>7. h = "pkill-f" => up' = {}
    BY <1>4, HeadActs DEF KillByLine
  <2>8. QED
    BY <1>5, <2>2, <2>3, <2>4, <2>5, <2>6, <2>7
<1>9. QED
  BY <1>7, <1>8

\* So does a start.
LEMMA BringsKept ==
    ASSUME ServiceTypeOK, Todos, NEW c \in Callers, cmd[c] \in Commands,
           Proceed(c), todo[c] # <<>>, Master(c) \/ Lock(c), Brings(c)
    PROVE  Brings(c)'
<1> DEFINE h == Head(todo[c])
           r == todo'[c]
<1>1. /\ cmd'[c] = cmd[c] /\ alone' = alone /\ tame' = tame /\ last' = last
      /\ todo[c] \in Seq(Steps) /\ h \in Steps
      /\ Heads(r, Inner) => r = Tail(todo[c]) /\ Joins(h, Head(r))
  BY NextFacts
<1>2. SUFFICES ASSUME cmd[c] \in Starts, tame, last # "crash"
               PROVE  \/ Has(r, "daemon") /\ ~Heads(r, {"else"})
                      \/ up' # {} \/ ~whole'
  BY <1>1 DEF Brings
<1>3. Ahead(todo[c]) /\ todo[c] \in Seq(Steps \ {"look"}) /\ h \in Steps \ {"look"}
  <2>1. Ahead(todo[c]) /\ todo[c] \in Seq(Steps \ {"look"})
    BY <1>2, TodoFacts
  <2>2. QED
    BY <2>1
<1>4. todo \in [Callers -> Seq(Steps)]
  BY DEF Todos
<1>5. h # "daemon" => ~Heads(r, {"else"})
  BY <1>1 DEF Heads, Inner, Joins
<1>6. ASSUME h \notin {"daemon", "else", "web"} PROVE Has(todo[c], "daemon")
  <2>1. Len(todo[c]) \in Nat /\ Len(todo[c]) # 0 /\ h = todo[c][1]
    BY <1>1, EmptySeq
  <2>2. 1 \in 1..Len(todo[c])
    BY <2>1
  <2>3. PICK j \in (1 + 1)..Len(todo[c]) : todo[c][j] = "daemon"
    BY <1>3, <1>6, <2>1, <2>2 DEF Ahead
  <2>4. j \in 1..Len(todo[c])
    BY <2>1
  <2>5. QED
    BY <2>3, <2>4 DEF Has
<1>7. CASE h \notin {"check", "daemon", "else", "web"}
  <2>1. r = Tail(todo[c])
    <3>1. CASE h = "no-web"
      BY <3>1, HeadActs, StopWebFacts
    <3>2. CASE h # "no-web"
      <4>1. Continue(c)
        BY <1>3, <1>7, <3>2, HeadActs DEF Peek, Clean, Term, Kill, RemoveSeen, KillByLine,
           KillByName, RemoveAll, Lock, Truncate, Write
      <4>2. QED
        BY <1>4, <4>1 DEF Continue
    <3>3. QED
      BY <3>1, <3>2
  <2>2. Has(r, "daemon")
    BY <1>1, <1>6, <1>7, <2>1, HasAhead
  <2>3. QED
    BY <1>5, <1>7, <2>2
<1>8. CASE h = "check"
  <2>1. Check(c)
    BY <1>8, HeadActs
  <2>2. CASE file \in up
    BY <2>1, <2>2 DEF Check
  <2>3. CASE file \notin up
    <3>1. r = Tail(todo[c])
      BY <1>4, <2>1, <2>3 DEF Check, Continue
    <3>2. Has(r, "daemon")
      BY <1>1, <1>6, <1>8, <3>1, HasAhead
    <3>3. QED
      BY <1>5, <1>8, <3>2
  <2>4. QED
    BY <2>2, <2>3
<1>9. CASE h = "daemon"
  <2>1. Daemon(c)
    BY <1>9, HeadActs
  <2>2. CASE file \in up \/ up = Pids
    BY <2>1, <2>2, ServiceAssumption DEF Daemon
  <2>3. CASE ~(file \in up \/ up = Pids)
    BY <2>1, <2>3 DEF Daemon
  <2>4. QED
    BY <2>2, <2>3
<1>10. CASE h \in {"else", "web"}
  <2>1. ~Lock(c)
    BY <1>10 DEF Lock, Step, Now
  <2>2. \/ Has(todo[c], "daemon") /\ ~Heads(todo[c], {"else"})
        \/ up # {} \/ ~whole
    BY <1>2, <2>1 DEF Brings
  <2>3. up' = up /\ whole' = whole
    BY <1>10, HeadActs DEF SkipElse, StartWeb
  <2>4. CASE h = "else"
    BY <2>2, <2>3, <2>4 DEF Heads
  <2>5. CASE h = "web"
    <3>1. r = Tail(todo[c])
      BY <1>4, <2>5, HeadActs DEF StartWeb, Continue
    <3>2. Has(todo[c], "daemon") => Has(r, "daemon")
      BY <1>1, <2>5, <3>1, HasAhead
    <3>3. QED
      BY <1>5, <2>2, <2>3, <2>5, <3>2
  <2>6. QED
    BY <1>10, <2>4, <2>5
<1>11. QED
  BY <1>7, <1>8, <1>9, <1>10

\* How far a save and restart has come shows in the number of steps it has left.
LEMMA SaveHeads ==
    ASSUME ServiceTypeOK, Todos, NEW c \in Callers, cmd[c] = "save-and-restart",
           cmd[c] \in Commands, todo[c] # <<>>
    PROVE  /\ Len(todo[c]) \in 1..12
           /\ Len(todo[c]) = 12 => Head(todo[c]) = "lock"
           /\ Len(todo[c]) = 11 => Head(todo[c]) = "truncate"
           /\ Len(todo[c]) = 10 => Head(todo[c]) = "write"
           /\ Len(todo[c]) \in 1..9 => Head(todo[c]) = RcRestart[10 - Len(todo[c])]
<1> DEFINE s == todo[c]
           n == Len(s)
<1>1. s \in Seq(Steps) /\ Rest(s, SaveRestart)
  <2>1. Script(cmd[c]) = SaveRestart
    BY DEF Script
  <2>2. QED
    BY <2>1, TodoFacts
<1>2. n \in Nat /\ n # 0 /\ Head(s) = s[1]
  BY <1>1, EmptySeq
<1> HIDE DEF s
<1>3. n <= 12 /\ \A i \in 1..n : s[i] = SaveRestart[12 - n + i]
  BY <1>1, SaveRestartSteps DEF Rest
<1> HIDE DEF n
<1>4. Head(s) = SaveRestart[12 - n + 1] /\ n \in 1..12
  <2>1. 1 \in 1..n
    BY <1>2
  <2>2. s[1] = SaveRestart[12 - n + 1]
    BY <1>3, <2>1
  <2>3. n \in 1..12
    BY <1>2, <1>3
  <2>4. QED
    BY <1>2, <2>2, <2>3
<1>5. n \in 1..9 => Head(s) = RcRestart[10 - n]
  <2>1. ASSUME n \in 1..9 PROVE 10 - n \in 1..9 /\ 12 - n + 1 = 3 + (10 - n)
    BY <2>1
  <2>2. ASSUME n \in 1..9 PROVE SaveRestart[3 + (10 - n)] = RcRestart[10 - n]
    BY <2>1, <2>2, SaveRestartSteps
  <2>3. QED
    BY <1>4, <2>1, <2>2
<1>6. /\ n = 12 => 12 - n + 1 = 1
      /\ n = 11 => 12 - n + 1 = 2
      /\ n = 10 => 12 - n + 1 = 3
  BY <1>4
<1>7. QED
  BY <1>4, <1>5, <1>6, SaveRestartSteps DEF n, s

\* So does a save and restart.
LEMMA SavesKept ==
    ASSUME ServiceTypeOK, Todos, NEW c \in Callers, cmd[c] \in Commands,
           Proceed(c), todo[c] # <<>>, Master(c) \/ Lock(c), Saves(c)
    PROVE  Saves(c)'
<1> DEFINE h == Head(todo[c])
           n == Len(todo[c])
           r == todo'[c]
<1>1. /\ cmd'[c] = cmd[c] /\ alone' = alone /\ tame' = tame /\ last' = last
      /\ todo[c] \in Seq(Steps) /\ h \in Steps
  BY NextFacts
<1>2. SUFFICES ASSUME cmd[c] = "save-and-restart", tame
               PROVE  /\ Len(r) <= 9 => whole'
                      /\ Len(r) \in 1..4 => up' = {}
                      /\ r = <<>> /\ last # "crash" => up' # {} /\ up' = fresh'
  BY <1>1 DEF Saves
<1>3. todo \in [Callers -> Seq(Steps)] /\ Chained(todo[c])
  BY TodoFacts DEF Todos
<1>4. /\ n \in 1..12
      /\ n = 12 => h = "lock"
      /\ n = 11 => h = "truncate"
      /\ n = 10 => h = "write"
      /\ n \in 1..9 => h = RcRestart[10 - n]
  BY <1>2, SaveHeads
<1> DEFINE Counts == r = Tail(todo[c]) => Len(r) = n - 1 /\ r \in Seq(Steps)
<1>5. Counts
  BY <1>3, ContinueFacts
<1> HIDE DEF n, Counts
<1>6. /\ n = 9 => h = "peek"
      /\ n = 8 => h = "term"
      /\ n = 7 => h = "kill"
      /\ n = 6 => h = "remove"
      /\ n = 5 => h = "pkill-f"
      /\ n = 4 => h = "check"
      /\ n = 3 => h = "peek"
      /\ n = 2 => h = "clean"
      /\ n = 1 => h = "daemon"
  <2>1. ASSUME NEW i \in 1..9, n = i PROVE h = RcRestart[10 - i]
    BY <1>4, <2>1
  <2>2. h = "peek" \/ n # 9
    BY <2>1, RcRestartSteps
  <2>3. h = "term" \/ n # 8
    BY <2>1, RcRestartSteps
  <2>4. h = "kill" \/ n # 7
    BY <2>1, RcRestartSteps
  <2>5. h = "remove" \/ n # 6
    BY <2>1, RcRestartSteps
  <2>6. h = "pkill-f" \/ n # 5
    BY <2>1, RcRestartSteps
  <2>7. h = "check" \/ n # 4
    BY <2>1, RcRestartSteps
  <2>8. h = "peek" \/ n # 3
    BY <2>1, RcRestartSteps
  <2>9. h = "clean" \/ n # 2
    BY <2>1, RcRestartSteps
  <2>10. h = "daemon" \/ n # 1
    BY <2>1, RcRestartSteps
  <2>11. QED
    BY <2>2, <2>3, <2>4, <2>5, <2>6, <2>7, <2>8, <2>9, <2>10
<1>7. /\ n <= 9 => whole
      /\ n \in 1..4 => up = {}
  <2>1. SUFFICES ASSUME n <= 9 PROVE whole /\ (n \in 1..4 => up = {})
    BY <1>4
  <2>2. h # "lock"
    BY <1>4, <1>6, <2>1
  <2>3. Master(c)
    BY <2>2 DEF Lock, Step, Now
  <2>4. QED
    BY <1>2, <2>1, <2>3 DEF Saves, n
<1>8. CASE n \in 5..12
  <2>1. Continue(c)
    <3>1. CASE n \in {10, 11, 12}
      BY <1>4, <3>1, HeadActs DEF Lock, Truncate, Write
    <3>2. CASE n \in {5, 6, 7, 8, 9}
      BY <1>6, <3>2, HeadActs DEF Peek, Term, Kill, RemoveSeen, KillByLine
    <3>3. QED
      BY <1>8, <3>1, <3>2
  <2>2. r = Tail(todo[c])
    BY <1>3, <2>1 DEF Continue
  <2>3. Len(r) = n - 1 /\ r \in Seq(Steps) /\ r # <<>>
    <3>1. Len(r) = n - 1 /\ r \in Seq(Steps)
      BY <1>5, <2>2 DEF Counts
    <3>2. n - 1 # 0
      BY <1>8
    <3>3. QED
      BY <3>1, <3>2, EmptySeq
  <2>4. n = 10 => whole' = TRUE
    BY <1>4, HeadActs DEF Write
  <2>5. n \in 5..9 => whole' = whole
    <3>1. n \in 5..9 => n \in {5, 6, 7, 8, 9}
      OBVIOUS
    <3>2. QED
      BY <1>6, <3>1, HeadActs DEF Peek, Term, Kill, RemoveSeen, KillByLine
  <2>6. n = 5 => up' = {}
    BY <1>6, HeadActs DEF KillByLine
  <2>7. Len(r) <= 9 => whole'
    BY <1>7, <1>8, <2>3, <2>4, <2>5
  <2>8. Len(r) \in 1..4 => up' = {}
    BY <1>8, <2>3, <2>6
  <2>9. QED
    BY <2>3, <2>7, <2>8
<1>9. CASE n \in 2..4
  <2>1. up = {} /\ whole
    BY <1>7, <1>9
  <2>2. h \in {"check", "peek", "clean"}
    <3>1. n \in {2, 3, 4}
      BY <1>9
    <3>2. QED
      BY <1>6, <3>1
  <2>3. Continue(c) /\ up' = up /\ whole' = whole
    BY <2>1, <2>2, HeadActs DEF Check, Peek, Clean
  <2>4. r = Tail(todo[c])
    BY <1>3, <2>3 DEF Continue
  <2>5. r # <<>>
    <3>1. Len(r) = n - 1 /\ r \in Seq(Steps)
      BY <1>5, <2>4 DEF Counts
    <3>2. n - 1 # 0
      BY <1>9
    <3>3. QED
      BY <3>1, <3>2, EmptySeq
  <2>6. QED
    BY <2>1, <2>3, <2>5
<1>10. CASE n = 1
  <2>1. up = {} /\ whole
    BY <1>7, <1>10
  <2>2. Daemon(c)
    BY <1>6, <1>10, HeadActs
  <2>3. ~(file \in up \/ up = Pids)
    BY <2>1, ServiceAssumption
  <2>4. Continue(c) /\ whole' = whole
    BY <2>2, <2>3 DEF Daemon
  <2>5. PICK p \in Pids : up' = up \cup {p} /\ fresh' = fresh \cup {p}
    BY <2>1, <2>2, <2>3 DEF Daemon
  <2>6. fresh = {}
    BY <2>1 DEF ServiceTypeOK
  <2>7. up' # {} /\ up' = fresh'
    BY <2>1, <2>5, <2>6
  <2>8. r = Tail(todo[c])
    BY <1>3, <2>4 DEF Continue
  <2>9. Len(r) = 0
    BY <1>5, <1>10, <2>8 DEF Counts
  <2>10. QED
    BY <2>1, <2>4, <2>7, <2>9
<1>11. QED
  <2>1. n \in 5..12 \/ n \in 2..4 \/ n = 1
    BY <1>4
  <2>2. QED
    BY <2>1, <1>8, <1>9, <1>10

-----------------------------------------------------------------------------
(***************************************************************************)
(* Types                                                                   *)
(***************************************************************************)
LEMMA OrphansOnly ==
    ASSUME ServiceTypeOK, Todos, NEW c \in Callers, Now(c, "no-web") \/ Now(c, "lock")
    PROVE  cmd[c] \in Commands
<1>1. SUFFICES ASSUME cmd[c] = "orphan" PROVE FALSE
  BY DEF ServiceTypeOK, Todos, Now
<1>2. todo[c] \in Seq(Plain) /\ todo[c] # <<>>
  BY <1>1 DEF Todos, Now
<1>3. Head(todo[c]) \in Plain
  BY <1>2
<1>4. QED
  BY <1>3 DEF Now, Plain, StopSteps

\* Only a POST takes the mutex.
LEMMA LocksArePosts ==
    ASSUME ServiceTypeOK, Todos, NEW c \in Callers, Now(c, "lock")
    PROVE  cmd[c] \in Posts
<1>1. SUFFICES ASSUME cmd[c] \notin Posts PROVE FALSE
  OBVIOUS
<1>2. todo[c] \in Seq(Plain \cup {"no-web"}) /\ todo[c] # <<>>
  BY <1>1, OrphansOnly, TodoFacts DEF Now
<1>3. Head(todo[c]) \in Plain \cup {"no-web"}
  BY <1>2
<1>4. QED
  BY <1>3 DEF Now, Plain, StopSteps

\* What is left without hev-controller has neither its mutex nor its stop.
LEMMA LeftFacts ==
    ASSUME ServiceTypeOK, Todos, NEW d \in Callers, cmd[d] \in Requests, NEW s \in Left(d)
    PROVE  s \in Seq(Plain)
<1>1. /\ cmd[d] # "failed-save" => cmd[d] \in Commands
      /\ cmd[d] \notin Posts => cmd[d] # "failed-save"
      /\ cmd[d] \notin Controls
  BY Words DEF ServiceTypeOK
<1>2. cmd[d] # "failed-save" => todo[d] \in Seq(Steps) /\ todo[d] \in Seq(Plain \cup {"lock"})
  BY <1>1, TodoFacts
<1>3. CASE cmd[d] \in {"save", "failed-save"}
  <2>1. s = <<>>
    BY <1>3 DEF Left
  <2>2. QED
    BY <2>1
<1>4. CASE cmd[d] = "save-and-restart"
  <2>0. todo[d] \in Seq(Steps) /\ todo[d] \in Seq(Plain \cup {"lock"})
    BY <1>2, <1>4
  <2>1. s = IF IsSuffix(todo[d], RcRestart) THEN todo[d] ELSE <<>>
    BY <1>4 DEF Left
  <2>2. CASE IsSuffix(todo[d], RcRestart)
    <3>1. Rest(todo[d], RcRestart)
      BY <2>0, <2>2, RcRestartSteps, SuffixIsRest
    <3>2. todo[d] \in Seq(Plain)
      BY <2>0, <3>1, RcRestartSteps, RestFacts
    <3>3. QED
      BY <2>1, <2>2, <3>2
  <2>3. QED
    BY <2>1, <2>2
<1>5. CASE cmd[d] \notin Posts
  <2>0. todo[d] \in Seq(Steps) /\ todo[d] \in Seq(Plain \cup {"lock"})
    BY <1>1, <1>2, <1>5
  <2>1. todo[d] \in Seq(Plain \cup {"no-web"})
    BY <1>1, <1>5, TodoFacts
  <2>2. todo[d] \in Seq(Plain)
    <3>1. \A i \in 1..Len(todo[d]) : todo[d][i] \in Plain
      <4>1. "lock" # "no-web"
        OBVIOUS
      <4>2. \A i \in 1..Len(todo[d]) :
               todo[d][i] \in Plain \cup {"lock"} /\ todo[d][i] \in Plain \cup {"no-web"}
        BY <2>0, <2>1
      <4>3. QED
        BY <4>1, <4>2
    <3>2. QED
      BY <2>0, <3>1
  <2>3. s \in {Before(todo[d], {"daemon", "else", "look"}),
               Before(todo[d], {"term", "daemon", "else", "look"})}
    BY <1>5 DEF Left, Posts
  <2>4. ASSUME NEW ends PROVE Before(todo[d], ends) \in Seq(Plain)
    <3>1. PICK n \in 0..Len(todo[d]) : Before(todo[d], ends) = SubSeq(todo[d], 1, n)
      BY <2>2, BeforeFacts
    <3>2. QED
      BY <2>2, <3>1, InitialFacts
  <2>5. QED
    BY <2>3, <2>4
<1>6. QED
  BY <1>3, <1>4, <1>5 DEF Posts

\* A step shortens its own script only.
LEMMA TodosKept ==
    ASSUME ServiceTypeOK, Todos, NEW c \in Callers, Proceed(c), todo[c] # <<>>,
           Head(todo[c]) # "no-web"
    PROVE  /\ Todos'
           /\ \A d \in Callers : cmd'[d] \in Commands => IsSuffix(todo'[d], Script(cmd'[d]))
           /\ \A d \in Callers \ {c} : todo'[d] = todo[d]
<1>1. /\ cmd' = cmd
      /\ Continue(c) \/ Fail(c) \/ todo' = [todo EXCEPT ![c] = <<>>]
  BY StepKeeps
<1>2. todo \in [Callers -> Seq(Steps)] /\ todo[c] \in Seq(Steps)
  BY DEF Todos
<1>3. PICK n \in 1..(Len(todo[c]) + 1) :
         todo' = [todo EXCEPT ![c] = SubSeq(todo[c], n, Len(todo[c]))]
  BY <1>1, <1>2, GoesOn
<1> DEFINE r == SubSeq(todo[c], n, Len(todo[c]))
<1>4. ASSUME NEW T, todo[c] \in Seq(T) PROVE r \in Seq(T)
  BY <1>4, SliceFacts
<1>5. /\ todo' = [todo EXCEPT ![c] = r] /\ todo'[c] = r
      /\ \A d \in Callers \ {c} : todo'[d] = todo[d]
  BY <1>2, <1>3
<1>6. r \in Seq(Steps)
  BY <1>2, <1>4
<1>7. cmd[c] = "orphan" => r \in Seq(Plain)
  BY <1>4 DEF Todos
<1>8. cmd[c] \in Commands => IsSuffix(r, Script(cmd[c]))
  <2>1. SUFFICES ASSUME cmd[c] \in Commands PROVE IsSuffix(r, Script(cmd[c]))
    OBVIOUS
  <2>2. Script(cmd[c]) \in Seq(Steps) /\ Rest(todo[c], Script(cmd[c]))
    BY <2>1, TodoFacts
  <2>3. Rest(r, Script(cmd[c]))
    BY <1>2, <2>2, SliceIsRest
  <2>4. QED
    BY <1>6, <2>2, <2>3, SuffixIsRest
<1> HIDE DEF r
<1>9. todo' \in [Callers -> Seq(Steps)]
  BY <1>2, <1>5, <1>6
<1>10. ASSUME NEW d \in Callers
       PROVE  /\ cmd'[d] = "orphan" => todo'[d] \in Seq(Plain)
              /\ cmd'[d] = "failed-save" => todo'[d] = <<>>
              /\ cmd'[d] \in Commands => IsSuffix(todo'[d], Script(cmd'[d]))
  <2>1. CASE d = c
    <3>1. cmd[c] # "failed-save"
      BY DEF Todos
    <3>2. QED
      BY <1>1, <1>5, <1>7, <1>8, <2>1, <3>1
  <2>2. CASE d # c
    BY <1>1, <1>5, <2>2 DEF Todos, ServiceTypeOK
  <2>3. QED
    BY <2>1, <2>2
<1>11. QED
  BY <1>5, <1>9, <1>10 DEF Todos

\* A step of a script keeps the types.
LEMMA TypeKeptByStep ==
    ASSUME ServiceTypeOK, Todos, NEW c \in Callers, Proceed(c), todo[c] # <<>>,
           Head(todo[c]) # "no-web"
    PROVE  ServiceTypeOK'
<1>1. cmd' = cmd /\ alone' = alone /\ tame' = tame /\ last' = last
  BY StepKeeps
<1>2. \A d \in Callers : cmd'[d] \in Commands => IsSuffix(todo'[d], Script(cmd'[d]))
  BY TodosKept
<1>3. /\ fresh \subseteq up /\ up \subseteq Pids
      /\ file \in Pids \cup {NoPid} /\ whole \in BOOLEAN /\ web \in BOOLEAN
      /\ seen \in [Callers -> Pids \cup {NoPid}]
  BY DEF ServiceTypeOK
<1>4. fresh' \subseteq up' /\ up' \subseteq Pids /\ file' \in Pids \cup {NoPid}
  <2>1. CASE Daemon(c)
    BY <1>3, <2>1 DEF Daemon
  <2>2. CASE Term(c) \/ Kill(c) \/ KillByName(c)
    <3>1. (up' = up /\ fresh' = fresh /\ file' = file) \/ \E gone \in SUBSET up : Ends(gone)
      BY <2>2 DEF Term, Kill, KillByName
    <3>2. QED
      BY <1>3, <3>1 DEF Ends, FileWithout
  <2>3. CASE KillByLine(c) \/ Truncate(c) \/ Clean(c) \/ RemoveSeen(c) \/ RemoveAll(c)
    BY <1>3, <2>3 DEF KillByLine, Truncate, Clean, RemoveSeen, RemoveAll
  <2>4. CASE Check(c) \/ Peek(c) \/ SkipElse(c) \/ Look(c) \/ Lock(c) \/ Write(c) \/ StartWeb(c)
    BY <1>3, <2>4 DEF Check, Peek, SkipElse, Look, Lock, Write, StartWeb
  <2>5. QED
    BY <2>1, <2>2, <2>3, <2>4, HeadActs
<1>5. whole' \in BOOLEAN
  BY <1>3, HeadActs DEF Check, Peek, Clean, Daemon, SkipElse, Term, Kill, RemoveSeen, KillByLine,
     KillByName, RemoveAll, Look, Lock, Truncate, Write, StartWeb
<1>6. web' \in BOOLEAN
  BY <1>3, HeadActs DEF Check, Peek, Clean, Daemon, SkipElse, Term, Kill, RemoveSeen, KillByLine,
     KillByName, RemoveAll, Look, Lock, Truncate, Write, StartWeb
<1>7. seen' \in [Callers -> Pids \cup {NoPid}]
  <2>1. CASE Head(todo[c]) = "peek"
    BY <1>3, <2>1, HeadActs DEF Peek
  <2>2. CASE Head(todo[c]) # "peek"
    BY <1>3, <2>2, HeadActs DEF Check, Clean, Daemon, SkipElse, Term, Kill, RemoveSeen,
       KillByLine, KillByName, RemoveAll, Look, Lock, Truncate, Write, StartWeb
  <2>3. QED
    BY <2>1, <2>2
<1>8. mu' \in {d \in Callers : cmd'[d] \in Posts} \cup {NoCaller}
  <2>1. CASE Head(todo[c]) = "lock"
    <3>1. Lock(c)
      BY <2>1, HeadActs
    <3>2. cmd[c] \in Posts
      BY <3>1, LocksArePosts DEF Lock, Step
    <3>3. QED
      BY <1>1, <3>1, <3>2 DEF Lock
  <2>2. CASE Head(todo[c]) # "lock"
    <3>1. mu' = mu
      BY <2>2, HeadActs DEF Check, Peek, Clean, Daemon, SkipElse, Term, Kill, RemoveSeen,
         KillByLine, KillByName, RemoveAll, Look, Truncate, Write, StartWeb
    <3>2. QED
      BY <1>1, <3>1 DEF ServiceTypeOK
  <2>3. QED
    BY <2>1, <2>2
<1>9. QED
  BY <1>1, <1>2, <1>4, <1>5, <1>6, <1>7, <1>8 DEF ServiceTypeOK

\* So does the end of the controller, which ends requests or leaves a script to go on.
LEMMA TypeKeptByStopWeb ==
    ASSUME ServiceTypeOK, Todos, NEW c \in Callers, StopWeb(c)
    PROVE  /\ ServiceTypeOK' /\ Todos'
           /\ \A d \in Callers : cmd'[d] # "orphan" =>
                /\ cmd[d] \notin Requests /\ cmd'[d] = cmd[d]
                /\ d # c => todo'[d] = todo[d]
<1>1. cmd[c] \in Commands
  BY OrphansOnly DEF StopWeb
<1>2. /\ cmd[c] \in Controls /\ todo'[c] = Tail(todo[c]) /\ cmd[c] \notin Requests
      /\ todo[c] # <<>>
  BY <1>1, StopWebFacts, Words DEF StopWeb, Now
<1> DEFINE killed == {d \in Callers : cmd[d] \in Requests}
<1>3. PICK left \in [killed -> UNION {Left(d) : d \in killed}] :
         /\ \A d \in killed : left[d] \in Left(d)
         /\ todo' = [d \in Callers |-> IF d \in killed THEN left[d]
                                      ELSE IF d = c THEN Tail(todo[c]) ELSE todo[d]]
  BY DEF StopWeb
<1>4. cmd' = [d \in Callers |-> IF d \in killed THEN "orphan" ELSE cmd[d]]
  BY DEF StopWeb
<1>5. ASSUME NEW d \in killed
      PROVE  cmd'[d] = "orphan" /\ todo'[d] \in Seq(Plain) /\ todo'[d] \in Seq(Steps)
  <2>1. cmd'[d] = "orphan" /\ todo'[d] = left[d] /\ left[d] \in Left(d)
    BY <1>3, <1>4
  <2>2. todo'[d] \in Seq(Plain)
    BY <2>1, LeftFacts
  <2>3. Plain \subseteq Steps
    BY DEF Steps
  <2>4. QED
    BY <2>1, <2>2, <2>3, SeqWithin
<1>6. ASSUME NEW d \in Callers \ killed, d # c
      PROVE  cmd'[d] = cmd[d] /\ todo'[d] = todo[d]
  BY <1>3, <1>4, <1>6
<1>7. cmd'[c] = cmd[c] /\ todo'[c] \in Seq(Steps) /\ IsSuffix(todo'[c], Script(cmd[c]))
  <2>1. /\ todo[c] \in Seq(Steps) /\ Script(cmd[c]) \in Seq(Steps)
        /\ Rest(todo[c], Script(cmd[c]))
    BY <1>1, TodoFacts
  <2>2. Tail(todo[c]) \in Seq(Steps) /\ Rest(Tail(todo[c]), Script(cmd[c]))
    BY <1>2, <2>1, TailIsRest
  <2>3. IsSuffix(Tail(todo[c]), Script(cmd[c]))
    BY <2>1, <2>2, SuffixIsRest
  <2>4. QED
    BY <1>2, <1>4, <2>2, <2>3
<1>8. ASSUME NEW d \in Callers
      PROVE  /\ todo'[d] \in Seq(Steps)
             /\ cmd'[d] = "orphan" => todo'[d] \in Seq(Plain)
             /\ cmd'[d] \in Commands => IsSuffix(todo'[d], Script(cmd'[d]))
             /\ cmd'[d] = "failed-save" => todo'[d] = <<>>
             /\ cmd'[d] \in Commands \cup {"none", "orphan", "failed-save"}
             /\ cmd'[d] # "orphan" =>
                  /\ cmd[d] \notin Requests /\ cmd'[d] = cmd[d]
                  /\ d # c => todo'[d] = todo[d]
  <2>1. CASE d \in killed
    BY <1>5, <2>1, Words
  <2>2. CASE d = c
    BY <1>1, <1>2, <1>7, <2>2, Words
  <2>3. CASE d \notin killed /\ d # c
    <3>1. cmd'[d] = cmd[d] /\ todo'[d] = todo[d]
      BY <1>6, <2>3
    <3>2. QED
      BY <2>3, <3>1 DEF Todos, ServiceTypeOK
  <2>4. QED
    BY <2>1, <2>2, <2>3
<1> HIDE DEF killed
<1>9. Todos'
  <2>1. todo' \in [Callers -> Seq(Steps)]
    BY <1>3, <1>8
  <2>2. QED
    BY <1>8, <2>1 DEF Todos
<1>10. cmd' \in [Callers -> Commands \cup {"none", "orphan", "failed-save"}]
  BY <1>4, <1>8
<1>11. /\ mu' = NoCaller /\ web' \in BOOLEAN
       /\ UNCHANGED <<up, fresh, file, whole, seen, alone, tame, last>>
  BY DEF StopWeb
<1>12. ServiceTypeOK'
  BY <1>8, <1>10, <1>11 DEF ServiceTypeOK
<1>13. QED
  BY <1>8, <1>9, <1>12

\* So does the end of a command.
LEMMA TypeKeptByEnd ==
    ASSUME ServiceTypeOK, Todos, NEW c \in Callers, End(c)
    PROVE  ServiceTypeOK' /\ Todos'
<1>1. /\ cmd' = [cmd EXCEPT ![c] = "none"] /\ todo' = todo
      /\ seen' = [seen EXCEPT ![c] = NoPid] /\ alone' = [alone EXCEPT ![c] = FALSE]
      /\ tame' = (tame \/ (cmd[c] \in Stops /\ alone[c]))
      /\ last' = IF last = "crash" THEN last ELSE cmd[c]
      /\ mu' = IF mu = c THEN NoCaller ELSE mu
      /\ up' = up /\ fresh' = fresh /\ file' = file /\ whole' = whole /\ web' = web
  BY DEF End
<1>2. cmd \in [Callers -> Commands \cup {"none", "orphan", "failed-save"}]
  BY DEF ServiceTypeOK
<1>3. \A d \in Callers : cmd'[d] # "none" => d # c /\ cmd'[d] = cmd[d]
  BY <1>1, <1>2
<1>4. Todos'
  BY <1>1, <1>3 DEF Todos
<1>5. cmd' \in [Callers -> Commands \cup {"none", "orphan", "failed-save"}]
  BY <1>1, <1>2
<1>6. \A d \in Callers : cmd'[d] \in Commands => IsSuffix(todo'[d], Script(cmd'[d]))
  BY <1>1, <1>3, Words DEF ServiceTypeOK
<1>7. mu' \in {d \in Callers : cmd'[d] \in Posts} \cup {NoCaller}
  BY <1>1, <1>2 DEF ServiceTypeOK
<1>8. /\ seen' \in [Callers -> Pids \cup {NoPid}]
      /\ alone' \in [Callers -> BOOLEAN]
  BY <1>1 DEF ServiceTypeOK
<1>9. tame' \in BOOLEAN
  BY <1>1 DEF ServiceTypeOK
<1>10. last' \in Commands \cup {"none", "orphan", "failed-save", "crash"}
  BY <1>1, <1>2 DEF ServiceTypeOK
<1>11. QED
  BY <1>1, <1>4, <1>5, <1>6, <1>7, <1>8, <1>9, <1>10 DEF ServiceTypeOK

\* A sequence ends with itself.
LEMMA SuffixOfItself == ASSUME NEW T, NEW s \in Seq(T) PROVE IsSuffix(s, s)
<1>1. Len(s) \in Nat /\ \A i \in 1..Len(s) : Len(s) - Len(s) + i = i
  OBVIOUS
<1>2. Rest(s, s)
  BY <1>1 DEF Rest
<1>3. QED
  BY <1>2, SuffixIsRest

\* So does a command that begins.
LEMMA TypeKeptByBegin ==
    ASSUME ServiceTypeOK, Todos, NEW c \in Callers, Begin(c)
    PROVE  ServiceTypeOK' /\ Todos'
<1>1. PICK command \in Commands :
         /\ cmd' = [cmd EXCEPT ![c] = command]
         /\ todo' = [todo EXCEPT ![c] = Script(command)]
         /\ tame' = (tame /\ (Running = {} \/ {cmd[d] : d \in Running} \cup {command} \subseteq Posts))
  BY DEF Begin
<1>2. /\ cmd[c] = "none" /\ alone' = [d \in Callers |-> d = c /\ Running = {}]
      /\ last' = IF Running = {} THEN "none" ELSE last
      /\ UNCHANGED <<up, fresh, file, whole, web, mu, seen>>
  BY DEF Begin
<1>3. Script(command) \in Seq(Steps) /\ IsSuffix(Script(command), Script(command))
  BY ScriptsWell, SuffixOfItself DEF Well
<1>4. /\ cmd'[c] = command /\ todo'[c] = Script(command)
      /\ \A d \in Callers \ {c} : cmd'[d] = cmd[d] /\ todo'[d] = todo[d]
  BY <1>1 DEF ServiceTypeOK, Todos
<1>5. todo' \in [Callers -> Seq(Steps)]
  BY <1>1, <1>3 DEF Todos
<1>6. Todos'
  <2>1. \A d \in Callers : cmd'[d] \in {"orphan", "failed-save"} => d # c
    BY <1>4, Words
  <2>2. QED
    BY <1>4, <1>5, <2>1 DEF Todos
<1>7. cmd' \in [Callers -> Commands \cup {"none", "orphan", "failed-save"}]
  BY <1>1 DEF ServiceTypeOK
<1>8. \A d \in Callers : cmd'[d] \in Commands => IsSuffix(todo'[d], Script(cmd'[d]))
  BY <1>3, <1>4 DEF ServiceTypeOK
<1>9. mu' \in {d \in Callers : cmd'[d] \in Posts} \cup {NoCaller}
  <2>1. mu \in {d \in Callers : cmd[d] \in Posts} \cup {NoCaller} /\ mu # c
    BY <1>2, Words, ServiceAssumption DEF ServiceTypeOK
  <2>2. QED
    BY <1>2, <1>4, <2>1
<1>10. alone' \in [Callers -> BOOLEAN] /\ tame' \in BOOLEAN
  BY <1>1, <1>2 DEF ServiceTypeOK
<1>11. last' \in Commands \cup {"none", "orphan", "failed-save", "crash"}
  BY <1>2 DEF ServiceTypeOK
<1>12. QED
  BY <1>2, <1>6, <1>7, <1>8, <1>9, <1>10, <1>11 DEF ServiceTypeOK

\* A POST whose write fails has the mutex: it is past its Lock.
LEMMA FailedHolds ==
    ASSUME ServiceTypeOK, Todos, LockFirst, NEW c \in Callers, SaveFails(c)
    PROVE  mu = c
<1>1. SUFFICES ASSUME mu # c PROVE FALSE
  OBVIOUS
<1>2. cmd[c] \in Posts /\ (Now(c, "truncate") \/ Now(c, "write"))
  BY DEF SaveFails
<1>3. Head(todo[c]) = "lock"
  BY <1>1, <1>2, WaitsForLock
<1>4. QED
  BY <1>2, <1>3 DEF Now

\* So does a write that fails.
LEMMA TypeKeptByFailure ==
    ASSUME ServiceTypeOK, Todos, NEW c \in Callers, SaveFails(c)
    PROVE  ServiceTypeOK' /\ Todos'
<1>1. /\ cmd[c] \in Posts
      /\ cmd' = [cmd EXCEPT ![c] = "failed-save"] /\ todo' = [todo EXCEPT ![c] = <<>>]
      /\ UNCHANGED <<up, fresh, file, web, mu, seen, alone, tame, last>>
  BY DEF SaveFails
<1>2. whole' \in BOOLEAN
  BY DEF SaveFails, ServiceTypeOK
<1>3. cmd \in [Callers -> Commands \cup {"none", "orphan", "failed-save"}]
  BY DEF ServiceTypeOK
<1>4. cmd' \in [Callers -> Commands \cup {"none", "orphan", "failed-save"}]
  BY <1>1, <1>3
<1>5. todo' \in [Callers -> Seq(Steps)]
  BY <1>1 DEF Todos
<1>6. /\ cmd'[c] = "failed-save" /\ todo'[c] = <<>>
      /\ \A d \in Callers \ {c} : cmd'[d] = cmd[d] /\ todo'[d] = todo[d]
  BY <1>1, <1>3 DEF Todos
<1>7. Todos'
  BY <1>5, <1>6 DEF Todos
<1>8. \A d \in Callers : cmd'[d] \in Commands => IsSuffix(todo'[d], Script(cmd'[d]))
  BY <1>6, Words DEF ServiceTypeOK
<1>9. mu' \in {d \in Callers : cmd'[d] \in Posts} \cup {NoCaller}
  BY <1>1, <1>6, Words DEF ServiceTypeOK
<1>10. QED
  BY <1>1, <1>2, <1>4, <1>7, <1>8, <1>9 DEF ServiceTypeOK

\* Every step keeps the types.
LEMMA TypeKept ==
    ASSUME ServiceTypeOK, Todos, [ServiceNext]_serviceVars
    PROVE  ServiceTypeOK' /\ Todos'
<1>1. ASSUME NEW c \in Callers, Begin(c) PROVE ServiceTypeOK' /\ Todos'
  BY <1>1, TypeKeptByBegin
<1>2. ASSUME NEW c \in Callers, Proceed(c) PROVE ServiceTypeOK' /\ Todos'
  <2>1. CASE todo[c] = <<>>
    BY <1>2, <2>1, EndActs, TypeKeptByEnd
  <2>2. CASE todo[c] # <<>> /\ Head(todo[c]) = "no-web"
    BY <1>2, <2>2, HeadActs, TypeKeptByStopWeb
  <2>3. CASE todo[c] # <<>> /\ Head(todo[c]) # "no-web"
    BY <1>2, <2>3, TypeKeptByStep, TodosKept
  <2>4. QED
    BY <2>1, <2>2, <2>3
<1>3. ASSUME NEW p \in Pids, Crash(p) PROVE ServiceTypeOK' /\ Todos'
  <2>1. /\ up' \subseteq up /\ fresh' \subseteq up' /\ file' \in Pids \cup {NoPid}
        /\ last' = "crash" /\ UNCHANGED <<whole, web, mu, cmd, todo, seen, alone, tame>>
    BY <1>3 DEF Crash, Ends, FileWithout, ServiceTypeOK
  <2>2. QED
    BY <2>1 DEF ServiceTypeOK, Todos
<1>4. ASSUME NEW c \in Callers, SaveFails(c) PROVE ServiceTypeOK' /\ Todos'
  BY <1>4, TypeKeptByFailure
<1>5. CASE UNCHANGED serviceVars
  BY <1>5 DEF serviceVars, ServiceTypeOK, Todos
<1>6. QED
  BY <1>1, <1>2, <1>3, <1>4, <1>5 DEF ServiceNext

-----------------------------------------------------------------------------
(***************************************************************************)
(* Who may run with whom                                                   *)
(***************************************************************************)
LEMMA LocksKept ==
    ASSUME ServiceTypeOK, Todos, LockFirst, [ServiceNext]_serviceVars
    PROVE  LockFirst'
<1>1. ASSUME NEW c \in Callers, Begin(c), NEW d \in Callers, cmd'[d] \in Posts
      PROVE  mu' = d \/ (cmd'[d] \in Commands /\ todo'[d] = Script(cmd'[d]))
  <2>1. PICK command \in Commands : /\ cmd' = [cmd EXCEPT ![c] = command]
                                    /\ todo' = [todo EXCEPT ![c] = Script(command)]
                                    /\ mu' = mu
    BY <1>1 DEF Begin
  <2>2. CASE d = c
    BY <2>1, <2>2 DEF ServiceTypeOK, Todos
  <2>3. CASE d # c
    <3>1. cmd'[d] = cmd[d] /\ todo'[d] = todo[d]
      BY <2>1, <2>3 DEF ServiceTypeOK, Todos
    <3>2. QED
      BY <1>1, <2>1, <3>1 DEF LockFirst
  <2>4. QED
    BY <2>2, <2>3
<1>2. ASSUME NEW c \in Callers, Proceed(c), NEW d \in Callers, cmd'[d] \in Posts
      PROVE  mu' = d \/ (cmd'[d] \in Commands /\ todo'[d] = Script(cmd'[d]))
  <2>1. CASE todo[c] = <<>>
    <3>1. End(c)
      BY <1>2, <2>1, EndActs
    <3>2. d # c /\ cmd'[d] = cmd[d] /\ todo'[d] = todo[d]
      BY <1>2, <3>1, Words DEF End, ServiceTypeOK
    <3>3. mu = d => mu' = d
      BY <3>1, <3>2 DEF End
    <3>4. QED
      BY <1>2, <3>2, <3>3 DEF LockFirst
  <2>2. CASE todo[c] # <<>> /\ Head(todo[c]) = "no-web"
    <3>1. StopWeb(c)
      BY <1>2, <2>2, HeadActs
    <3>2. cmd[d] \notin Requests /\ cmd'[d] = cmd[d]
      BY <1>2, <3>1, TypeKeptByStopWeb, Words
    <3>3. QED
      BY <1>2, <3>2, Words
  <2>3. CASE todo[c] # <<>> /\ Head(todo[c]) = "lock"
    <3>1. Lock(c) /\ cmd' = cmd
      BY <1>2, <2>3, HeadActs, StepKeeps
    <3>2. mu = NoCaller /\ mu' = c
      BY <3>1 DEF Lock
    <3>3. CASE d # c
      <4>1. todo'[d] = todo[d] /\ mu # d
        BY <1>2, <2>3, <3>2, <3>3, TodosKept, ServiceAssumption
      <4>2. QED
        BY <1>2, <3>1, <4>1 DEF LockFirst
    <3>4. QED
      BY <3>2, <3>3
  <2>4. CASE todo[c] # <<>> /\ Head(todo[c]) \notin {"lock", "no-web"}
    <3>1. cmd' = cmd
      BY <1>2, <2>4, StepKeeps
    <3>2. mu' = mu
      BY <1>2, <2>4, HeadActs DEF Check, Peek, Clean, Daemon, SkipElse, Term, Kill, RemoveSeen,
         KillByLine, KillByName, RemoveAll, Look, Truncate, Write, StartWeb
    <3>3. CASE d = c
      BY <1>2, <2>4, <3>1, <3>2, <3>3, WaitsForLock
    <3>4. CASE d # c
      <4>1. todo'[d] = todo[d]
        BY <1>2, <2>4, <3>4, TodosKept
      <4>2. QED
        BY <1>2, <3>1, <3>2, <4>1 DEF LockFirst
    <3>5. QED
      BY <3>3, <3>4
  <2>5. QED
    BY <2>1, <2>2, <2>3, <2>4
<1>3. ASSUME NEW p \in Pids, Crash(p) PROVE LockFirst'
  BY <1>3 DEF Crash, LockFirst
<1>4. ASSUME NEW c \in Callers, SaveFails(c) PROVE LockFirst'
  <2>1. mu = c /\ mu' = mu /\ cmd' = [cmd EXCEPT ![c] = "failed-save"]
        /\ todo' = [todo EXCEPT ![c] = <<>>]
    BY <1>4, FailedHolds DEF SaveFails
  <2>2. \A d \in Callers \ {c} : cmd'[d] = cmd[d] /\ todo'[d] = todo[d]
    BY <2>1 DEF ServiceTypeOK, Todos
  <2>3. QED
    BY <2>1, <2>2 DEF LockFirst
<1>5. CASE UNCHANGED serviceVars
  BY <1>5 DEF serviceVars, LockFirst
<1>6. QED
  BY <1>1, <1>2, <1>3, <1>4, <1>5 DEF ServiceNext, LockFirst

\* Every step keeps the history of who was alone.
LEMMA SoloKept ==
    ASSUME ServiceTypeOK, Todos, Solo, [ServiceNext]_serviceVars
    PROVE  Solo'
<1>0. cmd \in [Callers -> Commands \cup {"none", "orphan", "failed-save"}]
  BY DEF ServiceTypeOK
<1>1. ASSUME NEW c \in Callers, Begin(c) PROVE Solo'
  <2>1. PICK command \in Commands :
           /\ cmd' = [cmd EXCEPT ![c] = command]
           /\ tame' = (tame /\ (Running = {} \/ {cmd[d] : d \in Running} \cup {command} \subseteq Posts))
    BY <1>1 DEF Begin
  <2>2. alone' = [d \in Callers |-> d = c /\ Running = {}] /\ cmd[c] = "none"
    BY <1>1 DEF Begin
  <2>3. cmd'[c] = command /\ \A d \in Callers \ {c} : cmd'[d] = cmd[d]
    BY <1>0, <2>1
  <2>4. Running = {} => \A d \in Callers : cmd[d] = "none"
    BY DEF Running
  <2>5. ASSUME NEW d \in Callers, alone'[d]
        PROVE  cmd'[d] # "none" /\ \A e \in Callers \ {d} : cmd'[e] = "none"
    <3>1. d = c /\ Running = {}
      BY <2>2, <2>5
    <3>2. QED
      BY <2>3, <2>4, <3>1, Words
  <2>6. ASSUME tame', NEW d \in Callers PROVE cmd'[d] # "orphan"
    BY <2>1, <2>3, <2>6, Words DEF Solo
  <2>7. ASSUME tame', NEW d \in Callers, NEW e \in Callers \ {d},
               cmd'[d] # "none", cmd'[e] # "none"
        PROVE  {cmd'[d], cmd'[e]} \subseteq Posts
    <3>1. tame /\ (Running = {} \/ {cmd[f] : f \in Running} \cup {command} \subseteq Posts)
      BY <2>1, <2>7
    <3>2. CASE Running = {}
      BY <2>3, <2>4, <2>7, <3>2
    <3>3. CASE {cmd[f] : f \in Running} \cup {command} \subseteq Posts
      <4>1. \A f \in Callers : cmd'[f] # "none" => cmd'[f] \in Posts
        BY <2>3, <3>3 DEF Running
      <4>2. QED
        BY <2>7, <4>1
    <3>4. QED
      BY <3>1, <3>2, <3>3
  <2>8. QED
    BY <2>5, <2>6, <2>7 DEF Solo
<1>2. ASSUME NEW c \in Callers, Proceed(c) PROVE Solo'
  <2>1. CASE todo[c] = <<>>
    <3>1. End(c)
      BY <1>2, <2>1, EndActs
    <3>2. /\ cmd' = [cmd EXCEPT ![c] = "none"] /\ alone' = [alone EXCEPT ![c] = FALSE]
          /\ tame' = (tame \/ (cmd[c] \in Stops /\ alone[c])) /\ cmd[c] # "none"
      BY <3>1 DEF End
    <3>3. cmd'[c] = "none" /\ \A d \in Callers \ {c} : cmd'[d] = cmd[d]
      BY <1>0, <3>2
    <3>4. \A d \in Callers : ~alone'[d]
      <4>1. ~alone'[c] /\ \A d \in Callers \ {c} : alone'[d] = alone[d]
        BY <3>2 DEF ServiceTypeOK
      <4>2. \A d \in Callers \ {c} : ~alone[d]
        BY <3>2 DEF Solo
      <4>3. QED
        BY <4>1, <4>2
    <3>5. CASE alone[c]
      <4>1. \A d \in Callers : cmd'[d] = "none"
        BY <3>3, <3>5 DEF Solo
      <4>2. QED
        BY <3>4, <4>1 DEF Solo
    <3>6. CASE ~alone[c]
      <4>1. tame' => tame
        BY <3>2, <3>6
      <4>2. \A d \in Callers : cmd'[d] = "none" \/ cmd'[d] = cmd[d]
        BY <3>3
      <4>3. QED
        BY <3>4, <4>1, <4>2 DEF Solo
    <3>7. QED
      BY <3>5, <3>6
  <2>2. CASE todo[c] # <<>> /\ Head(todo[c]) = "no-web"
    <3>1. StopWeb(c)
      BY <1>2, <2>2, HeadActs
    <3>2. cmd[c] \in Commands
      BY <3>1, OrphansOnly DEF StopWeb
    <3>3. /\ cmd[c] \in Controls /\ cmd'[c] = cmd[c] /\ alone' = alone /\ tame' = tame
          /\ cmd[c] \notin Posts /\ cmd[c] # "none"
      BY <3>1, <3>2, StopWebFacts, Words
    <3>4. \A d \in Callers : cmd[d] = "none" => cmd'[d] = "none"
      BY <3>1, Words DEF StopWeb
    <3>5. tame \/ alone[c] => \A d \in Callers \ {c} : cmd'[d] = "none"
      <4>1. tame \/ alone[c] => \A d \in Callers \ {c} : cmd[d] = "none"
        BY <3>3 DEF Solo
      <4>2. QED
        BY <3>4, <4>1
    <3>6. \A d \in Callers \ {c} : ~alone[d]
      BY <3>3 DEF Solo
    <3>7. ASSUME tame' PROVE \A d \in Callers : cmd'[d] # "orphan"
      BY <3>2, <3>3, <3>5, <3>7, Words
    <3>8. QED
      BY <3>2, <3>3, <3>5, <3>6, <3>7 DEF Solo
  <2>3. CASE todo[c] # <<>> /\ Head(todo[c]) # "no-web"
    <3>1. cmd' = cmd /\ alone' = alone /\ tame' = tame
      BY <1>2, <2>3, StepKeeps
    <3>2. QED
      BY <3>1 DEF Solo
  <2>4. QED
    BY <2>1, <2>2, <2>3
<1>3. ASSUME NEW p \in Pids, Crash(p) PROVE Solo'
  BY <1>3 DEF Crash, Solo
<1>4. ASSUME NEW c \in Callers, SaveFails(c) PROVE Solo'
  <2>1. cmd[c] \in Posts /\ cmd' = [cmd EXCEPT ![c] = "failed-save"] /\ UNCHANGED <<alone, tame>>
    BY <1>4 DEF SaveFails
  <2>2. cmd'[c] = "failed-save" /\ \A d \in Callers \ {c} : cmd'[d] = cmd[d]
    BY <1>0, <2>1
  <2>3. \A d \in Callers : /\ cmd'[d] = "none" <=> cmd[d] = "none"
                           /\ cmd'[d] = "orphan" <=> cmd[d] = "orphan"
                           /\ cmd'[d] \in Posts <=> cmd[d] \in Posts
    BY <2>1, <2>2, Words
  <2>4. QED
    BY <2>1, <2>3 DEF Solo
<1>5. CASE UNCHANGED serviceVars
  BY <1>5 DEF serviceVars, Solo
<1>6. QED
  BY <1>1, <1>2, <1>3, <1>4, <1>5 DEF ServiceNext

-----------------------------------------------------------------------------
(***************************************************************************)
(* The invariant                                                           *)
(***************************************************************************)
Minds == \A c \in Callers : Knows(c) /\ Clears(c) /\ Brings(c) /\ Saves(c)

\* Nobody becomes a Master, or is alone, by a step of another.
LEMMA NoNewMaster ==
    ASSUME ServiceTypeOK, Todos, LockFirst, Solo,
           NEW c \in Callers, Proceed(c), NEW d \in Callers \ {c}
    PROVE  ~Master(d)' /\ ~alone'[d]
<1>1. cmd[c] # "none"
  BY ProceedsRunning
<1>2. ~alone[d]
  BY <1>1 DEF Solo
<1>3. alone[c] => cmd[d] = "none"
  BY DEF Solo
<1>4. ~Master(d)
  BY OneAtATime
<1>5. /\ alone'[d] = alone[d]
      /\ cmd'[d] = cmd[d] \/ cmd'[d] \notin Commands
      /\ tame' => tame \/ alone[c]
      /\ mu' = d => mu = d
  <2>1. CASE todo[c] = <<>>
    <3>1. End(c)
      BY <2>1, EndActs
    <3>2. alone'[d] = alone[d] /\ cmd'[d] = cmd[d] /\ (tame' => tame \/ alone[c])
      BY <3>1 DEF End, ServiceTypeOK
    <3>3. mu' = d => mu = d
      BY <3>1, ServiceAssumption DEF End
    <3>4. QED
      BY <3>2, <3>3
  <2>2. CASE todo[c] # <<>> /\ Head(todo[c]) = "no-web"
    <3>1. StopWeb(c)
      BY <2>2, HeadActs
    <3>2. alone' = alone /\ tame' = tame /\ mu' = NoCaller
      BY <3>1 DEF StopWeb
    <3>3. cmd'[d] = cmd[d] \/ cmd'[d] = "orphan"
      BY <3>1 DEF StopWeb
    <3>4. QED
      BY <3>2, <3>3, Words, ServiceAssumption
  <2>3. CASE todo[c] # <<>> /\ Head(todo[c]) # "no-web"
    <3>1. cmd' = cmd /\ alone' = alone /\ tame' = tame
      BY <2>3, StepKeeps
    <3>2. mu' = d => mu = d
      BY <2>3, HeadActs DEF Check, Peek, Clean, Daemon, SkipElse, Term, Kill, RemoveSeen,
         KillByLine, KillByName, RemoveAll, Look, Lock, Truncate, Write, StartWeb
    <3>3. QED
      BY <3>1, <3>2
  <2>4. QED
    BY <2>1, <2>2, <2>3
<1>6. ASSUME Master(d)' PROVE FALSE
  <2>1. cmd'[d] \in Commands /\ (tame' \/ alone'[d]) /\ (cmd'[d] \in Posts => mu' = d)
    BY <1>6 DEF Master
  <2>2. cmd[d] \in Commands /\ cmd'[d] = cmd[d]
    BY <1>5, <2>1
  <2>3. tame
    BY <1>2, <1>3, <1>5, <2>1, <2>2, Words
  <2>4. QED
    BY <1>4, <1>5, <2>1, <2>2, <2>3 DEF Master
<1>7. QED
  BY <1>2, <1>5, <1>6

\* A command that begins has its script ahead of it.
LEMMA MindsKeptByBegin ==
    ASSUME ServiceInv, NEW c \in Callers, Begin(c)
    PROVE  Minds' /\ One' /\ Started'
<1>1. PICK command \in Commands :
         /\ cmd' = [cmd EXCEPT ![c] = command]
         /\ todo' = [todo EXCEPT ![c] = Script(command)]
         /\ tame' => tame
  BY DEF Begin
<1>2. /\ cmd[c] = "none" /\ alone' = [d \in Callers |-> d = c /\ Running = {}]
      /\ last' = IF Running = {} THEN "none" ELSE last
      /\ UNCHANGED <<up, fresh, file, whole, web, mu, seen>>
  BY DEF Begin
<1>3. /\ cmd'[c] = command /\ todo'[c] = Script(command)
      /\ \A d \in Callers \ {c} : cmd'[d] = cmd[d] /\ todo'[d] = todo[d]
  BY <1>1 DEF ServiceInv, ServiceTypeOK, Todos
<1>4. PICK x \in {"peek", "check", "no-web", "lock"}, y \in Steps : Well(Script(command), x, y)
  BY ScriptsWell
<1>5. ~Heads(todo'[c], Inner)
  BY <1>3, <1>4 DEF Heads, Inner, Well
<1>6. Knows(c)'
  BY <1>5 DEF Knows, Heads, Inner
<1>7. Clears(c)'
  BY <1>3, StopsStop DEF Clears
<1>8. Brings(c)'
  BY <1>3, <1>5, StartsArrive DEF Brings, Arrives, Heads, Inner
<1>9. Saves(c)'
  <2>1. mu # c
    BY <1>2, Words, ServiceAssumption DEF ServiceInv, ServiceTypeOK
  <2>2. cmd'[c] = "save-and-restart" => ~Master(c)'
    BY <1>2, <2>1 DEF Master, Posts
  <2>3. QED
    BY <2>2 DEF Saves
<1>10. ASSUME NEW d \in Callers \ {c}
       PROVE  Knows(d)' /\ Clears(d)' /\ Brings(d)' /\ Saves(d)'
  <2>1. ~alone'[d] /\ cmd'[d] = cmd[d] /\ todo'[d] = todo[d]
    BY <1>2, <1>3
  <2>2. Knows(d) /\ Clears(d) /\ Brings(d) /\ Saves(d)
    BY DEF ServiceInv
  <2>3. Clears(d)'
    BY <2>1 DEF Clears
  <2>4. CASE Master(d)'
    <3>1. tame' /\ tame /\ Master(d) /\ cmd[d] \in Commands
      BY <1>1, <1>2, <2>1, <2>4 DEF Master
    <3>2. d \in Running
      BY <3>1, Words DEF Running
    <3>3. last' = last
      BY <1>2, <3>2
    <3>4. Knows(d)'
      BY <1>2, <2>1, <2>2, <3>1 DEF Knows
    <3>5. Brings(d)'
      BY <1>2, <2>1, <2>2, <3>1, <3>3 DEF Brings
    <3>6. Saves(d)'
      BY <1>2, <2>1, <2>2, <3>1, <3>3 DEF Saves
    <3>7. QED
      BY <2>3, <3>4, <3>5, <3>6
  <2>5. CASE ~Master(d)'
    BY <2>3, <2>5 DEF Knows, Brings, Saves
  <2>6. QED
    BY <2>4, <2>5
<1>11. One'
  BY <1>1, <1>2 DEF ServiceInv, One
<1>12. Started'
  <2>1. c \in Running'
    BY <1>3, Words DEF Running
  <2>2. QED
    BY <2>1 DEF Started
<1>13. QED
  BY <1>6, <1>7, <1>8, <1>9, <1>10, <1>11, <1>12 DEF Minds

\* A command that ends has kept its promises.
LEMMA MindsKeptByEnd ==
    ASSUME ServiceInv, NEW c \in Callers, Proceed(c), todo[c] = <<>>
    PROVE  Minds' /\ One' /\ Started'
<1>1. End(c)
  BY EndActs
<1>2. /\ cmd' = [cmd EXCEPT ![c] = "none"] /\ alone' = [alone EXCEPT ![c] = FALSE]
      /\ tame' = (tame \/ (cmd[c] \in Stops /\ alone[c]))
      /\ last' = IF last = "crash" THEN last ELSE cmd[c]
      /\ UNCHANGED <<up, fresh, file, whole, todo>>
  BY <1>1 DEF End
<1>3. cmd'[c] = "none" /\ ~alone'[c]
  BY <1>2 DEF ServiceInv, ServiceTypeOK
<1>4. ~Master(c)'
  BY <1>3, Words DEF Master
<1>5. ASSUME NEW d \in Callers PROVE ~Master(d)' /\ ~alone'[d]
  BY <1>3, <1>4, NoNewMaster DEF ServiceInv
<1>6. Minds'
  BY <1>5 DEF Minds, Knows, Clears, Brings, Saves
<1>7. \A step : ~Has(todo[c], step)
  BY DEF Has
<1>8. cmd[c] \in Stops /\ alone[c] => up = {} /\ file = NoPid
  BY <1>7 DEF ServiceInv, Clears
<1>9. One'
  BY <1>2, <1>8 DEF ServiceInv, One
<1>10. Started'
  <2>1. SUFFICES ASSUME tame', last' \in Starts
                 PROVE  /\ up' # {} \/ ~whole'
                        /\ last' = "save-and-restart" => up' # {} /\ up' = fresh'
    BY DEF Started
  <2>2. last # "crash" /\ last' = cmd[c] /\ cmd[c] \in Starts /\ cmd[c] \notin Stops
    BY <1>2, <2>1, Words
  <2>3. tame
    BY <1>2, <2>1, <2>2
  <2>4. ~Lock(c)
    BY DEF Lock, Step, Now
  <2>5. Master(c)
    <3>1. cmd[c] \in Commands
      BY <2>2, Words DEF ServiceInv, ServiceTypeOK
    <3>2. QED
      BY <2>3, <2>4, <3>1, LockOrMaster DEF ServiceInv
  <2>6. up # {} \/ ~whole
    BY <1>7, <2>2, <2>3, <2>5 DEF ServiceInv, Brings
  <2>7. cmd[c] = "save-and-restart" => up # {} /\ up = fresh
    BY <2>2, <2>3, <2>5 DEF ServiceInv, Saves
  <2>8. QED
    BY <1>2, <2>2, <2>6, <2>7
<1>11. QED
  BY <1>6, <1>9, <1>10

\* A step of a script keeps what its caller knows and promises, and nobody else's.
LEMMA MindsKeptByStep ==
    ASSUME ServiceInv, NEW c \in Callers, Proceed(c), todo[c] # <<>>
    PROVE  Minds' /\ One' /\ Started'
<1>1. ServiceTypeOK /\ Todos /\ LockFirst /\ Solo /\ One
  BY DEF ServiceInv
<1>2. Knows(c) /\ Clears(c) /\ Brings(c) /\ Saves(c)
  BY DEF ServiceInv
<1>3. cmd[c] # "none"
  BY ProceedsRunning
<1>4. ASSUME NEW d \in Callers \ {c}
      PROVE  Knows(d)' /\ Clears(d)' /\ Brings(d)' /\ Saves(d)'
  <2>1. ~Master(d)' /\ ~alone'[d]
    BY <1>1, NoNewMaster
  <2>2. QED
    BY <2>1 DEF Knows, Clears, Brings, Saves
<1>5. CASE cmd[c] \notin Commands
  <2>1. cmd[c] = "orphan"
    BY <1>1, <1>3, <1>5 DEF ServiceTypeOK, Todos
  <2>2. Head(todo[c]) # "no-web"
    BY <1>1, <1>3, <1>5, OrphansOnly DEF Now
  <2>3. cmd' = cmd /\ tame' = tame
    BY <2>2, StepKeeps
  <2>4. ~tame'
    BY <1>1, <2>1, <2>3 DEF Solo
  <2>5. ~Master(c)' /\ cmd'[c] \notin Stops /\ cmd'[c] # "none"
    BY <1>3, <1>5, <2>1, <2>3, Words DEF Master
  <2>6. Minds'
    BY <1>4, <2>5 DEF Minds, Knows, Clears, Brings, Saves
  <2>7. QED
    BY <2>4, <2>6 DEF One, Started
<1>6. CASE cmd[c] \in Commands
  <2>1. cmd'[c] = cmd[c] /\ alone' = alone /\ tame' = tame /\ last' = last
    BY <1>1, <1>6, NextFacts
  <2>2. Started'
    <3>1. c \in Running'
      BY <1>3, <2>1 DEF Running
    <3>2. QED
      BY <3>1 DEF Started
  <2>3. Clears(c)'
    BY <1>1, <1>2, <1>6, ClearsKept
  <2>4. CASE tame \/ alone[c]
    <3>1. Master(c) \/ Lock(c)
      BY <1>1, <1>6, <2>4, LockOrMaster
    <3>2. Knows(c)' /\ Brings(c)' /\ Saves(c)'
      BY <1>1, <1>2, <1>6, <3>1, KnowsKept, BringsKept, SavesKept
    <3>3. Minds'
      BY <1>4, <2>3, <3>2 DEF Minds
    <3>4. One'
      <4>1. up \subseteq {file} => up' \subseteq {file'}
        BY <1>1, <1>2, <1>6, <3>1, OneKept
      <4>2. QED
        BY <1>1, <2>1, <4>1 DEF One
    <3>5. QED
      BY <2>2, <3>3, <3>4
  <2>5. CASE ~(tame \/ alone[c])
    <3>1. ~Master(c)' /\ ~tame'
      BY <2>1, <2>5 DEF Master
    <3>2. Minds'
      BY <1>4, <2>3, <3>1 DEF Minds, Knows, Brings, Saves
    <3>3. QED
      BY <2>2, <3>1, <3>2 DEF One
  <2>6. QED
    BY <2>4, <2>5
<1>7. QED
  BY <1>5, <1>6

\* Nor has a POST that could not write anything to promise, and it was the only one at work.
LEMMA MindsKeptByFailure ==
    ASSUME ServiceInv, NEW c \in Callers, SaveFails(c)
    PROVE  Minds' /\ One' /\ Started'
<1>1. /\ cmd[c] \in Posts /\ mu = c
      /\ cmd' = [cmd EXCEPT ![c] = "failed-save"]
      /\ UNCHANGED <<up, file, mu, alone, tame>>
  BY FailedHolds DEF ServiceInv, SaveFails
<1>2. cmd'[c] = "failed-save" /\ \A d \in Callers \ {c} : cmd'[d] = cmd[d]
  BY <1>1 DEF ServiceInv, ServiceTypeOK
<1>3. \A d \in Callers : ~Master(d)'
  <2>1. ~Master(c)'
    BY <1>2, Words DEF Master
  <2>2. ASSUME NEW d \in Callers \ {c}, Master(d)' PROVE FALSE
    <3>1. cmd[d] \in Commands /\ (tame \/ alone[d]) /\ (cmd[d] \in Posts => mu = d)
      BY <1>1, <1>2, <2>2 DEF Master
    <3>2. ~alone[d]
      BY <1>1, <2>2, Words DEF ServiceInv, Solo
    <3>3. cmd[d] \in Posts
      BY <1>1, <3>1, <3>2, Words DEF ServiceInv, Solo
    <3>4. QED
      BY <1>1, <2>2, <3>1, <3>3
  <2>3. QED
    BY <2>1, <2>2
<1>4. \A d \in Callers : Clears(d)'
  <2>1. Clears(c)'
    BY <1>2, Words DEF Clears
  <2>2. ASSUME NEW d \in Callers \ {c} PROVE ~alone'[d]
    BY <1>1, Words DEF ServiceInv, Solo
  <2>3. QED
    BY <2>1, <2>2 DEF Clears
<1>5. Minds'
  BY <1>3, <1>4 DEF Minds, Knows, Brings, Saves
<1>6. One'
  BY <1>1 DEF ServiceInv, One
<1>7. Started'
  <2>1. c \in Running'
    BY <1>2 DEF Running
  <2>2. QED
    BY <2>1 DEF Started
<1>8. QED
  BY <1>5, <1>6, <1>7

\* A crash keeps them too.
LEMMA MindsKeptByCrash ==
    ASSUME ServiceInv, NEW p \in Pids, Crash(p)
    PROVE  Minds' /\ One' /\ Started'
<1>1. /\ up' = up \ {p} /\ fresh' = fresh \ {p} /\ file' = IF file \in {p} THEN NoPid ELSE file
      /\ last' = "crash" /\ UNCHANGED <<whole, web, mu, cmd, todo, seen, alone, tame>>
  BY DEF Crash, Ends, FileWithout
<1>2. ASSUME NEW c \in Callers PROVE Knows(c)' /\ Clears(c)' /\ Brings(c)' /\ Saves(c)'
  <2>1. Knows(c) /\ Clears(c) /\ Saves(c) /\ (Master(c)' <=> Master(c))
    BY <1>1 DEF ServiceInv, Master
  <2>2. Knows(c)'
    BY <1>1, <2>1 DEF Knows
  <2>3. Clears(c)'
    BY <1>1, <2>1 DEF Clears
  <2>4. Saves(c)'
    BY <1>1, <2>1 DEF Saves
  <2>5. Brings(c)'
    BY <1>1 DEF Brings
  <2>6. QED
    BY <2>2, <2>3, <2>4, <2>5
<1>3. One'
  BY <1>1 DEF ServiceInv, One
<1>4. Started'
  BY <1>1, Words DEF Started
<1>5. QED
  BY <1>2, <1>3, <1>4 DEF Minds

\* Nothing runs at first.
LEMMA ServiceInvInit == ASSUME ServiceInit PROVE ServiceInv
<1>1. \A c \in Callers : cmd[c] = "none" /\ todo[c] = <<>> /\ ~alone[c]
  BY DEF ServiceInit
<1>2. \A c \in Callers : ~Master(c)
  BY <1>1, Words DEF Master
<1>3. ServiceTypeOK
  BY <1>1, Words DEF ServiceInit, ServiceTypeOK
<1>4. Todos /\ LockFirst
  BY <1>1, Words DEF ServiceInit, Todos, LockFirst
<1>5. Solo
  BY <1>1 DEF Solo
<1>6. One /\ Started
  BY Words DEF ServiceInit, One, Started
<1>7. \A c \in Callers : Knows(c) /\ Clears(c) /\ Brings(c) /\ Saves(c)
  BY <1>1, <1>2 DEF Knows, Clears, Brings, Saves
<1>8. QED
  BY <1>3, <1>4, <1>5, <1>6, <1>7 DEF ServiceInv

\* ServiceInv is kept by every step.
LEMMA ServiceInvNext ==
    ASSUME ServiceInv, [ServiceNext]_serviceVars
    PROVE  ServiceInv'
<1>1. ServiceTypeOK' /\ Todos' /\ LockFirst' /\ Solo'
  BY TypeKept, LocksKept, SoloKept DEF ServiceInv
<1>2. Minds' /\ One' /\ Started'
  <2>1. ASSUME NEW c \in Callers, Begin(c) PROVE Minds' /\ One' /\ Started'
    BY <2>1, MindsKeptByBegin
  <2>2. ASSUME NEW c \in Callers, Proceed(c) PROVE Minds' /\ One' /\ Started'
    BY <2>2, MindsKeptByEnd, MindsKeptByStep
  <2>3. ASSUME NEW p \in Pids, Crash(p) PROVE Minds' /\ One' /\ Started'
    BY <2>3, MindsKeptByCrash
  <2>6. ASSUME NEW c \in Callers, SaveFails(c) PROVE Minds' /\ One' /\ Started'
    BY <2>6, MindsKeptByFailure
  <2>4. CASE UNCHANGED serviceVars
    <3>1. UNCHANGED <<up, fresh, file, whole, web, mu, cmd, todo, seen, alone, tame, last>>
      BY <2>4 DEF serviceVars
    <3>2. \A c \in Callers : Master(c)' <=> Master(c)
      BY <3>1 DEF Master
    <3>3. ASSUME NEW c \in Callers PROVE Knows(c)' /\ Clears(c)' /\ Brings(c)' /\ Saves(c)'
      <4>1. Knows(c) /\ Clears(c) /\ Brings(c) /\ Saves(c)
        BY DEF ServiceInv
      <4>2. QED
        BY <3>1, <3>2, <4>1 DEF Knows, Clears, Brings, Saves
    <3>4. One' /\ Started'
      BY <3>1 DEF ServiceInv, One, Started, Running
    <3>5. QED
      BY <3>3, <3>4 DEF Minds
  <2>5. QED
    BY <2>1, <2>2, <2>3, <2>4, <2>6 DEF ServiceNext
<1>3. QED
  BY <1>1, <1>2 DEF ServiceInv, Minds

\* ServiceInv is inductive.
LEMMA ServiceInvariant == ServiceSpec => []ServiceInv
<1>1. ServiceInit => ServiceInv
  BY ServiceInvInit
<1>2. ServiceInv /\ [ServiceNext]_serviceVars => ServiceInv'
  BY ServiceInvNext
<1>3. QED
  BY <1>1, <1>2, PTL DEF ServiceSpec

-----------------------------------------------------------------------------
(***************************************************************************)
(* Theorems                                                                *)
(***************************************************************************)
\* Whatever runs at the same time, the variables keep their types: the mutex is held by a
\* POST that runs, and what a caller has left is the end of its command's script.
THEOREM ServiceTypes == ServiceSpec => []ServiceTypeOK
<1>1. ServiceInv => ServiceTypeOK
  BY DEF ServiceInv
<1>2. QED
  BY <1>1, ServiceInvariant, PTL

\* As long as nothing but POSTs of a configuration overlaps, at most one instance of
\* hev-socks5-tunnel runs and the pid file names it, between the steps of every script,
\* after crashes, and again after a stop nothing disturbs.
THEOREM OneInstanceRuns == ServiceSpec => []OneInstance
<1>1. ServiceInv => OneInstance
  <2>1. SUFFICES ASSUME ServiceInv, tame PROVE Cardinality(up) <= 1 /\ up \subseteq {file}
    BY DEF OneInstance
  <2>2. up \subseteq {file}
    BY <2>1 DEF ServiceInv, One
  <2>3. IsFiniteSet({file}) /\ Cardinality({file}) = 1
    BY FS_Singleton
  <2>4. IsFiniteSet(up) /\ Cardinality(up) <= Cardinality({file})
    BY <2>2, <2>3, FS_Subset
  <2>5. QED
    BY <2>2, <2>3, <2>4
<1>2. QED
  BY <1>1, ServiceInvariant, PTL

\* As long as nothing but POSTs of a configuration overlaps: when all is quiet and no
\* instance has crashed since, a start or restart that came last has left an instance,
\* unless a failed write or the kill of the controller left the configuration half
\* written; after a POST that wrote it and restarted, the instance has read what was
\* saved last.  A POST that could not write answers 500 and promises nothing.
THEOREM StartsLeaveAnInstance == ServiceSpec => []Started
<1>1. ServiceInv => Started
  BY DEF ServiceInv
<1>2. QED
  BY <1>1, ServiceInvariant, PTL

\* A stop that nothing disturbs ends with no instance and no pid file, whatever state
\* overlapping commands had left.
THEOREM StopsLeaveNothing == ServiceSpec => StopLeavesNothing
<1>1. ASSUME ServiceInv, NEW c \in Callers, End(c), cmd[c] \in Stops, alone[c]
      PROVE  up = {} /\ file = NoPid
  <2>1. todo[c] = <<>>
    BY <1>1 DEF End
  <2>2. \A step : ~Has(todo[c], step)
    BY <2>1 DEF Has
  <2>3. QED
    BY <1>1, <2>2 DEF ServiceInv, Clears
<1>2. ServiceInv /\ [ServiceNext]_serviceVars =>
        [\A c \in Callers : End(c) /\ cmd[c] \in Stops /\ alone[c] =>
             up = {} /\ file = NoPid]_serviceVars
  BY <1>1
<1>3. QED
  BY <1>2, ServiceInvariant, PTL DEF ServiceSpec, StopLeavesNothing

===============================================================================
